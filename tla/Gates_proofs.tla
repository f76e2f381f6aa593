---------------------------- MODULE Gates_proofs ----------------------------
(***************************************************************************)
(* The commands of a compared case keep to the case, for any encoder,      *)
(* number of rounds and attempts; the regression corpus is whole, for any  *)
(* number of promotions and whenever they die; and the export matrix and   *)
(* the first self-semantic oracle tell apart what differs, and call equal  *)
(* what was compared in full.  The scripts of the artifacts leave what is  *)
(* their own, for any number of runs: this needs of the scripts only the   *)
(* order of their steps, which ArtifactAssumption states.                  *)
(***************************************************************************)
EXTENDS CaseCommands, FailureCorpus, SelfOracle, ArtifactScripts, FiniteSetTheorems,
        WellFoundedInduction, TLAPS

-----------------------------------------------------------------------------
(* The commands of a case *)

\* What is so for zero and handed on from each number to the next.
LEMMA Onwards ==
    ASSUME NEW k \in Nat, NEW S, 0 \in S,
           \A j \in 1..k : j - 1 \in S => j \in S
    PROVE  0..k \subseteq S
<1> DEFINE Bad == (0..k) \ S
<1> SUFFICES ASSUME Bad # {} PROVE FALSE
    OBVIOUS
<1>1. Bad \subseteq Nat
    OBVIOUS
<1> DEFINE Less == OpToRel(<, Nat)
<1>2. IsWellFoundedOn(Less, Nat)
    BY NatLessThanWellFounded
<1>3. \A x, y \in Nat : <<y, x>> \in Less <=> y < x
    BY DEF OpToRel
<1> HIDE DEF Less, Bad
<1>4. PICK j \in Bad : \A i \in Bad : ~ (<<i, j>> \in Less)
    BY <1>1, <1>2, WFMin
<1>5. j \in 0..k /\ j \notin S
    BY DEF Bad
<1>6. j \in 1..k /\ j - 1 \in 0..k /\ j - 1 \in Nat /\ j \in Nat /\ j - 1 < j
    BY <1>5
<1>7. j - 1 \notin Bad
    BY <1>3, <1>4, <1>6
<1>8. j - 1 \in S
    BY <1>6, <1>7 DEF Bad
<1>9. QED BY <1>5, <1>6, <1>8

\* A module, and what it looks like after each of n encodings.
EncodingsFrom(w, n) ==
    {f \in [0..n -> Wasms] : f[0] = w /\ \A i \in 1..n : f[i] = encode[f[i - 1]]}

LEMMA EncodingsExist ==
    ASSUME encode \in [Wasms -> Wasms], NEW w \in Wasms, NEW n \in Nat
    PROVE  EncodingsFrom(w, n) # {}
<1> DEFINE S == {j \in 0..n : EncodingsFrom(w, j) # {}}
<1>1. 0 \in S
    <2>1. [i \in 0..0 |-> w] \in EncodingsFrom(w, 0)
        BY DEF EncodingsFrom
    <2>2. QED BY <2>1
<1>2. ASSUME NEW j \in 1..n, j - 1 \in S PROVE j \in S
    <2>1. PICK f : f \in EncodingsFrom(w, j - 1)
        BY <1>2
    <2>2. f \in [0..(j - 1) -> Wasms] /\ f[0] = w /\ \A i \in 1..(j - 1) : f[i] = encode[f[i - 1]]
        BY <2>1 DEF EncodingsFrom
    <2> DEFINE g == [i \in 0..j |-> IF i = j THEN encode[f[j - 1]] ELSE f[i]]
    <2>3. j - 1 \in 0..(j - 1) /\ f[j - 1] \in Wasms
        BY <2>2
    <2>4. g \in [0..j -> Wasms]
        BY <2>2, <2>3
    <2>5. g[0] = w /\ \A i \in 1..j : g[i] = encode[g[i - 1]]
        <3>1. g[0] = w
            BY <2>2
        <3>2. ASSUME NEW i \in 1..j PROVE g[i] = encode[g[i - 1]]
            <4>1. i - 1 \in 0..(j - 1) /\ i - 1 # j /\ g[i - 1] = f[i - 1]
                OBVIOUS
            <4>2. CASE i = j
                BY <4>1, <4>2
            <4>3. CASE i # j
                BY <2>2, <4>1, <4>3
            <4>4. QED BY <4>2, <4>3
        <3>3. QED BY <3>1, <3>2
    <2>6. g \in EncodingsFrom(w, j)
        BY <2>4, <2>5 DEF EncodingsFrom
    <2>7. QED BY <2>6
<1> HIDE DEF S
<1>3. n \in S
    BY <1>1, <1>2, Onwards
<1>4. QED BY <1>3 DEF S

LEMMA EncodingsAgree ==
    ASSUME NEW w, NEW m \in Nat, NEW n \in Nat, n <= m,
           NEW f \in EncodingsFrom(w, n), NEW g \in EncodingsFrom(w, m)
    PROVE  f[n] = g[n]
<1> DEFINE S == {j \in 0..n : f[j] = g[j]}
<1>1. 0 \in S
    BY DEF EncodingsFrom
<1>2. ASSUME NEW j \in 1..n, j - 1 \in S PROVE j \in S
    <2>1. f[j] = encode[f[j - 1]] /\ g[j] = encode[g[j - 1]] /\ f[j - 1] = g[j - 1]
        BY <1>2 DEF EncodingsFrom
    <2>2. QED BY <2>1
<1> HIDE DEF S
<1>3. n \in S
    BY <1>1, <1>2, Onwards
<1>4. QED BY <1>3 DEF S

LEMMA EncodedIsLast ==
    ASSUME encode \in [Wasms -> Wasms], NEW w \in Wasms, NEW n \in Nat
    PROVE  \E f \in EncodingsFrom(w, n) : Encoded(w, n) = f[n]
<1> DEFINE Is(f) == f = [i \in 0..n |-> IF i = 0 THEN w ELSE encode[f[i - 1]]]
           h == CHOOSE f : Is(f)
<1>1. PICK g : g \in EncodingsFrom(w, n)
    BY EncodingsExist
<1>2. Is(g)
    BY <1>1 DEF EncodingsFrom
<1>3. Is(h)
    <2> HIDE DEF Is
    <2>1. QED BY <1>2
<1>4. Encoded(w, n) = h[n]
    BY DEF Encoded
<1> HIDE DEF h
<1>5. h[0] = w /\ \A i \in 1..n : h[i] = encode[h[i - 1]]
    <2> DEFINE b == [i \in 0..n |-> IF i = 0 THEN w ELSE encode[h[i - 1]]]
    <2>1. \A i \in 0..n : b[i] = IF i = 0 THEN w ELSE encode[h[i - 1]]
        OBVIOUS
    <2>2. h = b
        BY <1>3
    <2> HIDE DEF b
    <2>3. QED BY <2>1, <2>2
<1>6. \A i \in 0..n : h[i] \in Wasms
    <2> DEFINE S == {j \in 0..n : h[j] \in Wasms}
    <2>1. 0 \in S
        BY <1>5
    <2>2. ASSUME NEW j \in 1..n, j - 1 \in S PROVE j \in S
        BY <1>5, <2>2
    <2> HIDE DEF S
    <2>3. 0..n \subseteq S
        BY <2>1, <2>2, Onwards
    <2>4. QED BY <2>3 DEF S
<1>7. h \in [0..n -> Wasms]
    BY <1>3, <1>6
<1>8. QED BY <1>4, <1>5, <1>7 DEF EncodingsFrom

\* An encoding more.
LEMMA EncodedOnce ==
    ASSUME encode \in [Wasms -> Wasms], NEW w \in Wasms
    PROVE  /\ Encoded(w, 0) = w
           /\ \A n \in Nat : Encoded(w, n) \in Wasms /\ Encoded(w, n + 1) = encode[Encoded(w, n)]
<1>1. Encoded(w, 0) = w
    BY EncodedIsLast DEF EncodingsFrom
<1>2. ASSUME NEW n \in Nat
      PROVE  Encoded(w, n) \in Wasms /\ Encoded(w, n + 1) = encode[Encoded(w, n)]
    <2>1. PICK f \in EncodingsFrom(w, n) : Encoded(w, n) = f[n]
        BY EncodedIsLast
    <2>2. PICK g \in EncodingsFrom(w, n + 1) : Encoded(w, n + 1) = g[n + 1]
        BY EncodedIsLast
    <2>3. f[n] = g[n]
        BY EncodingsAgree
    <2>4. g[n + 1] = encode[g[n]] /\ f[n] \in Wasms
        BY DEF EncodingsFrom
    <2>5. QED BY <2>1, <2>2, <2>3, <2>4
<1>3. QED BY <1>1, <1>2

\* Encodings of an encoding.
LEMMA EncodedTwice ==
    ASSUME encode \in [Wasms -> Wasms], NEW w \in Wasms, NEW m \in Nat, NEW n \in Nat
    PROVE  Encoded(Encoded(w, m), n) = Encoded(w, m + n)
<1> DEFINE S == {j \in 0..n : Encoded(Encoded(w, m), j) = Encoded(w, m + j)}
<1>1. Encoded(w, m) \in Wasms
    BY EncodedOnce
<1>2. 0 \in S
    BY <1>1, EncodedOnce
<1>3. ASSUME NEW j \in 1..n, j - 1 \in S PROVE j \in S
    <2>1. j - 1 \in Nat /\ m + (j - 1) \in Nat /\ (m + (j - 1)) + 1 = m + j /\ (j - 1) + 1 = j
        OBVIOUS
    <2>2. Encoded(Encoded(w, m), j) = encode[Encoded(Encoded(w, m), j - 1)]
        BY <1>1, <2>1, EncodedOnce
    <2>3. Encoded(w, m + j) = encode[Encoded(w, m + (j - 1))]
        BY <2>1, EncodedOnce
    <2>4. QED BY <1>3, <2>2, <2>3
<1> HIDE DEF S
<1>4. n \in S
    BY <1>2, <1>3, Onwards
<1>5. QED BY <1>4 DEF S

\* What an encoding leaves alone, every later one does.
LEMMA SettledStays ==
    ASSUME encode \in [Wasms -> Wasms], NEW w \in Wasms, NEW m \in Nat, NEW n \in Nat,
           Encoded(w, m + 1) = Encoded(w, m)
    PROVE  Encoded(w, m + n) = Encoded(w, m)
<1> DEFINE S == {j \in 0..n : Encoded(w, m + j) = Encoded(w, m)}
<1>1. 0 \in S
    OBVIOUS
<1>2. ASSUME NEW j \in 1..n, j - 1 \in S PROVE j \in S
    <2>1. m + (j - 1) \in Nat /\ (m + (j - 1)) + 1 = m + j
        OBVIOUS
    <2>2. Encoded(w, m + j) = encode[Encoded(w, m)]
        BY <1>2, <2>1, EncodedOnce
    <2>3. QED BY <2>2, EncodedOnce
<1> HIDE DEF S
<1>3. n \in S
    BY <1>1, <1>2, Onwards
<1>4. QED BY <1>3 DEF S

\* An encoding of a module that is not written anew.
LEMMA EncodedKeeps ==
    ASSUME encode' = encode, NEW side, file'[Raw(side)] = file[Raw(side)], NEW n
    PROVE  Encoded(file[Raw(side)], n)' = Encoded(file[Raw(side)], n)
    BY DEF Encoded

OutputSides == {"starshine", "binaryen"}
CommandNames ==
    {"starshine", "validate", "external", "binaryen", "binaryen_form", "binaryen_print",
     "starshine_form", "starshine_print", "match", "mismatch", "failed", "aborted"}
BinaryenFormed == {"binaryen_print", "starshine_form", "starshine_print", "match", "mismatch"}
StarshineFormed == {"starshine_print", "match", "mismatch"}
CaseFiles == Wasms \cup {Absent}

CommandTypes ==
    /\ encode \in [Wasms -> Wasms] /\ tried \in Nat
    /\ file \in [Paths -> CaseFiles] /\ age \in [Paths -> Nat]
    /\ form \in [round : Nat, source : CaseFiles, first : CaseFiles]
    /\ command \in CommandNames
    /\ command \notin {"starshine", "failed"} => file["starshine_raw"] \in Wasms
    /\ command \in BinaryenFormed \cup {"binaryen_form"} => file["binaryen_raw"] \in Wasms

\* What a round of the canonical form is given is an encoding of the output.
FormIsOf(side) ==
    form.round # 0 =>
        \E n \in 1..(FormRounds - 1) :
            form.round = n /\ form.source = Encoded(file[Raw(side)], n) /\ form.first # Absent

\* The canonical form of an output whose encoding settles is the settled one.
Formed(side) ==
    Encoded(file[Raw(side)], FormRounds) = Encoded(file[Raw(side)], FormRounds - 1) =>
        file[side] = Encoded(file[Raw(side)], FormRounds)

FormsInOrder ==
    /\ \A side \in OutputSides : command = FormOf(side) => FormIsOf(side)
    /\ command \notin {"binaryen_form", "starshine_form"} => form.round = 0
    /\ command \in BinaryenFormed => Formed("binaryen")
    /\ command \in StarshineFormed => Formed("starshine")
    /\ command = "mismatch" => file["starshine"] # file["binaryen"]

CommandInv == CommandTypes /\ OutputIsOfTheAttempt /\ FormsInOrder

LEMMA CommandStarts == CommandInit => CommandInv
    BY CaseCommandsAssumption
    DEF CommandInit, CommandInv, CommandTypes, OutputIsOfTheAttempt, FormsInOrder, FormIsOf, CaseFiles,
        CommandNames, BinaryenFormed, StarshineFormed, NoForm, Paths, FormOf

\* A step that leaves the outputs and their forms alone, and does not get further
\* than it may.
LEMMA ElsewhereKeepsForms ==
    ASSUME CommandInv, encode' = encode, form'.round = 0,
           \A p \in {"starshine_raw", "binaryen_raw", "starshine", "binaryen"} : file'[p] = file[p],
           \/ command' \notin BinaryenFormed
           \/ command \in BinaryenFormed /\ command' = "starshine_form"
           \/ command \in StarshineFormed /\ command' \in {"match", "mismatch"}
              /\ (command' = "mismatch" => file["starshine"] # file["binaryen"])
    PROVE  FormsInOrder'
<1>1. \A side \in OutputSides, n \in Nat : Encoded(file[Raw(side)], n)' = Encoded(file[Raw(side)], n)
    <2>1. \A side \in OutputSides : file'[Raw(side)] = file[Raw(side)]
        BY DEF OutputSides, Raw
    <2>2. QED BY <2>1, EncodedKeeps
<1>2. FormRounds \in Nat /\ FormRounds - 1 \in Nat
    BY CaseCommandsAssumption
<1>3. \A side \in OutputSides : Formed(side) => Formed(side)'
    <2> SUFFICES ASSUME NEW side \in OutputSides, Formed(side) PROVE Formed(side)'
        OBVIOUS
    <2>1. /\ Encoded(file[Raw(side)], FormRounds)' = Encoded(file[Raw(side)], FormRounds)
          /\ Encoded(file[Raw(side)], FormRounds - 1)' = Encoded(file[Raw(side)], FormRounds - 1)
        BY <1>1, <1>2
    <2>2. file'[side] = file[side]
        BY DEF OutputSides
    <2>3. QED BY <2>1, <2>2 DEF Formed
<1>4. \A side \in OutputSides : FormIsOf(side)'
    BY DEF FormIsOf
<1>5. (command' \in BinaryenFormed => Formed("binaryen")') /\ (command' \in StarshineFormed => Formed("starshine")')
    <2>1. command \in BinaryenFormed => Formed("binaryen")
        BY DEF CommandInv, FormsInOrder
    <2>2. command \in StarshineFormed => Formed("starshine")
        BY DEF CommandInv, FormsInOrder
    <2>3. StarshineFormed \subseteq BinaryenFormed /\ "starshine_form" \notin StarshineFormed
        BY DEF BinaryenFormed, StarshineFormed
    <2>4. QED BY <1>3, <2>1, <2>2, <2>3 DEF OutputSides
<1>6. command' = "mismatch" => file'["starshine"] # file'["binaryen"]
    BY DEF BinaryenFormed
<1>7. QED BY <1>4, <1>5, <1>6 DEF FormsInOrder

LEMMA RetryKeepsInv ==
    ASSUME CommandInv, RunStarshineWithRetry
    PROVE  CommandInv'
<1>1. /\ command = "starshine" /\ command' \in {"starshine", "validate", "failed"} /\ encode' = encode
      /\ form'.round = 0 /\ form' \in [round : Nat, source : CaseFiles, first : CaseFiles]
      /\ file' \in [Paths -> CaseFiles] /\ age' \in [Paths -> Nat] /\ tried' \in Nat
      /\ command' = "validate" => file'["starshine_raw"] \in Wasms /\ age'["starshine_raw"] = tried'
      /\ command' = "failed" => ended'.class = "starshine" /\ ended'.tool = "starshine"
    BY CaseCommandsAssumption DEF RunStarshineWithRetry, CommandInv, CommandTypes, WithoutOutput, Goes, Throws,
        NoForm, CaseFiles, Paths, ClassifyCommandFailure, FormsInOrder
<1>2. FormsInOrder'
    BY <1>1 DEF FormsInOrder, FormIsOf, BinaryenFormed, StarshineFormed, FormOf, OutputSides
<1>3. CommandTypes' /\ OutputIsOfTheAttempt'
    BY <1>1, CaseCommandsAssumption DEF CommandInv, CommandTypes, OutputIsOfTheAttempt, CommandNames, BinaryenFormed
<1>4. QED BY <1>2, <1>3 DEF CommandInv

LEMMA RefusedKeepsInv ==
    ASSUME CommandInv, NEW verdict, Refused(verdict), command \in {"validate", "external"}
    PROVE  CommandInv'
<1>1. form'.round = 0 /\ command' = "failed" /\ ended'.tool = "validator" /\ encode' = encode /\ file' = file
    BY DEF Refused, Goes, CommandInv, FormsInOrder
<1>2. FormsInOrder'
    BY <1>1, ElsewhereKeepsForms DEF BinaryenFormed
<1>3. QED BY <1>1, <1>2 DEF Refused, CommandInv, CommandTypes, OutputIsOfTheAttempt, CommandNames, BinaryenFormed

LEMMA AbortKeepsInv ==
    ASSUME CommandInv, Aborts, command \in {"validate", "external"}
    PROVE  CommandInv'
<1>1. form'.round = 0 /\ command' = "aborted" /\ encode' = encode /\ file' = file /\ age' = age /\ tried' = tried
    BY DEF Aborts, Goes, CommandInv, FormsInOrder
<1>2. FormsInOrder'
    BY <1>1, ElsewhereKeepsForms DEF BinaryenFormed
<1>3. QED BY <1>1, <1>2 DEF Aborts, CommandInv, CommandTypes, OutputIsOfTheAttempt, CommandNames, BinaryenFormed

LEMMA ThrowsKeepsInv ==
    ASSUME CommandInv, NEW side, Throws("wasm-opt", side), side \in OutputSides \/ side = "binaryen", file' = file
    PROVE  CommandInv'
<1>1. /\ form' = NoForm /\ command' = "failed" /\ encode' = encode /\ file' = file /\ age' = age /\ tried' = tried
      /\ ended'.tool = "wasm-opt" /\ ended'.class = "binaryen"
    BY DEF Throws, Goes, ClassifyCommandFailure
<1>2. FormsInOrder'
    BY <1>1, ElsewhereKeepsForms DEF BinaryenFormed, NoForm
<1>3. QED BY <1>1, <1>2 DEF CommandInv, CommandTypes, OutputIsOfTheAttempt, CommandNames, BinaryenFormed, NoForm, CaseFiles

LEMMA ValidatorsKeepInv ==
    ASSUME CommandInv, RunValidate \/ RunExternalValidators
    PROVE  CommandInv'
<1>1. ASSUME NEW verdict, Refused(verdict), command \in {"validate", "external"} PROVE CommandInv'
    BY <1>1, RefusedKeepsInv
<1>2. ASSUME \/ command = "validate" /\ command' = "external"
             \/ command = "external" /\ command' = "binaryen",
             UNCHANGED <<encode, tries, tried, file, age, form, ended>>
      PROVE  CommandInv'
    <2>1. form'.round = 0
        BY <1>2 DEF CommandInv, FormsInOrder
    <2>2. FormsInOrder'
        BY <1>2, <2>1, ElsewhereKeepsForms DEF BinaryenFormed
    <2>3. QED BY <1>2, <2>2 DEF CommandInv, CommandTypes, OutputIsOfTheAttempt, CommandNames, BinaryenFormed
<1>3. ASSUME Aborts, command \in {"validate", "external"} PROVE CommandInv'
    BY <1>3, AbortKeepsInv
<1>4. CASE RunValidate
    BY <1>1, <1>2, <1>3, <1>4 DEF RunValidate, Goes
<1>5. CASE RunExternalValidators
    BY <1>1, <1>2, <1>3, <1>5 DEF RunExternalValidators, Goes
<1>6. QED BY <1>4, <1>5

LEMMA OracleKeepsInv ==
    ASSUME CommandInv, RunBinaryenOracle
    PROVE  CommandInv'
<1>1. CASE Throws("wasm-opt", "binaryen") /\ UNCHANGED file
    BY <1>1, ThrowsKeepsInv DEF OutputSides
<1>2. CASE /\ \E wasm \in Wasms : Put("binaryen_raw", wasm)
           /\ Goes("binaryen_form") /\ UNCHANGED <<encode, tries, tried, age, form, ended>>
    <2>1. PICK wasm \in Wasms : file' = [file EXCEPT !["binaryen_raw"] = wasm]
        BY <1>2 DEF Put
    <2>2. file' \in [Paths -> CaseFiles] /\ file'["binaryen_raw"] = wasm /\ file'["starshine_raw"] = file["starshine_raw"]
        BY <2>1 DEF CommandInv, CommandTypes, Paths, CaseFiles
    <2>3. command = "binaryen" /\ command' = "binaryen_form" /\ form' = form /\ form.round = 0
        BY <1>2 DEF RunBinaryenOracle, Goes, CommandInv, FormsInOrder
    <2>4. FormsInOrder'
        BY <2>3 DEF FormsInOrder, FormIsOf, BinaryenFormed, StarshineFormed
    <2>5. QED BY <1>2, <2>2, <2>3, <2>4 DEF CommandInv, CommandTypes, OutputIsOfTheAttempt, CommandNames, BinaryenFormed
<1>3. QED BY <1>1, <1>2 DEF RunBinaryenOracle

LEMMA PrintKeepsInv ==
    ASSUME CommandInv, NormalizePrintWat
    PROVE  CommandInv'
<1>1. PICK side \in OutputSides :
        /\ command = PrintOf(side) /\ UNCHANGED file
        /\ \/ /\ Goes(IF side = "binaryen" THEN "starshine_form" ELSE IF file["starshine"] = file["binaryen"] THEN "match" ELSE "mismatch")
              /\ UNCHANGED <<encode, tries, tried, age, form, ended>>
           \/ Throws("wasm-opt", side)
    BY DEF NormalizePrintWat, OutputSides
<1>2. CASE Throws("wasm-opt", side)
    BY <1>1, <1>2, ThrowsKeepsInv
<1>3. CASE /\ Goes(IF side = "binaryen" THEN "starshine_form" ELSE IF file["starshine"] = file["binaryen"] THEN "match" ELSE "mismatch")
           /\ UNCHANGED <<encode, tries, tried, age, form, ended>>
    <2>1. /\ side = "binaryen" => command = "binaryen_print" /\ command' = "starshine_form"
          /\ side # "binaryen" => command = "starshine_print" /\ command' \in {"match", "mismatch"}
                                /\ (command' = "mismatch" => file["starshine"] # file["binaryen"])
        BY <1>1, <1>3 DEF Goes, PrintOf, OutputSides
    <2>2. form'.round = 0
        BY <1>3, <2>1 DEF CommandInv, FormsInOrder
    <2>3. FormsInOrder'
        BY <1>1, <1>3, <2>1, <2>2, ElsewhereKeepsForms DEF BinaryenFormed, StarshineFormed
    <2>4. QED BY <1>1, <1>3, <2>1, <2>3 DEF CommandInv, CommandTypes, OutputIsOfTheAttempt, CommandNames, BinaryenFormed
<1>4. QED BY <1>1, <1>2, <1>3

\* What a round begins with.
LEMMA RoundBegins ==
    ASSUME CommandInv, NEW side \in OutputSides, command = FormOf(side)
    PROVE  /\ file[Raw(side)] \in Wasms
           /\ \E n \in 0..(FormRounds - 1) :
                /\ Begun(side).round = n /\ Begun(side).source = Encoded(file[Raw(side)], n)
                /\ Begun(side).first \in CaseFiles
                /\ n # 0 => Begun(side).first # Absent
<1>1. file[Raw(side)] \in Wasms
    BY DEF CommandInv, CommandTypes, OutputSides, FormOf, Raw
<1>2. form \in [round : Nat, source : CaseFiles, first : CaseFiles] /\ encode \in [Wasms -> Wasms]
    BY DEF CommandInv, CommandTypes
<1>3. FormRounds \in Nat \ {0}
    BY CaseCommandsAssumption
<1>4. CASE form.round = 0
    <2>1. Begun(side).round = 0 /\ Begun(side).source = file[Raw(side)] /\ Begun(side).first = Absent
        BY <1>4 DEF Begun, NoForm
    <2>2. Encoded(file[Raw(side)], 0) = file[Raw(side)]
        BY <1>1, <1>2, EncodedOnce
    <2>3. QED BY <1>1, <1>3, <2>1, <2>2 DEF CaseFiles
<1>5. CASE form.round # 0
    <2>1. FormIsOf(side)
        BY DEF CommandInv, FormsInOrder
    <2>2. PICK n \in 1..(FormRounds - 1) :
            form.round = n /\ form.source = Encoded(file[Raw(side)], n) /\ form.first # Absent
        BY <1>5, <2>1 DEF FormIsOf
    <2>3. Begun(side) = form /\ n \in 0..(FormRounds - 1)
        BY <1>3, <1>5 DEF Begun
    <2>4. QED BY <1>1, <1>2, <2>2, <2>3
<1>6. QED BY <1>4, <1>5

LEMMA RoundKeepsInv ==
    ASSUME CommandInv, NEW side \in OutputSides, command = FormOf(side), FormRound(side)
    PROVE  CommandInv'
<1> DEFINE raw == file[Raw(side)]
<1>1. PICK n \in 0..(FormRounds - 1) :
        /\ Begun(side).round = n /\ Begun(side).source = Encoded(raw, n) /\ Begun(side).first \in CaseFiles
        /\ n # 0 => Begun(side).first # Absent
    BY RoundBegins
<1>2. raw \in Wasms /\ encode \in [Wasms -> Wasms] /\ FormRounds \in Nat \ {0} /\ n \in Nat
    BY RoundBegins, CaseCommandsAssumption DEF CommandInv, CommandTypes
<1>3. /\ encode[Encoded(raw, n)] = Encoded(raw, n + 1) /\ Encoded(raw, n + 1) \in Wasms /\ Encoded(raw, n) \in Wasms
      /\ n + 1 \in Nat
    BY <1>2, EncodedOnce
<1> DEFINE following == Encoded(raw, n + 1)
           settled == Encoded(raw, n + 1) = Encoded(raw, n)
           first == IF Begun(side).first = Absent THEN following ELSE Begun(side).first
           last == n + 1 = FormRounds
           content == IF settled THEN following ELSE IF last THEN first ELSE following
<1>4. /\ file' = [file EXCEPT ![side] = content]
      /\ form' = IF settled \/ last THEN NoForm ELSE [round |-> n + 1, source |-> following, first |-> first]
      /\ command' = IF settled \/ last THEN PrintOf(side) ELSE command
      /\ UNCHANGED <<encode, tries, tried, age, ended>>
    <2>1. (Settled(side, encode[Begun(side).source]) <=> settled) /\ encode[Begun(side).source] = following
        BY <1>1, <1>3 DEF Settled
    <2>2. (Begun(side).round + 1 = FormRounds) <=> last
        BY <1>1
    <2> DEFINE e == encode[Begun(side).source]
               b == Begun(side)
               l == b.round + 1 = FormRounds
               f == IF b.first = Absent THEN e ELSE b.first
    <2>3. /\ file' = [file EXCEPT ![side] = IF Settled(side, e) THEN e ELSE IF l THEN f ELSE e]
          /\ form' = IF Settled(side, e) \/ l THEN NoForm ELSE [round |-> b.round + 1, source |-> e, first |-> f]
          /\ command' = IF Settled(side, e) \/ l THEN PrintOf(side) ELSE command
          /\ UNCHANGED <<encode, tries, tried, age, ended>>
        BY DEF FormRound, Put, Goes
    <2>4. e = following /\ (l <=> last) /\ b.round + 1 = n + 1
        BY <1>1, <2>1, <2>2
    <2>5. f = first
        BY <2>4
    <2> HIDE DEF following, settled, last, e, l, f
    <2>6. QED BY <2>1, <2>3, <2>4, <2>5
<1>5. first \in Wasms /\ first # Absent /\ content \in Wasms
    BY <1>1, <1>2, <1>3, CaseCommandsAssumption DEF CaseFiles
<1>6. /\ \A p \in {"starshine_raw", "binaryen_raw"} : file'[p] = file[p]
      /\ \A p \in OutputSides \ {side} : file'[p] = file[p]
      /\ file'[side] = content /\ file' \in [Paths -> CaseFiles]
    <2>1. file \in [Paths -> CaseFiles] /\ side \in Paths /\ OutputSides \subseteq Paths /\ side \notin {"starshine_raw", "binaryen_raw"}
        BY DEF CommandInv, CommandTypes, Paths, OutputSides
    <2>2. {"starshine_raw", "binaryen_raw"} \subseteq Paths
        BY DEF Paths
    <2> HIDE DEF content
    <2>3. QED BY <1>4, <1>5, <2>1, <2>2 DEF CaseFiles
<1>7. \A each \in OutputSides, k \in Nat : Encoded(file[Raw(each)], k)' = Encoded(file[Raw(each)], k)
    <2>1. \A each \in OutputSides : file'[Raw(each)] = file[Raw(each)]
        BY <1>6 DEF OutputSides, Raw
    <2>2. QED BY <1>4, <2>1, EncodedKeeps
<1>8. CASE settled \/ last
    <2>1. Formed(side)'
        <3>1. /\ Encoded(file[Raw(side)], FormRounds)' = Encoded(raw, FormRounds)
              /\ Encoded(file[Raw(side)], FormRounds - 1)' = Encoded(raw, FormRounds - 1)
            BY <1>2, <1>7
        <3>2. CASE settled
            <4>1. FormRounds - n \in Nat /\ n + (FormRounds - n) = FormRounds
                BY <1>2
            <4>2. Encoded(raw, FormRounds) = Encoded(raw, n)
                BY <1>2, <3>2, <4>1, SettledStays
            <4>3. QED BY <1>6, <3>1, <3>2, <4>2 DEF Formed
        <3>3. CASE ~settled /\ last
            <4>1. FormRounds - 1 = n
                BY <1>2, <3>3
            <4>2. QED BY <3>1, <3>3, <4>1 DEF Formed
        <3>4. QED BY <1>8, <3>2, <3>3
    <2>2. side = "starshine" => Formed("binaryen")'
        <3>1. ASSUME side = "starshine" PROVE Formed("binaryen")'
            <4>1. Formed("binaryen") /\ file'["binaryen"] = file["binaryen"] /\ "binaryen" \in OutputSides
                BY <1>6, <3>1 DEF CommandInv, FormsInOrder, FormOf, BinaryenFormed, OutputSides
            <4>2. /\ Encoded(file[Raw("binaryen")], FormRounds)' = Encoded(file[Raw("binaryen")], FormRounds)
                  /\ Encoded(file[Raw("binaryen")], FormRounds - 1)' = Encoded(file[Raw("binaryen")], FormRounds - 1)
                <5>1. FormRounds \in Nat /\ FormRounds - 1 \in Nat /\ "binaryen" \in OutputSides
                    BY <1>2, <4>1
                <5>2. QED BY <1>7, <5>1, Zenon
            <4>3. QED BY <4>1, <4>2 DEF Formed
        <3>2. QED BY <3>1
    <2>3. form' = NoForm /\ command' = PrintOf(side)
        BY <1>4, <1>8
    <2>4. FormsInOrder'
        BY <2>1, <2>2, <2>3 DEF FormsInOrder, FormIsOf, NoForm, PrintOf, FormOf, OutputSides, BinaryenFormed, StarshineFormed
    <2>5. CommandTypes' /\ OutputIsOfTheAttempt'
        BY <1>4, <1>6, <2>3 DEF CommandInv, CommandTypes, OutputIsOfTheAttempt, CommandNames, BinaryenFormed, NoForm,
            CaseFiles, PrintOf, FormOf, OutputSides
    <2>6. QED BY <2>4, <2>5 DEF CommandInv
<1>9. CASE ~(settled \/ last)
    <2>1. form' = [round |-> n + 1, source |-> following, first |-> first] /\ command' = command
        BY <1>4, <1>9
    <2>2. n + 1 \in 1..(FormRounds - 1)
        BY <1>2, <1>9
    <2>3. Encoded(file[Raw(side)], n + 1)' = following
        BY <1>3, <1>7
    <2>4. FormIsOf(side)'
        <3>1. form'.round = n + 1 /\ form'.source = following /\ form'.first # Absent
            BY <1>5, <2>1
        <3> DEFINE m == n + 1
        <3>2. m \in 1..(FormRounds - 1) /\ form'.round = m /\ form'.source = Encoded(file[Raw(side)], m)'
            BY <2>2, <2>3, <3>1
        <3> HIDE DEF m
        <3>3. QED BY <3>1, <3>2 DEF FormIsOf
    <2>5. side = "starshine" => Formed("binaryen")'
        <3>1. ASSUME side = "starshine" PROVE Formed("binaryen")'
            <4>1. Formed("binaryen") /\ file'["binaryen"] = file["binaryen"] /\ "binaryen" \in OutputSides
                BY <1>6, <3>1 DEF CommandInv, FormsInOrder, FormOf, BinaryenFormed, OutputSides
            <4>2. /\ Encoded(file[Raw("binaryen")], FormRounds)' = Encoded(file[Raw("binaryen")], FormRounds)
                  /\ Encoded(file[Raw("binaryen")], FormRounds - 1)' = Encoded(file[Raw("binaryen")], FormRounds - 1)
                <5>1. FormRounds \in Nat /\ FormRounds - 1 \in Nat /\ "binaryen" \in OutputSides
                    BY <1>2, <4>1
                <5>2. QED BY <1>7, <5>1, Zenon
            <4>3. QED BY <4>1, <4>2 DEF Formed
        <3>2. QED BY <3>1
    <2>6. FormsInOrder'
        BY <2>1, <2>4, <2>5 DEF FormsInOrder, FormOf, OutputSides, BinaryenFormed, StarshineFormed
    <2>7. form' \in [round : Nat, source : CaseFiles, first : CaseFiles]
        BY <1>3, <1>5, <2>1 DEF CaseFiles
    <2>8. CommandTypes' /\ OutputIsOfTheAttempt'
        BY <1>4, <1>6, <2>1, <2>7 DEF CommandInv, CommandTypes, OutputIsOfTheAttempt, CommandNames, BinaryenFormed,
            FormOf, OutputSides
    <2>9. QED BY <2>6, <2>8 DEF CommandInv
<1>10. QED BY <1>8, <1>9

LEMMA CommandKeeps == CommandInv /\ [CommandNext]_commandVars => CommandInv'
<1> SUFFICES ASSUME CommandInv, [CommandNext]_commandVars PROVE CommandInv'
    OBVIOUS
<1>1. CASE UNCHANGED commandVars
    <2>1. UNCHANGED <<encode, tries, command, tried, file, age, form, ended>>
        BY <1>1 DEF commandVars
    <2>2. \A side \in OutputSides, n \in Nat : Encoded(file[Raw(side)], n)' = Encoded(file[Raw(side)], n)
        BY <2>1, EncodedKeeps
    <2>3. FormRounds \in Nat \ {0}
        BY CaseCommandsAssumption
    <2>4. \A side \in OutputSides : FormIsOf(side) => FormIsOf(side)'
        <3> SUFFICES ASSUME NEW side \in OutputSides, FormIsOf(side), form.round # 0 PROVE FormIsOf(side)'
            BY <2>1 DEF FormIsOf
        <3>1. PICK n \in 1..(FormRounds - 1) :
                form.round = n /\ form.source = Encoded(file[Raw(side)], n) /\ form.first # Absent
            BY DEF FormIsOf
        <3>2. Encoded(file[Raw(side)], n)' = Encoded(file[Raw(side)], n)
            BY <2>2, <2>3
        <3>3. QED BY <2>1, <3>1, <3>2 DEF FormIsOf
    <2>5. \A side \in OutputSides : Formed(side) => Formed(side)'
        <3> SUFFICES ASSUME NEW side \in OutputSides, Formed(side) PROVE Formed(side)'
            OBVIOUS
        <3>1. /\ Encoded(file[Raw(side)], FormRounds)' = Encoded(file[Raw(side)], FormRounds)
              /\ Encoded(file[Raw(side)], FormRounds - 1)' = Encoded(file[Raw(side)], FormRounds - 1)
            BY <2>2, <2>3
        <3>2. QED BY <2>1, <3>1 DEF Formed
    <2>6. FormsInOrder'
        BY <2>1, <2>4, <2>5 DEF CommandInv, FormsInOrder, OutputSides
    <2>7. QED BY <2>1, <2>6 DEF CommandInv, CommandTypes, OutputIsOfTheAttempt
<1>2. CASE RunStarshineWithRetry \/ RunValidate \/ RunExternalValidators \/ RunBinaryenOracle \/ NormalizePrintWat
    BY <1>2, RetryKeepsInv, ValidatorsKeepInv, OracleKeepsInv, PrintKeepsInv
<1>3. CASE CanonicalizeWasm
    <2>1. PICK side \in OutputSides : command = FormOf(side) /\ (FormRound(side) \/ (Throws("wasm-opt", side) /\ UNCHANGED file))
        BY <1>3 DEF CanonicalizeWasm, OutputSides
    <2>2. QED BY <2>1, RoundKeepsInv, ThrowsKeepsInv
<1>4. QED BY <1>1, <1>2, <1>3 DEF CommandNext

\* Of two settled outputs that differ, neither is an encoding of the other.
LEMMA MismatchIsReal ==
    ASSUME CommandInv
    PROVE  EncodingsAreNoMismatch
<1> DEFINE s == file["starshine_raw"]
           b == file["binaryen_raw"]
           R == FormRounds
<1> SUFFICES ASSUME command = "mismatch", SettlesAt(s), SettlesAt(b), NEW n \in 0..R
             PROVE  Encoded(s, n) # b /\ Encoded(b, n) # s
    BY DEF EncodingsAreNoMismatch
<1>1. R \in Nat \ {0} /\ R - 1 \in Nat /\ (R - 1) + 1 = R /\ n \in Nat
    BY CaseCommandsAssumption
<1>2. s \in Wasms /\ b \in Wasms /\ encode \in [Wasms -> Wasms]
    BY DEF CommandInv, CommandTypes, BinaryenFormed
<1>3. file["starshine"] = Encoded(s, R) /\ file["binaryen"] = Encoded(b, R) /\ file["starshine"] # file["binaryen"]
    BY DEF CommandInv, FormsInOrder, BinaryenFormed, StarshineFormed, Formed, SettlesAt, Raw
<1>4. ASSUME NEW w \in {s, b}
      PROVE  Encoded(Encoded(w, n), R) = Encoded(w, R)
    <2> DEFINE m == R - 1
    <2>1. w \in Wasms /\ SettlesAt(w) /\ m \in Nat /\ m + 1 = R
        BY <1>1, <1>2, <1>4
    <2>2. n + 1 \in Nat /\ m + (n + 1) = n + R
        BY <1>1
    <2>3. Encoded(w, m + 1) = Encoded(w, m)
        BY <2>1 DEF SettlesAt
    <2> HIDE DEF m
    <2>4. Encoded(w, m + (n + 1)) = Encoded(w, m)
        BY <1>2, <2>1, <2>2, <2>3, SettledStays
    <2>5. Encoded(Encoded(w, n), R) = Encoded(w, n + R)
        BY <1>1, <1>2, <2>1, EncodedTwice
    <2>6. QED BY <2>1, <2>2, <2>3, <2>4, <2>5
<1>5. QED BY <1>3, <1>4

\* The output of a tool is that of the attempt that succeeded, and of two outputs
\* that are said to differ neither is an encoding of the other, whatever encoding
\* does and however many rounds it is given (runCase, canonicalizeWasm).
THEOREM CommandsKeepCases == CommandSpec => []CommandsKeepTheCase
<1>1. CommandInv => CommandsKeepTheCase
    BY MismatchIsReal DEF CommandInv, CommandsKeepTheCase
<1>2. QED BY <1>1, CommandStarts, CommandKeeps, PTL DEF CommandSpec
-----------------------------------------------------------------------------
(* The regression corpus *)

Checked == {"scan", "make"} \cup Writing
Filed == {"list", "index", "promoted"}
FoundAgain == {"list_duplicate", "index_duplicate", "duplicate"}
PromotionSteps == {"idle", "verify", "refused"} \cup Checked \cup Filed \cup FoundAgain

Unread == {NoFile, Torn}
ManifestContents == Unread \cup {Manifest(b, seen) : b \in Promotable, seen \in Shown}
FileContents == Unread \cup {b.input : b \in Promotable}
CaseDirectories == [makers : Nat, abandoned : BOOLEAN, file : FileContents, manifest : ManifestContents]

\* What was seen is a failure, and the persisted one where there is one.
ShownFor(b, seen) == seen # NoPrint /\ (b.class = SemanticV2 => b.print \in {NoPrint, seen})

WholeFor(m, id) ==
    \E b \in Promotable, seen \in Shown : id = Id(b) /\ m = Manifest(b, seen) /\ ShownFor(b, seen)

\* A case directory: a manifest that can be read is a whole one, and beside it is
\* its input, where the directory was made once.
CaseHolds(c, id) ==
    /\ c.makers = 0 => c.manifest = NoFile
    /\ c.manifest \in Unread \/ WholeFor(c.manifest, id)
    /\ c.makers = 1 /\ c.manifest \notin Unread => c.file = id.input

\* A promotion at a step, of a bundle, that saw something, and its case directory.
StepHolds(step, b, seen, c) ==
    /\ step \in Checked => ShownFor(b, seen)
    /\ step \in Writing \cup Filed \cup FoundAgain => c.makers # 0
    /\ c.makers = 1 =>
        /\ step \in Writing => c.manifest \in Unread
        /\ step \in {"describe", "described"} => c.file = b.input
        /\ step \in Filed \cup FoundAgain =>
            c.manifest \notin Unread /\ c.manifest.input = b.input /\ c.manifest.predicate = Predicate(b)

\* What is listed was made, and can be read if it was made once.
ListHolds(ids, cases) == \A id \in ids : cases[id].makers # 0 /\ (cases[id].makers = 1 => cases[id].manifest \notin Unread)

CorpusTypes ==
    /\ corpus \in [Ids -> CaseDirectories] /\ index \in SUBSET Ids
    /\ promoting \in [Promoters -> PromotionSteps] /\ of \in [Promoters -> Promotable \cup {Unused}]
    /\ saw \in [Promoters -> Shown] /\ listed \in [Promoters -> SUBSET Ids]
    /\ \A w \in Promoters : promoting[w] # "idle" => of[w] \in Promotable

\* Of a directory made once there is one writer.
OneWriter ==
    \A w, v \in Promoters :
        w # v /\ promoting[w] \in Writing /\ promoting[v] \in Writing /\ Id(of[w]) = Id(of[v]) =>
            corpus[Id(of[w])].makers # 1

CorpusInv ==
    /\ CorpusTypes
    /\ \A id \in Ids : CaseHolds(corpus[id], id)
    /\ \A w \in Promoters :
        promoting[w] # "idle" => StepHolds(promoting[w], of[w], saw[w], corpus[Id(of[w])])
    /\ OneWriter
    /\ ListHolds(index, corpus) /\ \A w \in Promoters : ListHolds(listed[w], corpus)

LEMMA CorpusStarts == CorpusInit => CorpusInv
<1> SUFFICES ASSUME CorpusInit PROVE CorpusInv
    OBVIOUS
<1>1. CorpusTypes
    BY DEF CorpusInit, CorpusTypes, CaseDirectories, FileContents, ManifestContents, Unread, PromotionSteps, Shown
<1>2. \A id \in Ids : CaseHolds(corpus[id], id)
    BY DEF CorpusInit, CaseHolds, Unread
<1>3. OneWriter
    BY DEF CorpusInit, OneWriter, Writing
<1>4. QED BY <1>1, <1>2, <1>3 DEF CorpusInit, CorpusInv, ListHolds

LEMMA PromotersCaseIs ==
    ASSUME CorpusInv, NEW w \in Promoters, promoting[w] # "idle"
    PROVE  /\ of[w] \in Promotable /\ Id(of[w]) \in Ids /\ corpus[Id(of[w])] \in CaseDirectories
           /\ CaseHolds(corpus[Id(of[w])], Id(of[w]))
           /\ StepHolds(promoting[w], of[w], saw[w], corpus[Id(of[w])])
    BY DEF CorpusInv, CorpusTypes, Ids

\* A promotion goes on without touching the corpus.
LEMMA MoveKeeps ==
    ASSUME CorpusInv, NEW w \in Promoters, NEW step \in PromotionSteps, promoting' = [promoting EXCEPT ![w] = step],
           UNCHANGED <<corpus, of>>, NEW seen \in Shown, saw' = [saw EXCEPT ![w] = seen],
           step \notin Writing, step # "idle", of[w] \in Promotable,
           StepHolds(step, of[w], seen, corpus[Id(of[w])]),
           index' \in SUBSET Ids, ListHolds(index', corpus),
           listed' \in [Promoters -> SUBSET Ids], \A v \in Promoters : ListHolds(listed'[v], corpus)
    PROVE  CorpusInv'
<1>1. /\ promoting \in [Promoters -> PromotionSteps] /\ saw \in [Promoters -> Shown]
      /\ promoting'[w] = step /\ saw'[w] = seen
      /\ \A v \in Promoters \ {w} : promoting'[v] = promoting[v] /\ saw'[v] = saw[v]
      /\ promoting' \in [Promoters -> PromotionSteps] /\ saw' \in [Promoters -> Shown]
    BY DEF CorpusInv, CorpusTypes
<1>2. CorpusTypes'
    BY <1>1 DEF CorpusInv, CorpusTypes
<1>3. \A v \in Promoters : promoting'[v] # "idle" => StepHolds(promoting'[v], of'[v], saw'[v], corpus'[Id(of'[v])])
    <2> SUFFICES ASSUME NEW v \in Promoters, promoting'[v] # "idle"
                 PROVE  StepHolds(promoting'[v], of'[v], saw'[v], corpus'[Id(of'[v])])
        OBVIOUS
    <2>1. CASE v = w
        BY <1>1, <2>1
    <2>2. CASE v # w
        BY <1>1, <2>2 DEF CorpusInv
    <2>3. QED BY <2>1, <2>2
<1>4. OneWriter'
    <2> SUFFICES ASSUME NEW u \in Promoters, NEW v \in Promoters, u # v, promoting'[u] \in Writing,
                        promoting'[v] \in Writing, Id(of[u]) = Id(of[v])
                 PROVE  corpus[Id(of[u])].makers # 1
        BY DEF OneWriter
    <2>1. u # w /\ v # w
        BY <1>1
    <2>2. QED BY <1>1, <2>1 DEF CorpusInv, OneWriter
<1>5. QED BY <1>2, <1>3, <1>4 DEF CorpusInv

\* A promotion writes a file of its case.
LEMMA WriteKeeps ==
    ASSUME CorpusInv, NEW w \in Promoters, NEW case \in CaseDirectories, NEW step \in Writing \cup {"list"},
           NEW before, WritesCase(w, before, case, step), before \in Writing,
           case.makers = corpus[Id(of[w])].makers, CaseHolds(case, Id(of[w])),
           StepHolds(step, of[w], saw[w], case)
    PROVE  CorpusInv'
<1> DEFINE id == Id(of[w])
<1>1. /\ promoting[w] = before /\ corpus' = [corpus EXCEPT ![id] = case]
      /\ promoting' = [promoting EXCEPT ![w] = step] /\ UNCHANGED <<index, of, saw, listed>>
    BY DEF WritesCase
<1>2. before # "idle" /\ step # "idle" /\ step \in PromotionSteps
    BY DEF Writing, PromotionSteps, Checked, Filed
<1>3. of[w] \in Promotable /\ id \in Ids /\ corpus[id] \in CaseDirectories /\ StepHolds(before, of[w], saw[w], corpus[id])
    BY <1>1, <1>2, PromotersCaseIs
<1>4. /\ corpus \in [Ids -> CaseDirectories] /\ promoting \in [Promoters -> PromotionSteps]
      /\ index \in SUBSET Ids /\ listed \in [Promoters -> SUBSET Ids]
    BY DEF CorpusInv, CorpusTypes
<1>5. corpus[id].makers = 1 => corpus[id].manifest \in Unread
    BY <1>3 DEF StepHolds
<1> HIDE DEF id
<1>6. /\ corpus' \in [Ids -> CaseDirectories] /\ corpus'[id] = case /\ \A i \in Ids \ {id} : corpus'[i] = corpus[i]
      /\ promoting' \in [Promoters -> PromotionSteps] /\ promoting'[w] = step
      /\ \A v \in Promoters \ {w} : promoting'[v] = promoting[v]
    BY <1>1, <1>2, <1>3, <1>4
<1>7. CorpusTypes'
    BY <1>1, <1>3, <1>6 DEF CorpusInv, CorpusTypes
<1>8. \A i \in Ids : CaseHolds(corpus'[i], i)
    BY <1>6 DEF CorpusInv, id
<1>9. ASSUME NEW v \in Promoters, promoting'[v] # "idle"
      PROVE  StepHolds(promoting'[v], of'[v], saw'[v], corpus'[Id(of'[v])])
    <2>1. CASE v = w
        BY <1>1, <1>6, <2>1 DEF id
    <2>2. CASE v # w
        <3>1. promoting[v] # "idle" /\ promoting'[v] = promoting[v] /\ of'[v] = of[v] /\ saw'[v] = saw[v]
            BY <1>1, <1>6, <1>9, <2>2
        <3>2. StepHolds(promoting[v], of[v], saw[v], corpus[Id(of[v])]) /\ Id(of[v]) \in Ids
            BY <3>1, PromotersCaseIs
        <3>3. CASE Id(of[v]) # id
            BY <1>6, <3>1, <3>2, <3>3
        <3>4. CASE Id(of[v]) = id
            <4>1. case.makers = 1 => promoting[v] \notin Writing
                BY <1>1, <2>2, <3>4 DEF CorpusInv, OneWriter, id
            <4>2. case.makers = 1 => promoting[v] \notin Filed \cup FoundAgain
                BY <1>5, <3>2, <3>4 DEF StepHolds, id
            <4>3. {"describe", "described"} \subseteq Writing
                BY DEF Writing
            <4>4. case.makers = corpus[Id(of[v])].makers /\ corpus'[Id(of[v])] = case
                BY <1>6, <3>4 DEF id
            <4>5. StepHolds(promoting[v], of[v], saw[v], case)
                BY <3>2, <4>1, <4>2, <4>3, <4>4 DEF StepHolds
            <4>6. QED BY <3>1, <4>4, <4>5
        <3>5. QED BY <3>3, <3>4
    <2>3. QED BY <2>1, <2>2
<1>10. \A i \in Ids : corpus'[i].makers = corpus[i].makers
    BY <1>6 DEF id
<1>11. OneWriter'
    <2> SUFFICES ASSUME NEW u \in Promoters, NEW v \in Promoters, u # v, promoting'[u] \in Writing,
                        promoting'[v] \in Writing, Id(of'[u]) = Id(of'[v])
                 PROVE  corpus'[Id(of'[u])].makers # 1
        BY DEF OneWriter
    <2>1. promoting[u] \in Writing /\ promoting[v] \in Writing
        BY <1>1, <1>6
    <2>2. promoting[u] # "idle"
        BY <2>1 DEF Writing
    <2>3. Id(of[u]) \in Ids
        BY <2>2, PromotersCaseIs
    <2>4. QED BY <1>1, <1>10, <2>1, <2>3 DEF CorpusInv, OneWriter
<1>12. ASSUME NEW ids \in SUBSET Ids, ListHolds(ids, corpus) PROVE ListHolds(ids, corpus')
    <2> SUFFICES ASSUME NEW i \in ids
                 PROVE  corpus'[i].makers # 0 /\ (corpus'[i].makers = 1 => corpus'[i].manifest \notin Unread)
        BY DEF ListHolds
    <2>1. corpus[i].makers # 0 /\ (corpus[i].makers = 1 => corpus[i].manifest \notin Unread)
        BY <1>12 DEF ListHolds
    <2>2. CASE i = id
        BY <1>5, <1>6, <1>10, <2>1, <2>2
    <2>3. CASE i # id
        BY <1>6, <2>1, <2>3
    <2>4. QED BY <2>2, <2>3
<1>13. ListHolds(index', corpus') /\ \A v \in Promoters : ListHolds(listed'[v], corpus')
    BY <1>1, <1>4, <1>12 DEF CorpusInv
<1>14. QED BY <1>7, <1>8, <1>9, <1>11, <1>13 DEF CorpusInv

\* Two case directories that differ at most in whether a promotion died in them.
HoldTheSame(c, d) == d.makers = c.makers /\ d.file = c.file /\ d.manifest = c.manifest

LEMMA SameHolds ==
    ASSUME NEW c, NEW d, HoldTheSame(c, d)
    PROVE  /\ \A id : CaseHolds(c, id) => CaseHolds(d, id)
           /\ \A step, b, seen : StepHolds(step, b, seen, c) => StepHolds(step, b, seen, d)
    BY DEF HoldTheSame, CaseHolds, StepHolds

\* A promotion begins, or is given up.
LEMMA ResetKeeps ==
    ASSUME CorpusInv, NEW w \in Promoters, NEW step \in {"idle", "verify"}, promoting' = [promoting EXCEPT ![w] = step],
           NEW b \in Promotable \cup {Unused}, step = "verify" => b \in Promotable, of' = [of EXCEPT ![w] = b],
           saw' = [saw EXCEPT ![w] = NoPrint], UNCHANGED index,
           listed' = listed \/ listed' = [listed EXCEPT ![w] = {}],
           corpus' \in [Ids -> CaseDirectories], \A id \in Ids : HoldTheSame(corpus[id], corpus'[id])
    PROVE  CorpusInv'
<1>1. /\ promoting \in [Promoters -> PromotionSteps] /\ saw \in [Promoters -> Shown]
      /\ of \in [Promoters -> Promotable \cup {Unused}] /\ listed \in [Promoters -> SUBSET Ids]
      /\ NoPrint \in Shown /\ step \in PromotionSteps
    BY DEF CorpusInv, CorpusTypes, Shown, PromotionSteps
<1>2. /\ promoting'[w] = step /\ of'[w] = b
      /\ \A v \in Promoters \ {w} : promoting'[v] = promoting[v] /\ saw'[v] = saw[v] /\ of'[v] = of[v]
      /\ promoting' \in [Promoters -> PromotionSteps] /\ saw' \in [Promoters -> Shown]
      /\ of' \in [Promoters -> Promotable \cup {Unused}]
    BY <1>1
<1>3. listed' \in [Promoters -> SUBSET Ids] /\ \A v \in Promoters : listed'[v] \in {listed[v], {}}
    BY <1>1
<1>4. CorpusTypes'
    BY <1>1, <1>2, <1>3 DEF CorpusInv, CorpusTypes
<1>5. ASSUME NEW v \in Promoters, promoting'[v] # "idle"
      PROVE  StepHolds(promoting'[v], of'[v], saw'[v], corpus'[Id(of'[v])])
    <2>1. CASE v = w
        <3>1. promoting'[v] = "verify"
            BY <1>2, <1>5, <2>1
        <3>2. QED BY <3>1 DEF StepHolds, Checked, Writing, Filed, FoundAgain
    <2>2. CASE v # w
        <3>1. promoting[v] # "idle" /\ promoting'[v] = promoting[v] /\ of'[v] = of[v] /\ saw'[v] = saw[v]
            BY <1>2, <1>5, <2>2
        <3>2. StepHolds(promoting[v], of[v], saw[v], corpus[Id(of[v])]) /\ Id(of[v]) \in Ids
            BY <3>1, PromotersCaseIs
        <3>3. StepHolds(promoting[v], of[v], saw[v], corpus'[Id(of[v])])
            BY <3>2, SameHolds
        <3>4. QED BY <3>1, <3>3
    <2>3. QED BY <2>1, <2>2
<1>6. OneWriter'
    <2> SUFFICES ASSUME NEW u \in Promoters, NEW v \in Promoters, u # v, promoting'[u] \in Writing,
                        promoting'[v] \in Writing, Id(of'[u]) = Id(of'[v])
                 PROVE  corpus'[Id(of'[u])].makers # 1
        BY DEF OneWriter
    <2>1. u # w /\ v # w
        BY <1>2 DEF Writing
    <2>2. promoting[u] \in Writing /\ promoting[u] # "idle" /\ of'[u] = of[u]
        BY <1>2, <2>1 DEF Writing
    <2>3. Id(of[u]) \in Ids
        BY <2>2, PromotersCaseIs
    <2>4. corpus'[Id(of[u])].makers = corpus[Id(of[u])].makers
        BY <2>3 DEF HoldTheSame
    <2>5. QED BY <1>2, <2>1, <2>2, <2>4 DEF CorpusInv, OneWriter
<1>7. ListHolds({}, corpus')
    BY DEF ListHolds
<1>8. ASSUME NEW ids \in SUBSET Ids, ListHolds(ids, corpus) PROVE ListHolds(ids, corpus')
    BY <1>8 DEF ListHolds, HoldTheSame
<1>9. \A v \in Promoters : ListHolds(listed'[v], corpus')
    BY <1>1, <1>3, <1>7, <1>8 DEF CorpusInv
<1>10. ListHolds(index', corpus')
    BY <1>8 DEF CorpusInv, CorpusTypes
<1>11. \A id \in Ids : CaseHolds(corpus'[id], id)
    BY SameHolds DEF CorpusInv
<1>12. QED BY <1>4, <1>5, <1>6, <1>9, <1>10, <1>11 DEF CorpusInv

LEMMA VerifyKeeps ==
    ASSUME CorpusInv, NEW w \in Promoters, VerifyFailure(w)
    PROVE  CorpusInv'
<1>1. PICK ran \in BOOLEAN, seen \in Shown :
        LET reproduced == JudgeReplay(BundleSpec(of[w]), ran, seen, "exact") IN
        /\ ran \/ seen # NoPrint
        /\ saw' = [saw EXCEPT ![w] = IF reproduced THEN seen ELSE NoPrint]
        /\ promoting' = [promoting EXCEPT ![w] = IF reproduced THEN "scan" ELSE "refused"]
    BY DEF VerifyFailure
<1>2. promoting[w] = "verify" /\ UNCHANGED <<corpus, index, of, listed, overlapped, variants>>
    BY DEF VerifyFailure
<1>3. of[w] \in Promotable
    BY <1>2, PromotersCaseIs
<1>4. index \in SUBSET Ids /\ listed \in [Promoters -> SUBSET Ids] /\ NoPrint \in Shown
      /\ ListHolds(index, corpus) /\ \A v \in Promoters : ListHolds(listed[v], corpus)
    BY DEF CorpusInv, CorpusTypes, Shown
<1>5. CASE JudgeReplay(BundleSpec(of[w]), ran, seen, "exact")
    <2>1. saw' = [saw EXCEPT ![w] = seen] /\ promoting' = [promoting EXCEPT ![w] = "scan"]
        BY <1>1, <1>5
    <2>2. ShownFor(of[w], seen)
        BY <1>1, <1>5 DEF ShownFor, JudgeReplay, Reproduced, BundleSpec, SemanticV2
    <2>3. StepHolds("scan", of[w], seen, corpus[Id(of[w])]) /\ "scan" \in PromotionSteps /\ "scan" \notin Writing
        BY <2>2 DEF StepHolds, Writing, Filed, FoundAgain, PromotionSteps, Checked
    <2>4. QED BY <1>2, <1>3, <1>4, <2>1, <2>3, MoveKeeps
<1>6. CASE ~JudgeReplay(BundleSpec(of[w]), ran, seen, "exact")
    <2>1. saw' = [saw EXCEPT ![w] = NoPrint] /\ promoting' = [promoting EXCEPT ![w] = "refused"]
        BY <1>1, <1>6
    <2>2. StepHolds("refused", of[w], NoPrint, corpus[Id(of[w])]) /\ "refused" \in PromotionSteps /\ "refused" \notin Writing
        BY DEF StepHolds, Writing, Filed, FoundAgain, PromotionSteps, Checked
    <2>3. QED BY <1>2, <1>3, <1>4, <2>1, <2>2, MoveKeeps
<1>7. QED BY <1>5, <1>6

\* A case that is found is the one the bundle is filed under.
LEMMA KnownIsOwn ==
    ASSUME CorpusInv, NEW b \in Promotable, NEW id \in Known(b)
    PROVE  id = Id(b)
<1>1. id \in Ids /\ corpus[id].manifest \notin Unread /\ corpus[id].manifest.input = b.input
      /\ corpus[id].manifest.predicate = Predicate(b)
    BY DEF Known, Legible, Unread
<1>2. PICK other \in Promotable, seen \in Shown : id = Id(other) /\ corpus[id].manifest = Manifest(other, seen)
    BY <1>1 DEF CorpusInv, CaseHolds, WholeFor
<1>3. other.input = b.input /\ Predicate(other) = Predicate(b)
    BY <1>1, <1>2 DEF Manifest
<1>4. other.class = b.class
    BY <1>3 DEF Predicate
<1>5. QED BY <1>2, <1>3, <1>4 DEF Id

LEMMA ScanKeeps ==
    ASSUME CorpusInv, NEW w \in Promoters, Scan(w)
    PROVE  CorpusInv'
<1> DEFINE step == IF Known(of[w]) # {} THEN "list_duplicate"
                   ELSE IF corpus[Id(of[w])].makers # 0 THEN "refused" ELSE "make"
           c == corpus[Id(of[w])]
<1>1. promoting[w] = "scan" /\ promoting' = [promoting EXCEPT ![w] = step]
      /\ UNCHANGED <<corpus, index, of, saw, listed, overlapped, variants>>
    BY DEF Scan
<1>2. of[w] \in Promotable /\ CaseHolds(c, Id(of[w])) /\ StepHolds("scan", of[w], saw[w], c)
    BY <1>1, PromotersCaseIs
<1>3. /\ index \in SUBSET Ids /\ listed \in [Promoters -> SUBSET Ids] /\ saw[w] \in Shown /\ saw' = [saw EXCEPT ![w] = saw[w]]
      /\ ListHolds(index, corpus) /\ \A v \in Promoters : ListHolds(listed[v], corpus)
    BY <1>1 DEF CorpusInv, CorpusTypes
<1>4. StepHolds(step, of[w], saw[w], c)
    <2>1. CASE Known(of[w]) # {}
        <3>1. Id(of[w]) \in Known(of[w])
            BY <1>2, <2>1, KnownIsOwn
        <3>2. c.manifest \notin Unread /\ c.manifest.input = of[w].input /\ c.manifest.predicate = Predicate(of[w])
            BY <3>1 DEF Known, Legible, Unread
        <3>3. c.makers # 0
            BY <1>2, <3>2 DEF CaseHolds, Unread
        <3> HIDE DEF c
        <3>4. StepHolds("list_duplicate", of[w], saw[w], c)
            BY <3>2, <3>3 DEF StepHolds, Checked, Writing, Filed, FoundAgain
        <3>5. QED BY <2>1, <3>4
    <2>2. CASE Known(of[w]) = {} /\ c.makers # 0
        <3>1. step = "refused"
            BY <2>2
        <3> HIDE DEF c, step
        <3>2. QED BY <3>1 DEF StepHolds, Checked, Writing, Filed, FoundAgain
    <2>3. CASE Known(of[w]) = {} /\ ~(c.makers # 0)
        <3>1. step = "make"
            BY <2>3
        <3> HIDE DEF c, step
        <3>2. QED BY <1>2, <3>1 DEF StepHolds, Checked, Writing, Filed, FoundAgain
    <2>4. QED BY <2>1, <2>2, <2>3
<1>5. step \in PromotionSteps /\ step \notin Writing /\ step # "idle"
    BY DEF PromotionSteps, Writing, FoundAgain, Checked
<1> HIDE DEF step
<1>6. QED BY <1>1, <1>2, <1>3, <1>4, <1>5, MoveKeeps

\* A case directory with one entry changed.
LEMMA MakersChange ==
    ASSUME NEW c \in CaseDirectories
    PROVE  [c EXCEPT !.makers = @ + 1]
            = [makers |-> c.makers + 1, abandoned |-> c.abandoned, file |-> c.file, manifest |-> c.manifest]
    BY DEF CaseDirectories

LEMMA AbandonedChanges ==
    ASSUME NEW c \in CaseDirectories, NEW x
    PROVE  [c EXCEPT !.abandoned = x] = [makers |-> c.makers, abandoned |-> x, file |-> c.file, manifest |-> c.manifest]
    BY DEF CaseDirectories

LEMMA FileChanges ==
    ASSUME NEW c \in CaseDirectories, NEW x
    PROVE  [c EXCEPT !.file = x] = [makers |-> c.makers, abandoned |-> c.abandoned, file |-> x, manifest |-> c.manifest]
    BY DEF CaseDirectories

LEMMA ManifestChanges ==
    ASSUME NEW c \in CaseDirectories, NEW x
    PROVE  [c EXCEPT !.manifest = x] = [makers |-> c.makers, abandoned |-> c.abandoned, file |-> c.file, manifest |-> x]
    BY DEF CaseDirectories

LEMMA MakeKeeps ==
    ASSUME CorpusInv, NEW w \in Promoters, MakeCase(w)
    PROVE  CorpusInv'
<1> DEFINE id == Id(of[w])
           c == corpus[id]
           made == [makers |-> c.makers + 1, abandoned |-> c.abandoned, file |-> c.file, manifest |-> c.manifest]
<1>1. /\ promoting[w] = "make" /\ promoting' = [promoting EXCEPT ![w] = "copy"]
      /\ corpus' = [corpus EXCEPT ![id] = [CaseOf(w) EXCEPT !.makers = @ + 1]]
      /\ UNCHANGED <<index, of, saw, listed, overlapped, variants>>
    BY DEF MakeCase, WritesCase
<1>2. /\ of[w] \in Promotable /\ id \in Ids /\ c \in CaseDirectories /\ CaseHolds(c, id)
      /\ StepHolds("make", of[w], saw[w], c)
    BY <1>1, PromotersCaseIs
<1>3. /\ corpus \in [Ids -> CaseDirectories] /\ promoting \in [Promoters -> PromotionSteps]
      /\ index \in SUBSET Ids /\ listed \in [Promoters -> SUBSET Ids] /\ "copy" \in PromotionSteps
    BY DEF CorpusInv, CorpusTypes, PromotionSteps, Checked, Writing
<1>4. made \in CaseDirectories /\ made.makers # 0 /\ c.makers \in Nat
    BY <1>2 DEF CaseDirectories
<1>5. corpus' = [corpus EXCEPT ![id] = made]
    <2>1. CaseOf(w) \in CaseDirectories /\ CaseOf(w) = c
        BY <1>2 DEF CaseOf
    <2>2. [CaseOf(w) EXCEPT !.makers = @ + 1] = made
        BY <2>1, MakersChange
    <2>3. QED BY <1>1, <2>2
<1>6. CaseHolds(made, id)
    BY <1>2, <1>4 DEF CaseHolds, Unread
<1>7. made.makers = 1 => c.makers = 0 /\ made.manifest \in Unread
    BY <1>2, <1>4 DEF CaseHolds, Unread
<1>8. StepHolds("copy", of[w], saw[w], made)
    BY <1>2, <1>4, <1>7 DEF StepHolds, Checked, Writing, Filed, FoundAgain
<1>9. made.makers = c.makers + 1
    OBVIOUS
<1> HIDE DEF id, made
<1>10. /\ corpus' \in [Ids -> CaseDirectories] /\ corpus'[id] = made /\ \A i \in Ids \ {id} : corpus'[i] = corpus[i]
       /\ promoting' \in [Promoters -> PromotionSteps] /\ promoting'[w] = "copy"
       /\ \A v \in Promoters \ {w} : promoting'[v] = promoting[v]
    BY <1>1, <1>2, <1>3, <1>4, <1>5
<1>11. CorpusTypes'
    BY <1>1, <1>2, <1>10 DEF CorpusInv, CorpusTypes
<1>12. \A i \in Ids : CaseHolds(corpus'[i], i)
    BY <1>6, <1>10 DEF CorpusInv
<1>13. ASSUME NEW v \in Promoters, promoting'[v] # "idle"
       PROVE  StepHolds(promoting'[v], of'[v], saw'[v], corpus'[Id(of'[v])])
    <2>1. CASE v = w
        BY <1>1, <1>8, <1>10, <2>1 DEF id
    <2>2. CASE v # w
        <3>1. promoting[v] # "idle" /\ promoting'[v] = promoting[v] /\ of'[v] = of[v] /\ saw'[v] = saw[v]
            BY <1>1, <1>10, <1>13, <2>2
        <3>2. StepHolds(promoting[v], of[v], saw[v], corpus[Id(of[v])]) /\ Id(of[v]) \in Ids
            BY <3>1, PromotersCaseIs
        <3>3. CASE Id(of[v]) # id
            BY <1>10, <3>1, <3>2, <3>3
        <3>4. CASE Id(of[v]) = id
            <4>1. made.makers = 1 => promoting[v] \notin Writing \cup Filed \cup FoundAgain
                BY <1>7, <3>2, <3>4 DEF StepHolds
            <4>2. {"describe", "described"} \subseteq Writing
                BY DEF Writing
            <4>3. StepHolds(promoting[v], of[v], saw[v], made)
                BY <1>4, <3>2, <4>1, <4>2 DEF StepHolds
            <4>4. QED BY <1>10, <3>1, <3>4, <4>3
        <3>5. QED BY <3>3, <3>4
    <2>3. QED BY <2>1, <2>2
<1>14. OneWriter'
    <2> SUFFICES ASSUME NEW u \in Promoters, NEW v \in Promoters, u # v, promoting'[u] \in Writing,
                        promoting'[v] \in Writing, Id(of[u]) = Id(of[v])
                 PROVE  corpus'[Id(of[u])].makers # 1
        BY <1>1 DEF OneWriter
    <2>1. promoting'[u] # "idle" /\ promoting'[v] # "idle"
        BY DEF Writing
    <2>2. CASE Id(of[u]) = id
        <3>1. PICK x \in {u, v} : x # w
            OBVIOUS
        <3>2. promoting[x] \in Writing /\ promoting[x] # "idle" /\ Id(of[x]) = id
            BY <1>10, <2>1, <2>2, <3>1
        <3>3. StepHolds(promoting[x], of[x], saw[x], c)
            BY <3>1, <3>2, PromotersCaseIs
        <3>4. c.makers # 0
            BY <3>2, <3>3 DEF StepHolds
        <3>5. QED BY <1>7, <1>10, <1>2, <2>2, <3>4
    <2>3. CASE Id(of[u]) # id
        <3>1. u # w /\ v # w
            BY <2>3 DEF id
        <3>2. promoting[u] \in Writing /\ promoting[v] \in Writing /\ promoting[u] # "idle"
            BY <1>10, <2>1, <3>1
        <3>3. Id(of[u]) \in Ids
            BY <3>2, PromotersCaseIs
        <3>4. QED BY <1>10, <2>3, <3>2, <3>3 DEF CorpusInv, OneWriter
    <2>4. QED BY <2>2, <2>3
<1>15. ASSUME NEW ids \in SUBSET Ids, ListHolds(ids, corpus) PROVE ListHolds(ids, corpus')
    <2> SUFFICES ASSUME NEW i \in ids
                 PROVE  corpus'[i].makers # 0 /\ (corpus'[i].makers = 1 => corpus'[i].manifest \notin Unread)
        BY DEF ListHolds
    <2>1. corpus[i].makers # 0 /\ (corpus[i].makers = 1 => corpus[i].manifest \notin Unread)
        BY <1>15 DEF ListHolds
    <2>2. CASE i = id
        BY <1>4, <1>7, <1>10, <2>1, <2>2
    <2>3. CASE i # id
        BY <1>10, <2>1, <2>3
    <2>4. QED BY <2>2, <2>3
<1>16. ListHolds(index', corpus') /\ \A v \in Promoters : ListHolds(listed'[v], corpus')
    BY <1>1, <1>3, <1>15 DEF CorpusInv
<1>17. QED BY <1>11, <1>12, <1>13, <1>14, <1>16 DEF CorpusInv

LEMMA CopyKeeps ==
    ASSUME CorpusInv, NEW w \in Promoters, CopyInput(w)
    PROVE  CorpusInv'
<1> DEFINE c == corpus[Id(of[w])]
           With(x) == [makers |-> c.makers, abandoned |-> c.abandoned, file |-> x, manifest |-> c.manifest]
<1>1. PICK before \in {"copy", "copied"} :
        /\ promoting[w] = before
        /\ WritesCase(w, before, [CaseOf(w) EXCEPT !.file = IF before = "copy" THEN Torn ELSE of[w].input],
                  IF before = "copy" THEN "copied" ELSE "describe")
    BY DEF CopyInput, WritesCase
<1> DEFINE x == IF before = "copy" THEN Torn ELSE of[w].input
           step == IF before = "copy" THEN "copied" ELSE "describe"
<1>2. /\ of[w] \in Promotable /\ c \in CaseDirectories /\ CaseHolds(c, Id(of[w]))
      /\ StepHolds(before, of[w], saw[w], c)
    BY <1>1, PromotersCaseIs
<1>3. x \in FileContents
    BY <1>2 DEF FileContents, Unread
<1>4. before \in Writing /\ step \in Writing \cup {"list"} /\ step \in Checked /\ before \in Checked
    BY DEF Writing, Checked
<1>5. WritesCase(w, before, With(x), step)
    <2>1. CaseOf(w) = c
        BY DEF CaseOf
    <2>2. [CaseOf(w) EXCEPT !.file = x] = With(x)
        BY <1>2, <2>1, FileChanges
    <2>3. QED BY <1>1, <2>2
<1>6. With(x) \in CaseDirectories /\ With(x).makers = c.makers /\ With(x).manifest = c.manifest /\ With(x).file = x
    BY <1>2, <1>3 DEF CaseDirectories
<1>7. c.makers = 1 => c.manifest \in Unread
    BY <1>2, <1>4 DEF StepHolds
<1>8. c.makers # 0 /\ ShownFor(of[w], saw[w])
    BY <1>2, <1>4 DEF StepHolds
<1>9. step \in {"describe", "described"} => x = of[w].input
    OBVIOUS
<1>10. step \notin Filed \cup FoundAgain
    BY DEF Filed, FoundAgain
<1> HIDE DEF With, x, step, c
<1>11. CaseHolds(With(x), Id(of[w]))
    BY <1>2, <1>6, <1>7 DEF CaseHolds
<1>12. StepHolds(step, of[w], saw[w], With(x))
    BY <1>6, <1>7, <1>8, <1>9, <1>10 DEF StepHolds
<1>13. With(x).makers = corpus[Id(of[w])].makers
    BY <1>6 DEF c
<1>14. QED BY <1>4, <1>5, <1>6, <1>11, <1>12, <1>13, WriteKeeps

LEMMA DescribeKeeps ==
    ASSUME CorpusInv, NEW w \in Promoters, WriteManifest(w)
    PROVE  CorpusInv'
<1> DEFINE c == corpus[Id(of[w])]
           With(x) == [makers |-> c.makers, abandoned |-> c.abandoned, file |-> c.file, manifest |-> x]
<1>1. PICK before \in {"describe", "described"} :
        /\ promoting[w] = before
        /\ WritesCase(w, before, [CaseOf(w) EXCEPT !.manifest = IF before = "describe" THEN Torn ELSE Manifest(of[w], saw[w])],
                  IF before = "describe" THEN "described" ELSE "list")
    BY DEF WriteManifest, WritesCase
<1> DEFINE x == IF before = "describe" THEN Torn ELSE Manifest(of[w], saw[w])
           step == IF before = "describe" THEN "described" ELSE "list"
<1>2. /\ of[w] \in Promotable /\ c \in CaseDirectories /\ CaseHolds(c, Id(of[w]))
      /\ StepHolds(before, of[w], saw[w], c) /\ saw[w] \in Shown
    BY <1>1, PromotersCaseIs DEF CorpusInv, CorpusTypes
<1>3. x \in ManifestContents
    BY <1>2 DEF ManifestContents, Unread
<1>4. before \in Writing /\ step \in Writing \cup {"list"} /\ before \in Checked
    BY DEF Writing, Checked
<1>5. WritesCase(w, before, With(x), step)
    <2>1. CaseOf(w) = c
        BY DEF CaseOf
    <2>2. [CaseOf(w) EXCEPT !.manifest = x] = With(x)
        BY <1>2, <2>1, ManifestChanges
    <2>3. QED BY <1>1, <2>2
<1>6. With(x) \in CaseDirectories /\ With(x).makers = c.makers /\ With(x).manifest = x /\ With(x).file = c.file
    BY <1>2, <1>3 DEF CaseDirectories
<1>7. c.makers = 1 => c.file = of[w].input
    BY <1>2 DEF StepHolds
<1>8. c.makers # 0 /\ ShownFor(of[w], saw[w])
    BY <1>2, <1>4 DEF StepHolds
<1>9. CASE before = "describe"
    <2>1. x \in Unread /\ step = "described"
        BY <1>9 DEF Unread
    <2> HIDE DEF With, x, step, c
    <2>2. CaseHolds(With(x), Id(of[w]))
        BY <1>6, <1>8, <2>1 DEF CaseHolds
    <2>3. StepHolds(step, of[w], saw[w], With(x))
        BY <1>6, <1>7, <1>8, <2>1 DEF StepHolds, Filed, FoundAgain
    <2>4. With(x).makers = corpus[Id(of[w])].makers
        BY <1>6 DEF c
    <2>5. QED BY <1>4, <1>5, <1>6, <2>2, <2>3, <2>4, WriteKeeps
<1>10. CASE before = "described"
    <2>1. x = Manifest(of[w], saw[w]) /\ step = "list"
        BY <1>10
    <2>2. x \notin Unread
        BY <1>2, <2>1, CorpusAssumption DEF Unread
    <2>3. x.input = of[w].input /\ x.predicate = Predicate(of[w])
        BY <2>1 DEF Manifest
    <2>4. WholeFor(x, Id(of[w]))
        BY <1>2, <1>8, <2>1 DEF WholeFor
    <2>5. Id(of[w]).input = of[w].input
        BY DEF Id
    <2> HIDE DEF With, x, step, c
    <2>6. CaseHolds(With(x), Id(of[w]))
        BY <1>6, <1>7, <1>8, <2>4, <2>5 DEF CaseHolds
    <2>7. StepHolds(step, of[w], saw[w], With(x))
        BY <1>6, <1>8, <2>1, <2>2, <2>3 DEF StepHolds, Checked, Writing
    <2>8. With(x).makers = corpus[Id(of[w])].makers
        BY <1>6 DEF c
    <2>9. QED BY <1>4, <1>5, <1>6, <2>6, <2>7, <2>8, WriteKeeps
<1>11. QED BY <1>9, <1>10

LEMMA ListKeeps ==
    ASSUME CorpusInv, NEW w \in Promoters, ListCases(w)
    PROVE  CorpusInv'
<1> DEFINE before == promoting[w]
           step == IF before = "list" THEN "index" ELSE "index_duplicate"
<1>1. /\ before \in {"list", "list_duplicate"} /\ listed' = [listed EXCEPT ![w] = Legible]
      /\ promoting \in [Promoters -> PromotionSteps] /\ promoting' = [promoting EXCEPT ![w] = step]
      /\ UNCHANGED <<corpus, index, of, variants>>
    BY DEF ListCases, CorpusInv, CorpusTypes
<1>2. /\ of[w] \in Promotable /\ StepHolds(before, of[w], saw[w], corpus[Id(of[w])])
      /\ NoPrint \in Shown /\ saw' = [saw EXCEPT ![w] = NoPrint]
    BY <1>1, PromotersCaseIs DEF Shown, ListCases
<1>3. StepHolds(step, of[w], NoPrint, corpus[Id(of[w])])
    BY <1>1, <1>2 DEF StepHolds, Checked, Writing, Filed, FoundAgain
<1>4. Legible \in SUBSET Ids /\ ListHolds(Legible, corpus)
    BY DEF Legible, ListHolds, CorpusInv, CaseHolds, Unread
<1>5. /\ index \in SUBSET Ids /\ ListHolds(index, corpus) /\ listed' \in [Promoters -> SUBSET Ids]
      /\ \A v \in Promoters : listed'[v] = listed[v] \/ listed'[v] = Legible
    BY <1>1, <1>4 DEF CorpusInv, CorpusTypes
<1>6. \A v \in Promoters : ListHolds(listed'[v], corpus)
    BY <1>4, <1>5 DEF CorpusInv
<1>7. step \in PromotionSteps /\ step \notin Writing /\ step # "idle"
    BY DEF PromotionSteps, Writing, Filed, FoundAgain
<1> HIDE DEF step, before
<1>8. QED BY <1>1, <1>2, <1>3, <1>5, <1>6, <1>7, MoveKeeps

LEMMA IndexKeeps ==
    ASSUME CorpusInv, NEW w \in Promoters, WriteIndex(w)
    PROVE  CorpusInv'
<1> DEFINE before == promoting[w]
           step == IF before = "index" THEN "promoted" ELSE "duplicate"
<1>1. /\ before \in {"index", "index_duplicate"} /\ listed' = [listed EXCEPT ![w] = {}] /\ index' = listed[w]
      /\ promoting \in [Promoters -> PromotionSteps] /\ promoting' = [promoting EXCEPT ![w] = step]
      /\ UNCHANGED <<corpus, of, saw, variants>>
    BY DEF WriteIndex, Indexing, CorpusInv, CorpusTypes
<1>2. /\ of[w] \in Promotable /\ StepHolds(before, of[w], saw[w], corpus[Id(of[w])])
      /\ saw[w] \in Shown /\ saw' = [saw EXCEPT ![w] = saw[w]]
    BY <1>1, PromotersCaseIs DEF CorpusInv, CorpusTypes
<1>3. StepHolds(step, of[w], saw[w], corpus[Id(of[w])])
    BY <1>1, <1>2 DEF StepHolds, Checked, Writing, Filed, FoundAgain
<1>4. /\ index' \in SUBSET Ids /\ ListHolds(index', corpus) /\ listed' \in [Promoters -> SUBSET Ids]
      /\ \A v \in Promoters : listed'[v] = listed[v] \/ listed'[v] = {}
    BY <1>1 DEF CorpusInv, CorpusTypes
<1>5. \A v \in Promoters : ListHolds(listed'[v], corpus)
    BY <1>4 DEF CorpusInv, ListHolds
<1>6. step \in PromotionSteps /\ step \notin Writing /\ step # "idle"
    BY DEF PromotionSteps, Writing, Filed, FoundAgain
<1> HIDE DEF step, before
<1>7. QED BY <1>1, <1>2, <1>3, <1>4, <1>5, <1>6, MoveKeeps

LEMMA AbandonedIs ==
    ASSUME CorpusInv, NEW w \in Promoters, promoting[w] # "idle"
    PROVE  LET c == corpus[Id(of[w])] IN
           [corpus EXCEPT ![Id(of[w])] = [CaseOf(w) EXCEPT !.abandoned = TRUE]]
             = [corpus EXCEPT ![Id(of[w])] =
                  [makers |-> c.makers, abandoned |-> TRUE, file |-> c.file, manifest |-> c.manifest]]
<1>1. CaseOf(w) = corpus[Id(of[w])] /\ CaseOf(w) \in CaseDirectories
    BY PromotersCaseIs DEF CaseOf
<1>2. QED BY <1>1, AbandonedChanges

LEMMA GivesUpKeeps ==
    ASSUME CorpusInv, NEW w \in Promoters, GivesUp(w)
    PROVE  CorpusInv'
<1>1. promoting[w] # "idle"
    BY DEF GivesUp, Resting
<1> DEFINE id == Id(of[w])
           c == corpus[id]
           left == [makers |-> c.makers, abandoned |-> TRUE, file |-> c.file, manifest |-> c.manifest]
<1>2. id \in Ids /\ c \in CaseDirectories /\ corpus \in [Ids -> CaseDirectories]
    BY <1>1, PromotersCaseIs DEF CorpusInv, CorpusTypes
<1>3. left \in CaseDirectories /\ HoldTheSame(c, left)
    BY <1>2 DEF CaseDirectories, HoldTheSame
<1>4. corpus' = [corpus EXCEPT ![id] = left] \/ corpus' = corpus
    BY <1>1, AbandonedIs DEF GivesUp
<1> HIDE DEF id, left
<1>5. corpus' \in [Ids -> CaseDirectories] /\ \A i \in Ids : HoldTheSame(corpus[i], corpus'[i])
    BY <1>2, <1>3, <1>4 DEF HoldTheSame
<1>6. QED BY <1>5, ResetKeeps DEF GivesUp

LEMMA CorpusKeeps == CorpusInv /\ [CorpusNext]_corpusVars => CorpusInv'
<1> SUFFICES ASSUME CorpusInv, [CorpusNext]_corpusVars PROVE CorpusInv'
    OBVIOUS
<1>1. CASE UNCHANGED <<corpus, index, promoting, of, saw, listed>>
    BY <1>1 DEF CorpusInv, CorpusTypes, OneWriter
<1>2. CASE Unusable \/ Explore
    BY <1>1, <1>2 DEF Unusable, Explore, Add
<1>3. ASSUME NEW w \in Promoters, Promote(w) PROVE CorpusInv'
    <2>1. PICK b \in Promotable : of' = [of EXCEPT ![w] = b]
        BY <1>3 DEF Promote
    <2>2. corpus' \in [Ids -> CaseDirectories] /\ \A id \in Ids : HoldTheSame(corpus[id], corpus'[id])
        BY <1>3 DEF Promote, CorpusInv, CorpusTypes, HoldTheSame
    <2>3. QED BY <1>3, <2>1, <2>2, ResetKeeps DEF Promote
<1>4. ASSUME NEW w \in Promoters, GivesUp(w) PROVE CorpusInv'
    BY <1>4, GivesUpKeeps
<1>5. ASSUME NEW w \in Promoters,
             \/ VerifyFailure(w) \/ Scan(w) \/ MakeCase(w) \/ CopyInput(w)
             \/ WriteManifest(w) \/ ListCases(w) \/ WriteIndex(w)
      PROVE  CorpusInv'
    BY <1>5, VerifyKeeps, ScanKeeps, MakeKeeps, CopyKeeps, DescribeKeeps, ListKeeps, IndexKeeps
<1>6. QED BY <1>1, <1>2, <1>3, <1>4, <1>5 DEF CorpusNext, corpusVars

\* A promotion of a case is at one of some steps.
At(id, steps) == \E w \in Promoters : promoting[w] \in steps /\ Id(of[w]) = id
ToList == {"list"}
ToIndex == {"list", "index"}
Copying == {"copy", "copied"}
Elsewhere == PromotionSteps \ (Writing \cup ToIndex \cup Indexing)

\* What races and deaths leave: a case that was not abandoned has its input and
\* its manifest, or somebody is still writing them; and while no two promotions
\* listed at once, a list lacks only cases that will be listed later.
RestInv ==
    /\ \A id \in Ids : corpus[id].makers # 0 /\ ~corpus[id].abandoned =>
        /\ corpus[id].file = id.input \/ At(id, Copying)
        /\ corpus[id].manifest \notin Unread \/ At(id, Writing)
    /\ overlapped \in BOOLEAN
    /\ ~overlapped =>
        /\ \A w, v \in Promoters : promoting[w] \in Indexing /\ promoting[v] \in Indexing => w = v
        /\ \A id \in Legible \ index : corpus[id].abandoned \/ At(id, ToIndex)
        /\ \A w \in Promoters : promoting[w] \in Indexing =>
            \A id \in Legible \ listed[w] : corpus[id].abandoned \/ At(id, ToList)

LEMMA RestStarts == CorpusInit => RestInv
<1> SUFFICES ASSUME CorpusInit PROVE RestInv
    OBVIOUS
<1>1. \A id \in Ids : corpus[id].makers = 0 /\ corpus[id].manifest = NoFile
    BY DEF CorpusInit
<1>2. Legible = {}
    BY <1>1 DEF Legible
<1>3. \A w \in Promoters : promoting[w] \notin Indexing
    BY DEF CorpusInit, Indexing
<1>4. QED BY <1>1, <1>2, <1>3 DEF RestInv, CorpusInit

\* A step of one promotion takes nobody else from where they are.
LEMMA AtStays ==
    ASSUME NEW w \in Promoters, \A v \in Promoters \ {w} : promoting'[v] = promoting[v] /\ of'[v] = of[v],
           NEW id, NEW steps, At(id, steps),
           ~(promoting[w] \in steps /\ Id(of[w]) = id) \/ (promoting'[w] \in steps /\ of'[w] = of[w])
    PROVE  At(id, steps)'
<1>1. PICK v \in Promoters : promoting[v] \in steps /\ Id(of[v]) = id
    BY DEF At
<1>2. promoting'[v] \in steps /\ Id(of'[v]) = id
    <2>1. CASE v = w
        BY <1>1, <2>1
    <2>2. CASE v # w
        BY <1>1, <2>2
    <2>3. QED BY <2>1, <2>2
<1>3. QED BY <1>2 DEF At

\* A promotion goes on outside the corpus.
LEMMA ElsewhereRests ==
    ASSUME RestInv, NEW w \in Promoters, \A v \in Promoters \ {w} : promoting'[v] = promoting[v] /\ of'[v] = of[v],
           promoting[w] \in Elsewhere, promoting'[w] \in Elsewhere, UNCHANGED <<corpus, index, listed, overlapped>>
    PROVE  RestInv'
<1>1. \A id, steps : steps \in {Copying, Writing, ToIndex, ToList} => promoting[w] \notin steps
    BY DEF Elsewhere, Copying, Writing, ToIndex, ToList
<1>2. \A id : \A steps \in {Copying, Writing, ToIndex, ToList} : At(id, steps) => At(id, steps)'
    BY <1>1, AtStays
<1>3. promoting[w] \notin Indexing /\ promoting'[w] \notin Indexing
    BY DEF Elsewhere
<1>4. \A v \in Promoters : promoting'[v] \in Indexing => promoting[v] \in Indexing
    BY <1>3
<1>5. Legible' = Legible
    BY DEF Legible
<1>6. \A id \in Ids : corpus'[id].makers # 0 /\ ~corpus'[id].abandoned =>
        /\ corpus'[id].file = id.input \/ At(id, Copying)'
        /\ corpus'[id].manifest \notin Unread \/ At(id, Writing)'
    BY <1>2 DEF RestInv
<1>7. ~overlapped' =>
        /\ \A v, u \in Promoters : promoting'[v] \in Indexing /\ promoting'[u] \in Indexing => v = u
        /\ \A id \in Legible' \ index' : corpus'[id].abandoned \/ At(id, ToIndex)'
        /\ \A v \in Promoters : promoting'[v] \in Indexing =>
            \A id \in Legible' \ listed'[v] : corpus'[id].abandoned \/ At(id, ToList)'
    BY <1>2, <1>4, <1>5 DEF RestInv
<1>8. QED BY <1>6, <1>7 DEF RestInv, Indexing

\* A promotion writes its case directory.
LEMMA WritingRests ==
    ASSUME CorpusInv, RestInv, NEW w \in Promoters, NEW before, NEW case, NEW step, WritesCase(w, before, case, step),
           before \in Writing \cup {"make"}, step \in Writing \cup ToList,
           case.abandoned = corpus[Id(of[w])].abandoned,
           \/ case.file = Id(of[w]).input \/ step \in Copying
           \/ case.file = corpus[Id(of[w])].file /\ before \in {"describe", "described"},
           case.manifest \notin Unread \/ step \in Writing,
           case.manifest \in Unread \/ step \in ToList \/ case.manifest = corpus[Id(of[w])].manifest
    PROVE  RestInv'
<1>1. /\ promoting[w] = before /\ corpus' = [corpus EXCEPT ![Id(of[w])] = case]
      /\ promoting' = [promoting EXCEPT ![w] = step] /\ UNCHANGED <<index, of, saw, listed, overlapped>>
    BY DEF WritesCase
<1>2. promoting \in [Promoters -> PromotionSteps] /\ corpus \in [Ids -> CaseDirectories]
    BY DEF CorpusInv, CorpusTypes
<1>3. promoting[w] # "idle"
    BY <1>1 DEF Writing
<1>4. PICK id \in Ids : id = Id(of[w])
    BY <1>3, PromotersCaseIs
<1>5. /\ corpus'[id] = case /\ \A i \in Ids \ {id} : corpus'[i] = corpus[i]
      /\ promoting'[w] = step /\ \A v \in Promoters \ {w} : promoting'[v] = promoting[v] /\ of'[v] = of[v]
    BY <1>1, <1>2, <1>4
<1>6. Id(of[w]) = id /\ of' = of
    BY <1>1, <1>4
<1>7. ASSUME NEW i, NEW steps, At(i, steps), i # id \/ before \notin steps \/ step \in steps PROVE At(i, steps)'
    BY <1>1, <1>5, <1>6, <1>7, AtStays
<1>8. \A steps : step \in steps => At(id, steps)'
    BY <1>5, <1>6 DEF At
<1>9. before \notin Indexing /\ step \notin Indexing /\ before \notin ToIndex
    BY DEF Writing, Indexing, ToList, ToIndex
<1>10. ASSUME NEW i \in Ids, corpus'[i].makers # 0, ~corpus'[i].abandoned, i # id
       PROVE  /\ corpus'[i].file = i.input \/ At(i, Copying)'
              /\ corpus'[i].manifest \notin Unread \/ At(i, Writing)'
    <2>1. corpus[i].makers # 0 /\ ~corpus[i].abandoned
        BY <1>5, <1>10
    <2>2. /\ corpus[i].file = i.input \/ At(i, Copying)
          /\ corpus[i].manifest \notin Unread \/ At(i, Writing)
        BY <2>1 DEF RestInv
    <2>3. QED BY <1>5, <1>7, <1>10, <2>2
<1>11. case.manifest \notin Unread \/ At(id, Writing)'
    BY <1>8
<1>12. ASSUME ~case.abandoned, case.file # id.input PROVE At(id, Copying)'
    <2>1. CASE step \in Copying
        BY <1>8, <2>1
    <2>2. CASE case.file = corpus[id].file /\ before \in {"describe", "described"}
        <3>1. StepHolds(promoting[w], of[w], saw[w], corpus[id])
            BY <1>3, <1>6, PromotersCaseIs
        <3>2. corpus[id].makers # 0
            BY <1>1, <2>2, <3>1 DEF StepHolds, Writing
        <3>3. At(id, Copying)
            BY <1>4, <1>6, <1>12, <2>2, <3>2 DEF RestInv
        <3>4. before \notin Copying
            BY <2>2 DEF Copying
        <3>5. QED BY <1>7, <3>3, <3>4
    <2>3. QED BY <1>6, <1>12, <2>1, <2>2
<1>13. \A i \in Ids : corpus'[i].makers # 0 /\ ~corpus'[i].abandoned =>
        /\ corpus'[i].file = i.input \/ At(i, Copying)'
        /\ corpus'[i].manifest \notin Unread \/ At(i, Writing)'
    <2> SUFFICES ASSUME NEW i \in Ids, corpus'[i].makers # 0, ~corpus'[i].abandoned
                 PROVE  /\ corpus'[i].file = i.input \/ At(i, Copying)'
                        /\ corpus'[i].manifest \notin Unread \/ At(i, Writing)'
        OBVIOUS
    <2>1. CASE i = id
        BY <1>5, <1>11, <1>12, <2>1
    <2>2. CASE i # id
        BY <1>10, <2>2
    <2>3. QED BY <2>1, <2>2
<1>14. ASSUME NEW i \in Legible', i # id \/ step \notin ToList PROVE i \in Legible
    <2>1. i \in Ids /\ corpus'[i].manifest \notin Unread
        BY DEF Legible, Unread
    <2>2. corpus[i].manifest \notin Unread
        BY <1>5, <1>6, <1>14, <2>1
    <2>3. QED BY <2>1, <2>2 DEF Legible, Unread
<1>15. \A i \in Ids : corpus'[i].abandoned = corpus[i].abandoned
    BY <1>5, <1>6
<1>16. Legible' \subseteq Ids
    BY DEF Legible
<1>17. ASSUME ~overlapped', NEW i \in Legible' \ index' PROVE corpus'[i].abandoned \/ At(i, ToIndex)'
    <2>1. CASE i = id /\ step \in ToList
        BY <1>8, <2>1 DEF ToList, ToIndex
    <2>2. CASE i # id \/ step \notin ToList
        <3>1. i \in Legible \ index
            BY <1>1, <1>14, <1>17, <2>2
        <3>2. corpus[i].abandoned \/ At(i, ToIndex)
            BY <1>1, <1>17, <3>1 DEF RestInv
        <3>3. QED BY <1>7, <1>9, <1>15, <1>16, <3>2
    <2>3. QED BY <2>1, <2>2
<1>18. ASSUME ~overlapped', NEW v \in Promoters, promoting'[v] \in Indexing, NEW i \in Legible' \ listed'[v]
       PROVE  corpus'[i].abandoned \/ At(i, ToList)'
    <2>1. CASE i = id /\ step \in ToList
        BY <1>8, <2>1
    <2>2. CASE i # id \/ step \notin ToList
        <3>1. i \in Legible \ listed[v]
            BY <1>1, <1>14, <1>18, <2>2
        <3>2. promoting[v] \in Indexing
            BY <1>5, <1>9, <1>18
        <3>3. corpus[i].abandoned \/ At(i, ToList)
            BY <1>1, <1>18, <3>1, <3>2 DEF RestInv
        <3>4. before \notin ToList
            BY DEF Writing, ToList
        <3>5. QED BY <1>7, <1>15, <1>16, <3>3, <3>4
    <2>3. QED BY <2>1, <2>2
<1>19. ~overlapped' => \A v, u \in Promoters : promoting'[v] \in Indexing /\ promoting'[u] \in Indexing => v = u
    BY <1>1, <1>5, <1>9 DEF RestInv
<1>20. overlapped' \in BOOLEAN
    BY <1>1 DEF RestInv
<1>21. QED BY <1>13, <1>17, <1>18, <1>19, <1>20 DEF RestInv, Indexing

LEMMA CaseFilesRest ==
    ASSUME CorpusInv, RestInv, NEW w \in Promoters, MakeCase(w) \/ CopyInput(w) \/ WriteManifest(w)
    PROVE  RestInv'
<1>1. promoting[w] # "idle"
    BY DEF MakeCase, CopyInput, WriteManifest, WritesCase
<1> DEFINE c == corpus[Id(of[w])]
<1>2. of[w] \in Promotable /\ c \in CaseDirectories /\ CaseOf(w) = c /\ Id(of[w]).input = of[w].input
    BY <1>1, PromotersCaseIs DEF CaseOf, Id
<1> DEFINE made == [makers |-> c.makers + 1, abandoned |-> c.abandoned, file |-> c.file, manifest |-> c.manifest]
           Filing(x) == [makers |-> c.makers, abandoned |-> c.abandoned, file |-> x, manifest |-> c.manifest]
           Telling(x) == [makers |-> c.makers, abandoned |-> c.abandoned, file |-> c.file, manifest |-> x]
<1>3. /\ [CaseOf(w) EXCEPT !.makers = @ + 1] = made
      /\ \A x : [CaseOf(w) EXCEPT !.file = x] = Filing(x)
      /\ \A x : [CaseOf(w) EXCEPT !.manifest = x] = Telling(x)
    <2>1. [CaseOf(w) EXCEPT !.makers = @ + 1] = made
        BY <1>2, MakersChange
    <2>2. ASSUME NEW x PROVE [CaseOf(w) EXCEPT !.file = x] = Filing(x)
        BY <1>2, FileChanges
    <2>3. ASSUME NEW x PROVE [CaseOf(w) EXCEPT !.manifest = x] = Telling(x)
        BY <1>2, ManifestChanges
    <2> HIDE DEF made, Filing, Telling
    <2>4. QED BY <2>1, <2>2, <2>3
<1>4. CASE MakeCase(w)
    <2>1. WritesCase(w, "make", made, "copy")
        BY <1>3, <1>4 DEF MakeCase
    <2>2. made.abandoned = c.abandoned /\ made.manifest = c.manifest
        OBVIOUS
    <2>3. "copy" \in Copying /\ "copy" \in Writing
        BY DEF Copying, Writing
    <2> HIDE DEF made
    <2>4. QED BY <2>1, <2>2, <2>3, WritingRests
<1>5. CASE WritesCase(w, "copy", [CaseOf(w) EXCEPT !.file = Torn], "copied")
    <2>1. WritesCase(w, "copy", Filing(Torn), "copied")
        BY <1>3, <1>5
    <2>2. Filing(Torn).abandoned = c.abandoned /\ Filing(Torn).manifest = c.manifest
        OBVIOUS
    <2>3. "copied" \in Copying /\ "copied" \in Writing /\ "copy" \in Writing
        BY DEF Copying, Writing
    <2> HIDE DEF Filing
    <2>4. QED BY <2>1, <2>2, <2>3, WritingRests
<1>6. CASE WritesCase(w, "copied", [CaseOf(w) EXCEPT !.file = of[w].input], "describe")
    <2>1. WritesCase(w, "copied", Filing(of[w].input), "describe")
        BY <1>3, <1>6
    <2>2. /\ Filing(of[w].input).abandoned = c.abandoned /\ Filing(of[w].input).manifest = c.manifest
          /\ Filing(of[w].input).file = Id(of[w]).input
        BY <1>2
    <2>3. "copied" \in Writing /\ "describe" \in Writing
        BY DEF Writing
    <2> HIDE DEF Filing
    <2>4. QED BY <2>1, <2>2, <2>3, WritingRests
<1>7. CASE WritesCase(w, "describe", [CaseOf(w) EXCEPT !.manifest = Torn], "described")
    <2>1. WritesCase(w, "describe", Telling(Torn), "described")
        BY <1>3, <1>7
    <2>2. Telling(Torn).abandoned = c.abandoned /\ Telling(Torn).file = c.file /\ Telling(Torn).manifest \in Unread
        BY DEF Unread
    <2>3. "describe" \in Writing /\ "described" \in Writing
        BY DEF Writing
    <2> HIDE DEF Telling
    <2>4. QED BY <2>1, <2>2, <2>3, WritingRests
<1>8. CASE WritesCase(w, "described", [CaseOf(w) EXCEPT !.manifest = Manifest(of[w], saw[w])], "list")
    <2>1. WritesCase(w, "described", Telling(Manifest(of[w], saw[w])), "list")
        BY <1>3, <1>8
    <2>2. Manifest(of[w], saw[w]) \notin Unread
        BY <1>2, CorpusAssumption DEF CorpusInv, CorpusTypes, Unread
    <2>3. LET t == Telling(Manifest(of[w], saw[w])) IN
          t.abandoned = c.abandoned /\ t.file = c.file /\ t.manifest \notin Unread
        BY <2>2
    <2>4. "described" \in Writing /\ "list" \in ToList
        BY DEF Writing, ToList
    <2> HIDE DEF Telling
    <2>5. QED BY <2>1, <2>3, <2>4, WritingRests
<1>9. QED BY <1>4, <1>5, <1>6, <1>7, <1>8 DEF CopyInput, WriteManifest

LEMMA ListRests ==
    ASSUME CorpusInv, RestInv, NEW w \in Promoters, ListCases(w)
    PROVE  RestInv'
<1>1. /\ promoting[w] \in {"list", "list_duplicate"} /\ listed' = [listed EXCEPT ![w] = Legible]
      /\ overlapped' = (overlapped \/ \E v \in Promoters : promoting[v] \in Indexing)
      /\ promoting' = [promoting EXCEPT ![w] = IF @ = "list" THEN "index" ELSE "index_duplicate"]
      /\ UNCHANGED <<corpus, index, of>>
    BY DEF ListCases
<1>2. /\ promoting \in [Promoters -> PromotionSteps] /\ listed \in [Promoters -> SUBSET Ids]
      /\ overlapped \in BOOLEAN
    BY DEF CorpusInv, CorpusTypes, RestInv
<1>3. /\ promoting'[w] = (IF promoting[w] = "list" THEN "index" ELSE "index_duplicate") /\ listed'[w] = Legible
      /\ \A v \in Promoters \ {w} : promoting'[v] = promoting[v] /\ of'[v] = of[v] /\ listed'[v] = listed[v]
    BY <1>1, <1>2
<1>4. Legible' = Legible
    BY <1>1 DEF Legible
<1>5. promoting[w] \notin Copying /\ promoting[w] \notin Writing
    BY <1>1 DEF Copying, Writing
<1>6. \A i : (At(i, Copying) => At(i, Copying)') /\ (At(i, Writing) => At(i, Writing)')
    BY <1>3, <1>5, AtStays
<1>7. promoting[w] \in ToIndex => promoting'[w] \in ToIndex
    BY <1>1, <1>3 DEF ToIndex
<1>8. \A i : At(i, ToIndex) => At(i, ToIndex)'
    BY <1>1, <1>3, <1>7, AtStays
<1>9. \A i \in Ids : corpus'[i].makers # 0 /\ ~corpus'[i].abandoned =>
        /\ corpus'[i].file = i.input \/ At(i, Copying)'
        /\ corpus'[i].manifest \notin Unread \/ At(i, Writing)'
    BY <1>1, <1>6 DEF RestInv
<1>10. overlapped' \in BOOLEAN
    BY <1>1, <1>2
<1>11. ASSUME ~overlapped'
       PROVE  /\ \A v, u \in Promoters : promoting'[v] \in Indexing /\ promoting'[u] \in Indexing => v = u
              /\ \A i \in Legible' \ index' : corpus'[i].abandoned \/ At(i, ToIndex)'
              /\ \A v \in Promoters : promoting'[v] \in Indexing =>
                  \A i \in Legible' \ listed'[v] : corpus'[i].abandoned \/ At(i, ToList)'
    <2>1. ~overlapped /\ \A v \in Promoters : promoting[v] \notin Indexing
        BY <1>1, <1>11
    <2>2. \A v \in Promoters : promoting'[v] \in Indexing => v = w
        BY <1>3, <2>1
    <2>3. \A i \in Legible' \ index' : corpus'[i].abandoned \/ At(i, ToIndex)'
        BY <1>1, <1>4, <1>8, <2>1 DEF RestInv
    <2>4. Legible' \ listed'[w] = {}
        BY <1>3, <1>4
    <2>5. QED BY <2>2, <2>3, <2>4
<1>12. QED BY <1>9, <1>10, <1>11 DEF RestInv, Indexing

LEMMA IndexRests ==
    ASSUME CorpusInv, RestInv, NEW w \in Promoters, WriteIndex(w)
    PROVE  RestInv'
<1>1. /\ promoting[w] \in Indexing /\ index' = listed[w] /\ listed' = [listed EXCEPT ![w] = {}]
      /\ promoting' = [promoting EXCEPT ![w] = IF @ = "index" THEN "promoted" ELSE "duplicate"]
      /\ UNCHANGED <<corpus, of, overlapped>>
    BY DEF WriteIndex
<1>2. promoting \in [Promoters -> PromotionSteps] /\ listed \in [Promoters -> SUBSET Ids]
    BY DEF CorpusInv, CorpusTypes
<1>3. /\ promoting'[w] = (IF promoting[w] = "index" THEN "promoted" ELSE "duplicate")
      /\ \A v \in Promoters \ {w} : promoting'[v] = promoting[v] /\ of'[v] = of[v] /\ listed'[v] = listed[v]
    BY <1>1, <1>2
<1>4. Legible' = Legible
    BY <1>1 DEF Legible
<1>5. promoting[w] \notin Copying /\ promoting[w] \notin Writing /\ promoting[w] \notin ToList /\ promoting'[w] \notin Indexing
    BY <1>1, <1>3 DEF Copying, Writing, ToList, Indexing
<1>6. \A i : /\ At(i, Copying) => At(i, Copying)'
             /\ At(i, Writing) => At(i, Writing)'
             /\ At(i, ToList) => At(i, ToList)'
    BY <1>3, <1>5, AtStays
<1>7. \A i : At(i, ToList)' => At(i, ToIndex)'
    BY DEF At, ToList, ToIndex
<1>8. \A i \in Ids : corpus'[i].makers # 0 /\ ~corpus'[i].abandoned =>
        /\ corpus'[i].file = i.input \/ At(i, Copying)'
        /\ corpus'[i].manifest \notin Unread \/ At(i, Writing)'
    BY <1>1, <1>6 DEF RestInv
<1>9. ASSUME ~overlapped'
      PROVE  /\ \A v, u \in Promoters : promoting'[v] \in Indexing /\ promoting'[u] \in Indexing => v = u
             /\ \A i \in Legible' \ index' : corpus'[i].abandoned \/ At(i, ToIndex)'
             /\ \A v \in Promoters : promoting'[v] \in Indexing =>
                 \A i \in Legible' \ listed'[v] : corpus'[i].abandoned \/ At(i, ToList)'
    <2>1. ~overlapped /\ \A v, u \in Promoters : promoting[v] \in Indexing /\ promoting[u] \in Indexing => v = u
        BY <1>1, <1>9 DEF RestInv
    <2>2. \A v \in Promoters : promoting'[v] \notin Indexing
        BY <1>1, <1>3, <1>5, <2>1
    <2>3. \A i \in Legible \ listed[w] : corpus[i].abandoned \/ At(i, ToList)
        BY <1>1, <2>1 DEF RestInv
    <2>4. \A i \in Legible' \ index' : corpus'[i].abandoned \/ At(i, ToIndex)'
        BY <1>1, <1>4, <1>6, <1>7, <2>3
    <2>5. QED BY <2>2, <2>4
<1>10. overlapped' \in BOOLEAN
    BY <1>1 DEF RestInv
<1>11. QED BY <1>8, <1>9, <1>10 DEF RestInv, Indexing

LEMMA GivesUpRests ==
    ASSUME CorpusInv, RestInv, NEW w \in Promoters, GivesUp(w)
    PROVE  RestInv'
<1> DEFINE id == Id(of[w])
           c == corpus[id]
           left == [makers |-> c.makers, abandoned |-> TRUE, file |-> c.file, manifest |-> c.manifest]
           leaves == promoting[w] \in Writing \union {"list", "index"}
<1>1. promoting[w] # "idle"
    BY DEF GivesUp, Resting
<1>2. id \in Ids /\ c \in CaseDirectories
    BY <1>1, PromotersCaseIs
<1>3. /\ promoting \in [Promoters -> PromotionSteps] /\ listed \in [Promoters -> SUBSET Ids]
      /\ of \in [Promoters -> Promotable \cup {Unused}] /\ corpus \in [Ids -> CaseDirectories]
    BY DEF CorpusInv, CorpusTypes
<1>4. left \in CaseDirectories /\ HoldTheSame(c, left) /\ left.abandoned
    BY <1>2 DEF CaseDirectories, HoldTheSame
<1>5. corpus' = IF leaves THEN [corpus EXCEPT ![id] = left] ELSE corpus
    BY <1>1, AbandonedIs DEF GivesUp
<1>6. /\ promoting'[w] = "idle" /\ UNCHANGED <<index, overlapped>>
      /\ \A v \in Promoters \ {w} : promoting'[v] = promoting[v] /\ of'[v] = of[v] /\ listed'[v] = listed[v]
    BY <1>3 DEF GivesUp
<1> HIDE DEF left
<1>7. /\ \A i \in Ids : HoldTheSame(corpus[i], corpus'[i]) /\ (corpus[i].abandoned => corpus'[i].abandoned)
      /\ leaves => corpus'[id].abandoned
    BY <1>2, <1>3, <1>4, <1>5 DEF HoldTheSame
<1>8. Legible' = Legible
    BY <1>7 DEF Legible, HoldTheSame
<1>9. \A steps \in {Copying, Writing, ToIndex, ToList} : promoting[w] \in steps => leaves
    BY DEF Copying, Writing, ToIndex, ToList
<1> HIDE DEF leaves, id
<1>10. ASSUME NEW i, NEW steps \in {Copying, Writing, ToIndex, ToList}, At(i, steps)
       PROVE  At(i, steps)' \/ corpus'[i].abandoned
    <2>1. CASE promoting[w] \in steps /\ Id(of[w]) = i
        BY <1>7, <1>9, <2>1 DEF id
    <2>2. CASE ~(promoting[w] \in steps /\ Id(of[w]) = i)
        BY <1>6, <1>10, <2>2, AtStays
    <2>3. QED BY <2>1, <2>2
<1>11. ASSUME NEW i \in Ids, corpus'[i].makers # 0, ~corpus'[i].abandoned
       PROVE  /\ corpus'[i].file = i.input \/ At(i, Copying)'
              /\ corpus'[i].manifest \notin Unread \/ At(i, Writing)'
    <2>1. /\ corpus[i].makers # 0 /\ ~corpus[i].abandoned
          /\ corpus'[i].file = corpus[i].file /\ corpus'[i].manifest = corpus[i].manifest
        BY <1>7, <1>11 DEF HoldTheSame
    <2>2. /\ corpus[i].file = i.input \/ At(i, Copying)
          /\ corpus[i].manifest \notin Unread \/ At(i, Writing)
        BY <2>1 DEF RestInv
    <2>3. QED BY <1>10, <1>11, <2>1, <2>2
<1>12. \A v \in Promoters : promoting'[v] \in Indexing => v # w /\ promoting[v] \in Indexing
    BY <1>6 DEF Indexing
<1>13. Legible \subseteq Ids
    BY DEF Legible
<1>14. ASSUME ~overlapped'
       PROVE  /\ \A v, u \in Promoters : promoting'[v] \in Indexing /\ promoting'[u] \in Indexing => v = u
              /\ \A i \in Legible' \ index' : corpus'[i].abandoned \/ At(i, ToIndex)'
              /\ \A v \in Promoters : promoting'[v] \in Indexing =>
                  \A i \in Legible' \ listed'[v] : corpus'[i].abandoned \/ At(i, ToList)'
    <2>1. ~overlapped
        BY <1>6, <1>14
    <2>2. \A v, u \in Promoters : promoting'[v] \in Indexing /\ promoting'[u] \in Indexing => v = u
        BY <1>12, <2>1 DEF RestInv
    <2>3. \A i \in Legible' \ index' : corpus'[i].abandoned \/ At(i, ToIndex)'
        <3> SUFFICES ASSUME NEW i \in Legible' \ index' PROVE corpus'[i].abandoned \/ At(i, ToIndex)'
            OBVIOUS
        <3>1. corpus[i].abandoned \/ At(i, ToIndex)
            BY <1>6, <1>8, <2>1 DEF RestInv
        <3>2. QED BY <1>7, <1>8, <1>10, <1>13, <3>1
    <2>4. ASSUME NEW v \in Promoters, promoting'[v] \in Indexing, NEW i \in Legible' \ listed'[v]
          PROVE  corpus'[i].abandoned \/ At(i, ToList)'
        <3>1. promoting[v] \in Indexing /\ i \in Legible \ listed[v]
            BY <1>6, <1>8, <1>12, <2>4
        <3>2. corpus[i].abandoned \/ At(i, ToList)
            BY <2>1, <3>1 DEF RestInv
        <3>3. QED BY <1>7, <1>10, <1>13, <3>1, <3>2
    <2>5. QED BY <2>2, <2>3, <2>4
<1>15. overlapped' \in BOOLEAN
    BY <1>6 DEF RestInv
<1>16. QED BY <1>11, <1>14, <1>15 DEF RestInv, Indexing

LEMMA RestKeeps == CorpusInv /\ RestInv /\ [CorpusNext]_corpusVars => RestInv'
<1> SUFFICES ASSUME CorpusInv, RestInv, [CorpusNext]_corpusVars PROVE RestInv'
    OBVIOUS
<1>1. CASE UNCHANGED <<corpus, index, promoting, of, listed, overlapped>>
    <2>1. Legible' = Legible /\ \A i, steps : At(i, steps)' = At(i, steps)
        BY <1>1 DEF Legible, At
    <2>2. QED BY <1>1, <2>1 DEF RestInv
<1>2. CASE Unusable \/ Explore
    BY <1>1, <1>2 DEF Unusable, Explore, Add
<1>3. ASSUME NEW w \in Promoters, Promote(w) \/ VerifyFailure(w) \/ Scan(w) PROVE RestInv'
    <2>1. /\ promoting \in [Promoters -> PromotionSteps] /\ of \in [Promoters -> Promotable \cup {Unused}]
        BY DEF CorpusInv, CorpusTypes
    <2>2. /\ promoting[w] \in Resting \cup {"verify", "scan"}
          /\ promoting'[w] \in {"verify", "scan", "refused", "list_duplicate", "make"}
          /\ \A v \in Promoters \ {w} : promoting'[v] = promoting[v] /\ of'[v] = of[v]
          /\ UNCHANGED <<corpus, index, listed, overlapped>>
        <3>1. CASE Promote(w)
            BY <2>1, <3>1 DEF Promote
        <3>2. CASE VerifyFailure(w)
            BY <2>1, <3>2 DEF VerifyFailure
        <3>3. CASE Scan(w)
            BY <2>1, <3>3 DEF Scan
        <3>4. QED BY <1>3, <3>1, <3>2, <3>3
    <2>3. Resting \cup {"verify", "scan"} \subseteq Elsewhere /\ {"verify", "scan", "refused", "list_duplicate", "make"} \subseteq Elsewhere
        BY DEF Elsewhere, Resting, PromotionSteps, Checked, Filed, FoundAgain, Writing, ToIndex, Indexing
    <2>4. QED BY <2>2, <2>3, ElsewhereRests
<1>4. ASSUME NEW w \in Promoters, MakeCase(w) \/ CopyInput(w) \/ WriteManifest(w) PROVE RestInv'
    BY <1>4, CaseFilesRest
<1>5. ASSUME NEW w \in Promoters, ListCases(w) \/ WriteIndex(w) \/ GivesUp(w) PROVE RestInv'
    BY <1>5, ListRests, IndexRests, GivesUpRests
<1>6. QED BY <1>1, <1>2, <1>3, <1>4, <1>5 DEF CorpusNext, corpusVars

LEMMA CorpusHolds == CorpusInv /\ RestInv => CorpusIsWhole
<1> SUFFICES ASSUME CorpusInv, RestInv PROVE CorpusIsWhole
    OBVIOUS
<1>1. ASSUME NEW id \in Ids, corpus[id].manifest \notin Unread
      PROVE  id \in Legible /\ WholeFor(corpus[id].manifest, id)
    BY <1>1 DEF CorpusInv, CaseHolds, Legible, Unread
<1>2. CasesAreWhole
    <2> SUFFICES ASSUME NEW id \in Ids,
                        (corpus[id].makers # 0 /\ AtRest(id)) \/ (corpus[id].makers = 1 /\ id \in index)
                 PROVE  Whole(id)
        BY DEF CasesAreWhole
    <2>1. CASE corpus[id].makers = 1 /\ id \in index
        <3>1. corpus[id].manifest \notin Unread /\ corpus[id].file = id.input
            BY <2>1 DEF CorpusInv, ListHolds, CaseHolds
        <3>2. QED BY <1>1, <3>1 DEF Whole
    <2>2. CASE corpus[id].makers # 0 /\ AtRest(id)
        <3>1. ~corpus[id].abandoned /\ ~At(id, Writing) /\ ~At(id, Copying)
            BY <2>2 DEF AtRest, At, Writing, Copying
        <3>2. corpus[id].manifest \notin Unread /\ corpus[id].file = id.input
            BY <2>2, <3>1 DEF RestInv
        <3>3. QED BY <1>1, <3>2 DEF Whole
    <2>3. QED BY <2>1, <2>2
<1>3. CasesWereReplayed
    <2> SUFFICES ASSUME NEW id \in Legible
                 PROVE  LET m == corpus[id].manifest IN
                        m.id = id /\ m.shown # NoPrint /\ (id.class = SemanticV2 => m.fingerprint \in {NoPrint, m.shown})
        BY DEF CasesWereReplayed
    <2>1. id \in Ids /\ corpus[id].manifest \notin Unread
        BY DEF Legible, Unread
    <2>2. PICK b \in Promotable, seen \in Shown :
            id = Id(b) /\ corpus[id].manifest = Manifest(b, seen) /\ ShownFor(b, seen)
        BY <1>1, <2>1 DEF WholeFor
    <2>3. /\ corpus[id].manifest.shown = seen /\ corpus[id].manifest.fingerprint = b.print
          /\ corpus[id].manifest.id = Id(b) /\ id.class = b.class
        BY <2>2 DEF Manifest, Id
    <2>4. QED BY <2>2, <2>3 DEF ShownFor
<1>4. PromotedIsFiled
    <2> SUFFICES ASSUME NEW w \in Promoters, promoting[w] \in {"promoted", "duplicate"}
                 PROVE  corpus[Id(of[w])].makers # 0
                        /\ (corpus[Id(of[w])].makers = 1 => Id(of[w]) \in Known(of[w]))
        BY DEF PromotedIsFiled
    <2>1. promoting[w] # "idle" /\ promoting[w] \in Filed \cup FoundAgain
        BY DEF Filed, FoundAgain
    <2>2. Id(of[w]) \in Ids /\ StepHolds(promoting[w], of[w], saw[w], corpus[Id(of[w])])
        BY <2>1, PromotersCaseIs
    <2>3. QED BY <2>1, <2>2 DEF StepHolds, Known, Legible, Unread
<1>5. IndexFollows
    <2>1. \A id \in index : corpus[id].makers # 0
        BY DEF CorpusInv, ListHolds
    <2>2. ~overlapped => \A id \in Legible \ index : corpus[id].abandoned \/ At(id, ToIndex)
        BY DEF RestInv
    <2>3. \A id : At(id, ToIndex) => \E w \in Promoters : Id(of[w]) = id /\ promoting[w] \in {"list", "index"}
        BY DEF At, ToIndex
    <2>4. QED BY <2>1, <2>2, <2>3 DEF IndexFollows
<1>6. QED BY <1>2, <1>3, <1>4, <1>5 DEF CorpusIsWhole

\* However many promotions run at once, race for one directory and die: a case
\* directory that nobody is writing and nobody died in is whole, and what can be
\* read was replayed; a promotion that ended well has filed its failure, unless
\* another made the same directory; and while no two wrote the index at once, it
\* lacks only cases whose promotion died or has yet to write it
\* (promoteOptimizerFailure and writeIndex).
THEOREM CorpusStaysWhole == CorpusSpec => []CorpusIsWhole
<1>1. CorpusInit => CorpusInv /\ RestInv
    BY CorpusStarts, RestStarts
<1>2. CorpusInv /\ RestInv /\ [CorpusNext]_corpusVars => (CorpusInv /\ RestInv)'
    BY CorpusKeeps, RestKeeps
<1>3. QED BY <1>1, <1>2, CorpusHolds, PTL DEF CorpusSpec

-----------------------------------------------------------------------------
(* The export matrix *)

\* The module comes up with the stubs of an attempt, or has written this.
Up(m, n) == Links(m.imports, n) /\ Answers(m.imports, n, m.start.calls)
Wrote(m, n, c) == IF Links(m.imports, n) THEN (IF ImportsMemory(m) THEN c ELSE 0) + m.start.writes ELSE c

\* What is in its memory before each of n attempts and after them.
WritesAlong(m, n) == {f \in [0..n -> Nat] : f[0] = 0 /\ \A i \in 1..n : f[i] = Wrote(m, i - 1, f[i - 1])}
NoneUp(m, n) == n \in Nat /\ \A i \in 0..(n - 1) : ~Up(m, i)
TriedOn(m, n, c) == NoneUp(m, n) /\ \E f \in WritesAlong(m, n) : c = f[n]
LoadedOn(m, n, c) == NoneUp(m, n) /\ Up(m, n) /\ \E f \in WritesAlong(m, n) : c = Wrote(m, n, f[n])

RowClasses == {"unsupported-runtime", "semantic-mismatch", "equal-trap", "equal-result"}
Verdicts == {"blocked", "semantic-mismatch", "all-equal"}
RowsNaming(S) == [name : S, class : RowClasses, called : BOOLEAN]
PairIsPlain(p) == p.left.start.writes \in Nat /\ p.right.start.writes \in Nat

MatrixTypes ==
    /\ phase \in {"left", "right", "calls", "answered", "settled", "over"}
    /\ DOMAIN attempt = Sides /\ DOMAIN memory = Sides
    /\ \E P : queue \in Seq(P) /\ queue # <<>> /\ \A p \in P : PairIsPlain(p)
    /\ \E S : rows \in Seq(RowsNaming(S))
    /\ totals \in [summary : [total : Nat, blocked : Nat, mismatched : Nat], outcome : Verdicts \cup {"not-run"}]
    /\ outcomes \in Seq(Verdicts)

SidesAgree ==
    /\ phase = "left" => TriedOn(Pair.left, attempt["left"], memory["left"])
                         /\ TriedOn(Pair.right, attempt["right"], memory["right"])
    /\ phase = "right" => LoadedOn(Pair.left, attempt["left"], memory["left"])
                          /\ TriedOn(Pair.right, attempt["right"], memory["right"])
    /\ phase = "calls" /\ Pair.left = Pair.right =>
        attempt["left"] = attempt["right"] /\ memory["left"] = memory["right"]

\* What a row says of the two modules.
RowHolds(row) ==
    row.class # "unsupported-runtime" =>
        /\ row.name \in Required
        /\ row.class = "semantic-mismatch" => Pair.left # Pair.right
        /\ row.class # "semantic-mismatch" => Has("left", row.name) /\ Has("right", row.name)
RowsHold ==
    /\ phase \in {"left", "right", "over"} => rows = <<>>
    /\ \A i \in DOMAIN rows : RowHolds(rows[i])
    /\ phase \in {"answered", "settled"} =>
        Required \subseteq Seen \/ \E i \in DOMAIN rows : rows[i].class = "unsupported-runtime"

TotalsHold ==
    /\ (\E i \in DOMAIN outcomes : outcomes[i] = "semantic-mismatch") => totals.outcome = "semantic-mismatch"
    /\ totals.outcome = "all-equal" => totals.summary.blocked = 0

MatrixInv == MatrixTypes /\ SidesAgree /\ RowsHold /\ TotalsHold

LEMMA TriesOn ==
    ASSUME NEW m, m.start.writes \in Nat, NEW n, NEW c, TriedOn(m, n, c)
    PROVE  /\ Up(m, n) => LoadedOn(m, n, Wrote(m, n, c))
           /\ ~Up(m, n) => TriedOn(m, n + 1, Wrote(m, n, c))
<1>1. n \in Nat /\ \A i \in 0..(n - 1) : ~Up(m, i)
    BY DEF TriedOn, NoneUp
<1>2. PICK f \in WritesAlong(m, n) : c = f[n]
    BY DEF TriedOn
<1>3. f \in [0..n -> Nat] /\ f[0] = 0 /\ \A i \in 1..n : f[i] = Wrote(m, i - 1, f[i - 1])
    BY <1>2 DEF WritesAlong
<1>4. Up(m, n) => LoadedOn(m, n, Wrote(m, n, c))
    BY <1>1, <1>2 DEF LoadedOn, NoneUp
<1>5. ASSUME ~Up(m, n) PROVE TriedOn(m, n + 1, Wrote(m, n, c))
    <2>1. n + 1 \in Nat /\ \A i \in 0..(n + 1 - 1) : i \in 0..(n - 1) \/ i = n
        BY <1>1
    <2>2. NoneUp(m, n + 1)
        BY <1>1, <1>5, <2>1 DEF NoneUp
    <2>3. PICK s : s = Wrote(m, n, c)
        OBVIOUS
    <2>4. c \in Nat /\ s \in Nat
        BY <1>1, <1>2, <1>3, <2>3 DEF Wrote
    <2> DEFINE g == [i \in 0..(n + 1) |-> IF i = n + 1 THEN s ELSE f[i]]
    <2>5. \A i \in 0..(n + 1) : i = n + 1 \/ i \in 0..n
        BY <1>1
    <2>6. g \in [0..(n + 1) -> Nat]
        BY <1>3, <2>4, <2>5
    <2>7. n + 1 \in 0..(n + 1) /\ \A i \in 0..n : i \in 0..(n + 1) /\ i # n + 1
        BY <1>1
    <2>8. g[n + 1] = s /\ \A i \in 0..n : g[i] = f[i]
        BY <2>7
    <2> HIDE DEF g
    <2>9. ASSUME NEW i \in 1..(n + 1) PROVE g[i] = Wrote(m, i - 1, g[i - 1])
        <3>1. CASE i = n + 1
            <4>1. i - 1 = n /\ n \in 0..n
                BY <1>1, <3>1
            <4>2. QED BY <1>2, <2>3, <2>8, <3>1, <4>1
        <3>2. CASE i # n + 1
            <4>1. i \in 1..n /\ i \in 0..n /\ i - 1 \in 0..n
                BY <1>1, <3>2
            <4>2. QED BY <1>3, <2>8, <4>1
        <3>3. QED BY <3>1, <3>2
    <2>10. 0 \in 0..n
        BY <1>1
    <2>11. g \in WritesAlong(m, n + 1)
        BY <1>3, <2>6, <2>8, <2>9, <2>10 DEF WritesAlong
    <2>12. QED BY <2>2, <2>3, <2>8, <2>11 DEF TriedOn
<1>6. QED BY <1>4, <1>5

\* Both sides of one module come up at the same attempt, having written the same.
LEMMA LoadsAlike ==
    ASSUME NEW m, NEW n, NEW c, LoadedOn(m, n, c), NEW k, NEW d, LoadedOn(m, k, d)
    PROVE  n = k /\ c = d
<1>1. n \in Nat /\ k \in Nat /\ Up(m, n) /\ Up(m, k)
      /\ (\A i \in 0..(n - 1) : ~Up(m, i)) /\ (\A i \in 0..(k - 1) : ~Up(m, i))
    BY DEF LoadedOn, NoneUp
<1>2. n = k
    <2>1. ~ (n < k) /\ ~ (k < n)
        BY <1>1
    <2>2. QED BY <1>1, <2>1
<1>3. PICK f \in WritesAlong(m, n), g \in WritesAlong(m, n) : c = Wrote(m, n, f[n]) /\ d = Wrote(m, n, g[n])
    BY <1>2 DEF LoadedOn
<1> DEFINE S == {j \in 0..n : f[j] = g[j]}
<1>4. 0 \in S
    BY <1>1 DEF WritesAlong
<1>5. ASSUME NEW j \in 1..n, j - 1 \in S PROVE j \in S
    <2>1. j \in 0..n /\ f[j - 1] = g[j - 1]
        BY <1>1, <1>5
    <2>2. QED BY <2>1 DEF WritesAlong
<1> HIDE DEF S
<1>6. 0..n \subseteq S
    BY <1>1, <1>4, <1>5, Onwards
<1>7. n \in S
    BY <1>1, <1>6
<1>8. f[n] = g[n]
    BY <1>7 DEF S
<1>9. QED BY <1>2, <1>3, <1>8

LEMMA FreshIsTried == ASSUME NEW m PROVE TriedOn(m, 0, 0)
<1> DEFINE f == [i \in 0..0 |-> 0]
<1>1. f \in WritesAlong(m, 0) /\ f[0] = 0
    BY DEF WritesAlong
<1>2. NoneUp(m, 0)
    BY DEF NoneUp
<1>3. QED BY <1>1, <1>2 DEF TriedOn

LEMMA MatrixStarts == MatrixInit => MatrixInv
<1> SUFFICES ASSUME MatrixInit PROVE MatrixInv
    OBVIOUS
<1>1. PICK P : P = {queue[i] : i \in DOMAIN queue}
    OBVIOUS
<1>2. queue \in Seq(P) /\ queue # <<>> /\ \A p \in P : PairIsPlain(p)
    BY <1>1, MatrixAssumption DEF MatrixInit, PairIsPlain
<1>3. attempt["left"] = 0 /\ attempt["right"] = 0 /\ memory["left"] = 0 /\ memory["right"] = 0
      /\ DOMAIN attempt = Sides /\ DOMAIN memory = Sides
    BY DEF MatrixInit, Fresh, Sides
<1>4. SidesAgree
    BY <1>3, FreshIsTried DEF SidesAgree, MatrixInit
<1>5. rows = <<>> /\ rows \in Seq(RowsNaming({})) /\ outcomes = <<>> /\ outcomes \in Seq(Verdicts)
    BY DEF MatrixInit
<1>6. MatrixTypes
    BY <1>2, <1>3, <1>5 DEF MatrixInit, MatrixTypes
<1>7. QED BY <1>4, <1>5, <1>6 DEF MatrixInit, MatrixInv, RowsHold, TotalsHold

\* What does not change with the queue.
LEMMA QueueKeeps ==
    ASSUME queue' = queue
    PROVE  /\ Pair' = Pair /\ Required' = Required
           /\ \A row : RowHolds(row)' <=> RowHolds(row)
    BY DEF Pair, Required, RowHolds, Has

LEMMA RefuseKeeps ==
    ASSUME MatrixInv, NEW name, rows' = <<Unsupported(name)>>, phase' \in {"answered", "settled"},
           UNCHANGED <<queue, attempt, memory, totals, outcomes>>
    PROVE  MatrixInv'
<1>1. PICK row : row = Unsupported(name)
    OBVIOUS
<1>2. row = [name |-> name, class |-> "unsupported-runtime", called |-> FALSE]
    BY <1>1 DEF Unsupported
<1>3. row \in RowsNaming({name}) /\ row.class = "unsupported-runtime"
    BY <1>2 DEF RowsNaming, RowClasses
<1>4. rows' = <<row>> /\ rows' \in Seq(RowsNaming({name})) /\ DOMAIN rows' = {1} /\ rows'[1] = row
    BY <1>1, <1>3
<1>5. MatrixTypes'
    BY <1>4 DEF MatrixInv, MatrixTypes
<1>6. SidesAgree' /\ TotalsHold'
    BY DEF MatrixInv, SidesAgree, TotalsHold
<1>7. RowsHold'
    BY <1>3, <1>4 DEF RowsHold, RowHolds
<1>8. QED BY <1>5, <1>6, <1>7 DEF MatrixInv

LEMMA InstantiateKeeps ==
    ASSUME MatrixInv, NEW side \in Sides, Instantiate(side)
    PROVE  MatrixInv'
<1> DEFINE m == Pair[side]
           n == attempt[side]
<1>1. CASE Refuse(side)
    BY <1>1, RefuseKeeps DEF Refuse
<1>2. CASE ~Refuse(side)
    <2>1. /\ phase = side /\ UNCHANGED <<queue, rows, totals, outcomes>>
          /\ memory' = IF Links(m.imports, n)
                       THEN [memory EXCEPT ![side] = (IF ImportsMemory(m) THEN memory[side] ELSE 0) + m.start.writes]
                       ELSE memory
          /\ attempt' = IF Up(m, n) THEN attempt ELSE [attempt EXCEPT ![side] = n + 1]
          /\ phase' = IF Up(m, n) THEN Loaded(side) ELSE phase
        BY <1>2 DEF Instantiate, Cell, Up
    <2>2. DOMAIN attempt = Sides /\ DOMAIN memory = Sides
        BY DEF MatrixInv, MatrixTypes
    <2>3. /\ DOMAIN attempt' = Sides /\ DOMAIN memory' = Sides
          /\ memory'[side] = Wrote(m, n, memory[side])
          /\ attempt'[side] = IF Up(m, n) THEN n ELSE n + 1
          /\ \A other \in Sides : other # side => memory'[other] = memory[other] /\ attempt'[other] = attempt[other]
        BY <2>1, <2>2 DEF Wrote
    <2>4. TriedOn(m, n, memory[side]) /\ m.start.writes \in Nat
        <3>1. PICK P : queue \in Seq(P) /\ queue # <<>> /\ \A p \in P : PairIsPlain(p)
            BY DEF MatrixInv, MatrixTypes
        <3>2. PairIsPlain(Pair)
            BY <3>1 DEF Pair
        <3>3. QED BY <2>1, <3>2 DEF Sides, PairIsPlain, MatrixInv, SidesAgree
    <2>5. /\ Up(m, n) => LoadedOn(m, n, memory'[side])
          /\ ~Up(m, n) => TriedOn(m, n + 1, memory'[side])
        BY <2>3, <2>4, TriesOn
    <2>6. Pair' = Pair /\ Required' = Required /\ \A row : RowHolds(row)' <=> RowHolds(row)
        BY <2>1, QueueKeeps
    <2>7. rows = <<>> /\ rows' = <<>>
        BY <2>1 DEF MatrixInv, RowsHold, Sides
    <2>8. phase' \in {"left", "right", "calls"}
        BY <2>1 DEF Loaded, Sides
    <2>9. MatrixTypes'
        BY <2>1, <2>3, <2>8 DEF MatrixInv, MatrixTypes
    <2>10. RowsHold' /\ TotalsHold'
        BY <2>1, <2>7, <2>8 DEF MatrixInv, RowsHold, TotalsHold
    <2>11. CASE side = "left"
        <3>1. TriedOn(Pair.right, attempt'["right"], memory'["right"])
            BY <2>1, <2>3, <2>11 DEF MatrixInv, SidesAgree, Sides
        <3>2. SidesAgree'
            BY <2>1, <2>3, <2>5, <2>6, <2>11, <3>1 DEF SidesAgree, Loaded
        <3>3. QED BY <2>9, <2>10, <3>2 DEF MatrixInv
    <2>12. CASE side = "right"
        <3>1. LoadedOn(Pair.left, attempt'["left"], memory'["left"])
            BY <2>1, <2>3, <2>12 DEF MatrixInv, SidesAgree, Sides
        <3>2. CASE Up(m, n)
            <4>1. Pair.left = Pair.right => attempt'["left"] = attempt'["right"] /\ memory'["left"] = memory'["right"]
                BY <2>3, <2>5, <2>12, <3>1, <3>2, LoadsAlike
            <4>2. phase' = "calls"
                BY <2>1, <2>12, <3>2 DEF Loaded
            <4>3. SidesAgree'
                BY <2>6, <4>1, <4>2 DEF SidesAgree
            <4>4. QED BY <2>9, <2>10, <4>3 DEF MatrixInv
        <3>3. CASE ~Up(m, n)
            <4>1. TriedOn(Pair.right, attempt'["right"], memory'["right"]) /\ phase' = "right"
                BY <2>1, <2>3, <2>5, <2>12, <3>3
            <4>2. SidesAgree'
                BY <2>6, <3>1, <4>1 DEF SidesAgree
            <4>3. QED BY <2>9, <2>10, <4>2 DEF MatrixInv
        <3>4. QED BY <3>2, <3>3
    <2>13. QED BY <2>11, <2>12 DEF Sides
<1>3. QED BY <1>1, <1>2

\* A sequence over a set is one over a larger set.
LEMMA SeqsGrow ==
    ASSUME NEW S, NEW T, S \subseteq T, NEW s \in Seq(S)
    PROVE  s \in Seq(T)
    OBVIOUS

\* One more row that holds.
LEMMA RowKeeps ==
    ASSUME MatrixInv, phase = "calls", UNCHANGED <<queue, phase, attempt, totals, outcomes>>,
           NEW row, rows' = Append(rows, row), RowHolds(row),
           NEW name \in Required, row.name = name, NEW class \in RowClasses, NEW called \in BOOLEAN,
           row = [name |-> name, class |-> class, called |-> called],
           DOMAIN memory' = Sides, Pair.left = Pair.right => memory'["left"] = memory'["right"]
    PROVE  MatrixInv'
<1>1. PICK S : rows \in Seq(RowsNaming(S))
    BY DEF MatrixInv, MatrixTypes
<1>2. RowsNaming(S) \subseteq RowsNaming(S \cup {name}) /\ row \in RowsNaming(S \cup {name})
    BY DEF RowsNaming
<1>3. rows \in Seq(RowsNaming(S \cup {name}))
    BY <1>1, <1>2, SeqsGrow
<1>4. rows' \in Seq(RowsNaming(S \cup {name})) /\ Len(rows') = Len(rows) + 1
      /\ \A i \in DOMAIN rows' : rows'[i] = row \/ (i \in DOMAIN rows /\ rows'[i] = rows[i])
    BY <1>2, <1>3
<1>5. Pair' = Pair /\ Required' = Required /\ \A r : RowHolds(r)' <=> RowHolds(r)
    BY QueueKeeps
<1>6. MatrixTypes'
    BY <1>4 DEF MatrixInv, MatrixTypes
<1>7. SidesAgree'
    BY <1>5 DEF MatrixInv, SidesAgree
<1>8. RowsHold'
    BY <1>4, <1>5 DEF MatrixInv, RowsHold
<1>9. QED BY <1>6, <1>7, <1>8 DEF MatrixInv, TotalsHold

\* An outcome is a matter of the module, its stubs, the export and the memory.
Gives(m, n, e, x) ==
    CASE e.does = "traps" -> "trap"
      [] e.does = "calls" -> IF Answers(m.imports, n, e.calls) THEN "zero" ELSE "trap"
      [] e.does \in {"reads", "writes"} -> IF x = 0 THEN "zero" ELSE IF x = 1 THEN "one" ELSE "more"
      [] e.does = "returns" -> "zero"
LEMMA OutcomeIsGiven ==
    ASSUME NEW side, NEW e, NEW cells
    PROVE  Outcome(side, e, cells) = Gives(Pair[side], attempt[side], e, cells[side])
    BY Zenon DEF Outcome, Gives, Cell

LEMMA NextExportKeeps ==
    ASSUME MatrixInv, NextExport
    PROVE  MatrixInv'
<1>1. phase = "calls" /\ UNCHANGED <<queue, phase, attempt, totals, outcomes>>
    BY DEF NextExport
<1>2. DOMAIN memory = Sides
      /\ (Pair.left = Pair.right => attempt["left"] = attempt["right"] /\ memory["left"] = memory["right"])
    BY <1>1 DEF MatrixInv, MatrixTypes, SidesAgree
<1>3. ASSUME NEW name \in Required, NEW class \in RowClasses, Uncalled(name, class),
             class # "unsupported-runtime" => class = "semantic-mismatch" /\ Pair.left # Pair.right
      PROVE  MatrixInv'
    <2>1. PICK row : row = [name |-> name, class |-> class, called |-> FALSE]
        OBVIOUS
    <2>2. row.name = name /\ row.class = class /\ rows' = Append(rows, row) /\ memory' = memory
        BY <1>3, <2>1 DEF Uncalled
    <2>3. RowHolds(row)
        BY <1>3, <2>2 DEF RowHolds
    <2>4. QED BY <1>1, <1>2, <2>1, <2>2, <2>3, RowKeeps
<1>4. PICK name \in Required \ Seen :
        IF ~(Has("left", name) /\ Has("right", name)) THEN Uncalled(name, "semantic-mismatch")
        ELSE LET l == The("left", name) r == The("right", name) IN
            IF Invoked >= MaxInvocations \/ "unknown" \in {l.signature, r.signature} THEN Uncalled(name, "unsupported-runtime")
            ELSE IF l.signature # r.signature THEN Uncalled(name, "semantic-mismatch")
            ELSE IF Callable(l, r) THEN Call(name) ELSE Uncalled(name, "unsupported-runtime")
    BY DEF NextExport
<1>5. "unsupported-runtime" \in RowClasses /\ "semantic-mismatch" \in RowClasses
    BY DEF RowClasses
<1>6. CASE ~(Has("left", name) /\ Has("right", name))
    <2>1. Pair.left # Pair.right
        <3>1. SUFFICES ASSUME Pair.left = Pair.right PROVE FALSE
            OBVIOUS
        <3>2. PICK e \in Pair.left.exports : e.name = name
            BY <3>1 DEF Required
        <3>3. QED BY <1>6, <3>1, <3>2 DEF Has, ExportOf
    <2>2. QED BY <1>3, <1>4, <1>5, <1>6, <2>1
<1>7. CASE Has("left", name) /\ Has("right", name)
    <2>1. PICK l, r : l = The("left", name) /\ r = The("right", name)
        OBVIOUS
    <2>2. Pair.left = Pair.right => l = r
        BY <2>1 DEF The
    <2>3. CASE Uncalled(name, "unsupported-runtime")
        BY <1>3, <1>5, <2>3
    <2>4. CASE Uncalled(name, "semantic-mismatch") /\ l.signature # r.signature
        BY <1>3, <1>5, <2>2, <2>4
    <2>5. CASE Call(name)
        <3>1. PICK c, d, between : c = Outcome("left", l, memory) /\ d = Outcome("right", r, between)
                                   /\ between = After("left", l, memory)
            OBVIOUS
        <3>2. PICK row : row = [name |-> name, class |-> Class(c, d), called |-> TRUE]
            OBVIOUS
        <3>3. rows' = Append(rows, row) /\ memory' = After("right", r, between)
            BY <2>1, <2>5, <3>1, <3>2 DEF Call
        <3>4. Class(c, d) \in {"semantic-mismatch", "equal-trap", "equal-result"} /\ Class(c, d) \in RowClasses
            BY DEF Class, RowClasses
        <3>5. DOMAIN between = Sides /\ between["right"] = memory["right"]
              /\ between["left"] = IF l.does = "writes" THEN memory["left"] + 1 ELSE memory["left"]
            BY <1>2, <3>1 DEF After, Cell, Sides
        <3>6. DOMAIN memory' = Sides /\ memory'["left"] = between["left"]
              /\ memory'["right"] = IF r.does = "writes" THEN between["right"] + 1 ELSE between["right"]
            BY <3>3, <3>5 DEF After, Cell, Sides
        <3>7. ASSUME Pair.left = Pair.right PROVE c = d /\ memory'["left"] = memory'["right"]
            <4>1. l = r /\ memory["left"] = between["right"] /\ attempt["left"] = attempt["right"]
                BY <1>2, <2>2, <3>5, <3>7
            <4>2. Pair["left"] = Pair["right"]
                BY <3>7
            <4>3. c = d
                BY <3>1, <4>1, <4>2, OutcomeIsGiven
            <4>4. QED BY <3>5, <3>6, <4>1, <4>3
        <3>8. row.name = name /\ row.class = Class(c, d)
            BY <3>2
        <3>9. RowHolds(row)
            BY <1>7, <3>4, <3>7, <3>8 DEF RowHolds, Class
        <3>10. QED BY <1>1, <3>2, <3>3, <3>4, <3>6, <3>7, <3>8, <3>9, RowKeeps
    <2>6. QED BY <1>4, <1>7, <2>1, <2>3, <2>4, <2>5
<1>8. QED BY <1>6, <1>7

LEMMA AnswersKeep ==
    ASSUME MatrixInv, \/ Reported
                      \/ Settle
    PROVE  MatrixInv'
<1>1. UNCHANGED <<queue, attempt, memory, rows, totals, outcomes>> /\ phase' \in {"answered", "settled"}
    BY DEF Reported, Settle
<1>2. Pair' = Pair /\ Required' = Required /\ \A row : RowHolds(row)' <=> RowHolds(row)
    BY <1>1, QueueKeeps
<1>3. Required \subseteq Seen \/ \E i \in DOMAIN rows : rows[i].class = "unsupported-runtime"
    BY DEF Reported, Settle, MatrixInv, RowsHold
<1>4. Seen' = Seen
    BY <1>1 DEF Seen
<1>5. RowsHold'
    BY <1>1, <1>2, <1>3, <1>4 DEF MatrixInv, RowsHold
<1>6. QED BY <1>1, <1>5 DEF MatrixInv, MatrixTypes, SidesAgree, TotalsHold

LEMMA CountsOfRows ==
    ASSUME MatrixInv, NEW classes
    PROVE  /\ CountOf(classes) \in Nat
           /\ CountOf(classes) = 0 <=> \A i \in DOMAIN rows : rows[i].class \notin classes
<1> DEFINE Found == {i \in DOMAIN rows : rows[i].class \in classes}
<1>1. PICK S : rows \in Seq(RowsNaming(S))
    BY DEF MatrixInv, MatrixTypes
<1>2. DOMAIN rows = 1..Len(rows) /\ Len(rows) \in Nat
    BY <1>1
<1>3. IsFiniteSet(1..Len(rows))
    BY <1>2, FS_Interval
<1>4. IsFiniteSet(Found)
    BY <1>2, <1>3, FS_Subset
<1>5. Cardinality(Found) \in Nat /\ (Cardinality(Found) = 0 <=> Found = {})
    BY <1>4, FS_CardinalityType, FS_EmptySet
<1>6. QED BY <1>5 DEF CountOf

LEMMA RestOfQueue ==
    ASSUME NEW P, NEW q \in Seq(P), q # <<>>, Len(q) # 1
    PROVE  Tail(q) \in Seq(P) /\ Tail(q) # <<>>
<1>1. Len(q) \in Nat /\ Len(q) # 0
    OBVIOUS
<1>2. Len(Tail(q)) = Len(q) - 1 /\ Tail(q) \in Seq(P)
    BY <1>1
<1>3. Len(Tail(q)) # 0
    BY <1>1, <1>2
<1>4. Tail(q) # <<>>
    <2>1. Len(<<>>) = 0
        OBVIOUS
    <2>2. QED BY <1>3, <2>1, Zenon
<1>5. QED BY <1>2, <1>4

LEMMA NoteKeeps ==
    ASSUME MatrixInv, Note
    PROVE  MatrixInv'
<1>1. PICK S, P : /\ rows \in Seq(RowsNaming(S)) /\ queue \in Seq(P) /\ queue # <<>>
                 /\ \A p \in P : PairIsPlain(p)
    BY DEF MatrixInv, MatrixTypes
<1>2. Len(rows) \in Nat /\ DOMAIN rows = 1..Len(rows)
    BY <1>1
<1>3. PICK b \in Nat, m \in Nat :
        /\ b = CountOf({"unsupported-runtime"}) /\ m = CountOf({"semantic-mismatch"})
        /\ m > 0 => Len(rows) > 0
    <2>1. CountOf({"semantic-mismatch"}) # 0 => Len(rows) # 0
        BY <1>2, CountsOfRows
    <2>2. QED BY <1>2, <2>1, CountsOfRows
<1>4. Summary = [total |-> Len(rows), blocked |-> b, mismatched |-> m]
    BY <1>3 DEF Summary
<1>5. PICK t \in Nat, c \in Nat, d \in Nat : totals.summary = [total |-> t, blocked |-> c, mismatched |-> d]
    BY DEF MatrixInv, MatrixTypes
<1>6. PICK sum : sum = [total |-> t + Len(rows), blocked |-> c + b, mismatched |-> d + m]
    OBVIOUS
<1>7. totals' = [summary |-> sum, outcome |-> IF totals.outcome = "semantic-mismatch" THEN totals.outcome ELSE Classified(sum)]
      /\ outcomes' = Append(outcomes, Classified(Summary))
    <2>1. [f \in DOMAIN totals.summary |-> totals.summary[f] + Summary[f]] = sum
        <3>1. DOMAIN totals.summary = {"total", "blocked", "mismatched"}
            BY <1>5
        <3>2. /\ totals.summary["total"] + Summary["total"] = sum["total"]
              /\ totals.summary["blocked"] + Summary["blocked"] = sum["blocked"]
              /\ totals.summary["mismatched"] + Summary["mismatched"] = sum["mismatched"]
            BY <1>4, <1>5, <1>6
        <3>3. sum = [f \in {"total", "blocked", "mismatched"} |-> sum[f]]
            BY <1>6
        <3>4. QED BY <3>1, <3>2, <3>3
    <2>2. QED BY <2>1 DEF Note
<1>8. Classified(sum) \in Verdicts /\ Classified(Summary) \in Verdicts
    BY DEF Classified, Verdicts
<1>9. sum \in [total : Nat, blocked : Nat, mismatched : Nat] /\ sum.total = t + Len(rows) /\ sum.blocked = c + b
      /\ sum.mismatched = d + m
    BY <1>2, <1>6
<1>10. outcomes \in Seq(Verdicts) /\ totals.outcome \in Verdicts \cup {"not-run"}
    BY DEF MatrixInv, MatrixTypes
<1>11. outcomes' \in Seq(Verdicts)
       /\ \A i \in DOMAIN outcomes' : outcomes'[i] = Classified(Summary) \/ (i \in DOMAIN outcomes /\ outcomes'[i] = outcomes[i])
    BY <1>7, <1>8, <1>10
<1>12. Classified(Summary) = "semantic-mismatch" => Classified(sum) = "semantic-mismatch"
    BY <1>2, <1>3, <1>4, <1>9 DEF Classified
<1>13. Classified(sum) = "all-equal" => sum.blocked = 0
    BY <1>9 DEF Classified
<1>14. TotalsHold'
    <2>1. totals'.summary = sum
          /\ totals'.outcome = IF totals.outcome = "semantic-mismatch" THEN totals.outcome ELSE Classified(sum)
        BY <1>7
    <2>2. QED BY <1>11, <1>12, <1>13, <2>1 DEF MatrixInv, TotalsHold
<1>15. totals' \in [summary : [total : Nat, blocked : Nat, mismatched : Nat], outcome : Verdicts \cup {"not-run"}]
    BY <1>7, <1>8, <1>9, <1>10
<1>16. queue' \in Seq(P) /\ queue' # <<>> /\ phase' \in {"left", "over"}
    <2>1. CASE Len(queue) = 1
        BY <1>1, <2>1 DEF Note
    <2>2. CASE Len(queue) # 1
        <3>1. queue' = Tail(queue) /\ phase' = "left"
            BY <2>2 DEF Note
        <3>2. QED BY <1>1, <2>2, <3>1, RestOfQueue
    <2>3. QED BY <2>1, <2>2
<1>17. attempt' = Fresh /\ memory' = Fresh /\ rows' = <<>>
    BY DEF Note
<1>18. attempt'["left"] = 0 /\ attempt'["right"] = 0 /\ memory'["left"] = 0 /\ memory'["right"] = 0
       /\ DOMAIN attempt' = Sides /\ DOMAIN memory' = Sides
    BY <1>17 DEF Fresh, Sides
<1>19. SidesAgree'
    BY <1>16, <1>18, FreshIsTried DEF SidesAgree
<1>20. rows' \in Seq(RowsNaming({}))
    BY <1>17
<1>21. MatrixTypes'
    BY <1>1, <1>11, <1>15, <1>16, <1>18, <1>20 DEF MatrixTypes
<1>22. RowsHold'
    BY <1>16, <1>17 DEF RowsHold
<1>23. QED BY <1>14, <1>19, <1>21, <1>22 DEF MatrixInv

LEMMA MatrixKeeps == MatrixInv /\ [MatrixNext]_matrixVars => MatrixInv'
<1> SUFFICES ASSUME MatrixInv, [MatrixNext]_matrixVars PROVE MatrixInv'
    OBVIOUS
<1>1. CASE Blocked
    BY <1>1, RefuseKeeps DEF Blocked
<1>2. CASE UNCHANGED matrixVars
    <2>1. Pair' = Pair /\ Required' = Required /\ \A row : RowHolds(row)' <=> RowHolds(row)
        BY <1>2, QueueKeeps DEF matrixVars
    <2>2. Seen' = Seen
        BY <1>2 DEF Seen, matrixVars
    <2>3. RowsHold'
        BY <1>2, <2>1, <2>2 DEF MatrixInv, RowsHold, matrixVars
    <2>4. QED BY <1>2, <2>3 DEF MatrixInv, MatrixTypes, SidesAgree, TotalsHold, Pair, matrixVars
<1>3. QED BY <1>1, <1>2, InstantiateKeeps, NextExportKeeps, AnswersKeep, NoteKeeps DEF MatrixNext

LEMMA MatrixHolds == MatrixInv => MatrixBlameIsEarned /\ AllEqualIsComplete
<1> SUFFICES ASSUME MatrixInv PROVE MatrixBlameIsEarned /\ AllEqualIsComplete
    OBVIOUS
<1>1. MatrixBlameIsEarned
    BY DEF MatrixInv, RowsHold, RowHolds, MatrixBlameIsEarned
<1>2. ASSUME phase = "settled", Classified(Summary) = "all-equal"
      PROVE  Seen = Required /\ \A name \in Required : Has("left", name) /\ Has("right", name)
    <2>1. PICK S : rows \in Seq(RowsNaming(S))
        BY DEF MatrixInv, MatrixTypes
    <2>2. Summary.mismatched = CountOf({"semantic-mismatch"}) /\ Summary.blocked = CountOf({"unsupported-runtime"})
        BY DEF Summary
    <2>3. CountOf({"semantic-mismatch"}) = 0 /\ CountOf({"unsupported-runtime"}) = 0
        BY <1>2, <2>2, CountsOfRows DEF Classified
    <2>4. \A i \in DOMAIN rows : rows[i].class # "semantic-mismatch" /\ rows[i].class # "unsupported-runtime"
        BY <2>3, CountsOfRows
    <2>5. \A i \in DOMAIN rows : rows[i].name \in Required /\ Has("left", rows[i].name) /\ Has("right", rows[i].name)
        BY <2>4 DEF MatrixInv, RowsHold, RowHolds
    <2>6. Required \subseteq Seen
        BY <1>2, <2>4 DEF MatrixInv, RowsHold
    <2>7. Seen \subseteq Required
        BY <2>5 DEF Seen
    <2>8. \A name \in Seen : Has("left", name) /\ Has("right", name)
        BY <2>5 DEF Seen
    <2>9. QED BY <2>6, <2>7, <2>8
<1>3. ASSUME totals.outcome = "all-equal"
      PROVE  "semantic-mismatch" \notin {outcomes[i] : i \in DOMAIN outcomes} /\ totals.summary.blocked = 0
    BY <1>3 DEF MatrixInv, TotalsHold
<1>4. QED BY <1>1, <1>2, <1>3 DEF AllEqualIsComplete

-----------------------------------------------------------------------------
(* The first self-semantic oracle *)

CallOutcomes ==
    [kind : {"return", "trap", "unsupported"},
     value : {"zero", "one", "more", "nan", "nan'", "unreachable", "divides", "missing"}]
Observations ==
    [kind : {"none", "trap", "unsupported", "instantiated", "tool-failure"}, calls : Seq(CallOutcomes),
     state : Nat, trace : Nat]

KindOf(m) == IF m.start = "traps" THEN "trap" ELSE IF m.start = "unlinked" THEN "unsupported" ELSE "instantiated"
PlannedDeed(m, i) == (CHOOSE e \in Called(m, plan[i]) : TRUE).does

\* What is left after each of the calls of a plan.
LeftStates == [state : Nat, trace : Nat]
LeftAtFirst(m) == [state |-> IF m.start = "writes" THEN 1 ELSE 0, trace |-> 0]
LeftNext(m, i, s) ==
    IF Called(m, plan[i]) = {} THEN s
    ELSE [state |-> s.state + Writes(PlannedDeed(m, i)), trace |-> s.trace + Asks(PlannedDeed(m, i))]
LeftAlong(m, k) ==
    {f \in [0..k -> LeftStates] : f[0] = LeftAtFirst(m) /\ \A i \in 1..k : f[i] = LeftNext(m, i, f[i - 1])}

CallGives(m, i, s, c) ==
    IF Called(m, plan[i]) = {} THEN c = NoFunction ELSE c \in Outcomes(PlannedDeed(m, i), s.state)
RanSo(m, o, f) ==
    /\ f \in LeftAlong(m, Len(o.calls)) /\ o.trace = f[Len(o.calls)].trace
    /\ \A i \in 1..Len(o.calls) : CallGives(m, i, f[i - 1], o.calls[i])

\* A module whose exports are told apart, which do what an export may.
ModuleIsPlain(m) ==
    /\ m.shows \in BOOLEAN
    /\ \A i \in DOMAIN m.exports : m.exports[i].does \in Doing
    /\ \A i, j \in DOMAIN m.exports : m.exports[i].name = m.exports[j].name => i = j

\* The worker of a module, and what it has shown when it is over.
AtWork(m) ==
    /\ observed \in Observations /\ observed.state = 0
    /\ observed.kind # "none" => observed.kind = KindOf(m)
    /\ observed.kind = "instantiated" => \E f : RanSo(m, observed, f) /\ cell = f[Len(observed.calls)].state
    /\ observed.kind # "instantiated" => observed.calls = <<>> /\ observed.trace = 0
HasShown(m, o) ==
    /\ o \in Observations
    /\ o.kind # "tool-failure" => o.kind = KindOf(m)
    /\ o.kind = "instantiated" =>
        /\ Len(o.calls) = Len(plan)
        /\ \E f : RanSo(m, o, f) /\ o.state = IF m.shows THEN f[Len(o.calls)].state + 1 ELSE 0
    /\ o.kind # "instantiated" => o.calls = <<>> /\ o.trace = 0 /\ o.state = 0

SelfInv ==
    /\ ModuleIsPlain(selfPair.before) /\ ModuleIsPlain(selfPair.after)
    /\ running \in {"before", "after", "compared"} /\ DOMAIN shown = {"before", "after"}
    /\ running = "before" => AtWork(selfPair.before)
    /\ running = "after" => AtWork(selfPair.after)
    /\ running # "before" => HasShown(selfPair.before, shown["before"])
    /\ running = "compared" => HasShown(selfPair.after, shown["after"])
    /\ judged # "none" => running = "compared" /\ judged = ClassOf(shown.before, shown.after)

LEMMA SelfStarts == SelfInit => SelfInv
<1> SUFFICES ASSUME SelfInit PROVE SelfInv
    OBVIOUS
<1>1. PICK p \in SelfPairs : selfPair.before = p.before /\ selfPair.after = p.after
    BY DEF SelfInit
<1>2. ModuleIsPlain(selfPair.before) /\ ModuleIsPlain(selfPair.after)
    BY <1>1, SelfOracleAssumption DEF ModuleIsPlain
<1>3. AtWork(selfPair.before)
    BY DEF SelfInit, AtWork, Observations, Nothing
<1>4. QED BY <1>2, <1>3 DEF SelfInit, SelfInv

LEMMA ExportOfAName ==
    ASSUME NEW m, ModuleIsPlain(m), NEW i, Called(m, plan[i]) # {}
    PROVE  /\ PlannedDeed(m, i) \in Doing
           /\ \A e \in Called(m, plan[i]) : e.does = PlannedDeed(m, i)
           /\ \E e \in Exports(m) : e.does = PlannedDeed(m, i)
<1> DEFINE c == CHOOSE e \in Called(m, plan[i]) : TRUE
<1>1. c \in Called(m, plan[i])
    OBVIOUS
<1>2. PlannedDeed(m, i) = c.does
    BY DEF PlannedDeed
<1> HIDE DEF c
<1>3. PICK j \in DOMAIN m.exports : c = m.exports[j] /\ c.name = plan[i]
    BY <1>1 DEF Called, Exports
<1>4. ASSUME NEW e \in Called(m, plan[i]) PROVE e = c
    <2>1. PICK k \in DOMAIN m.exports : e = m.exports[k] /\ e.name = plan[i]
        BY DEF Called, Exports
    <2>2. QED BY <1>3, <2>1 DEF ModuleIsPlain
<1>5. QED BY <1>2, <1>3, <1>4 DEF ModuleIsPlain, Exports

LEMMA OutcomesAreOfKinds ==
    ASSUME NEW does \in Doing, NEW state, NEW c \in Outcomes(does, state)
    PROVE  c \in CallOutcomes
    BY DEF Outcomes, Doing, CallOutcomes, Returned, Trapped, NaNs

LEMMA ObservationCalls ==
    ASSUME NEW o \in Observations, NEW c \in Seq(CallOutcomes)
    PROVE  [o EXCEPT !.calls = c] = [kind |-> o.kind, calls |-> c, state |-> o.state, trace |-> o.trace]
    BY DEF Observations

LEMMA ObservationGrows ==
    ASSUME NEW o \in Observations, NEW c \in Seq(CallOutcomes), NEW t \in Nat
    PROVE  [o EXCEPT !.calls = c, !.trace = t] = [kind |-> o.kind, calls |-> c, state |-> o.state, trace |-> t]
<1>1. ASSUME NEW p, p = [o EXCEPT !.calls = c]
      PROVE  [p EXCEPT !.trace = t] = [kind |-> o.kind, calls |-> c, state |-> o.state, trace |-> t]
    <2>1. p = [kind |-> o.kind, calls |-> c, state |-> o.state, trace |-> o.trace]
        BY <1>1 DEF Observations
    <2>2. p \in Observations /\ p.kind = o.kind /\ p.calls = c /\ p.state = o.state
        BY <2>1 DEF Observations
    <2>3. [p EXCEPT !.trace = t] = [kind |-> p.kind, calls |-> p.calls, state |-> p.state, trace |-> t]
        BY <2>2 DEF Observations
    <2>4. QED BY <2>2, <2>3
<1>2. QED BY <1>1, Zenon

\* A worker that goes on has called one more.
LEMMA CallLengthens ==
    ASSUME NEW m, ModuleIsPlain(m), AtWork(m), observed.kind = "instantiated",
           NEW call \in CallOutcomes, NEW asks \in Nat, NEW writes \in Nat,
           observed' = [kind |-> observed.kind, calls |-> Append(observed.calls, call), state |-> observed.state,
                        trace |-> observed.trace + asks],
           cell' = cell + writes,
           plan' = plan,
           LET i == Len(observed.calls) + 1 IN
            /\ Called(m, plan[i]) = {} => call = NoFunction /\ asks = 0 /\ writes = 0
            /\ Called(m, plan[i]) # {} =>
                /\ call \in Outcomes(PlannedDeed(m, i), cell)
                /\ asks = Asks(PlannedDeed(m, i)) /\ writes = Writes(PlannedDeed(m, i))
    PROVE  AtWork(m)'
<1>1. observed \in Observations /\ Len(observed.calls) \in Nat /\ observed.calls \in Seq(CallOutcomes) /\ observed.trace \in Nat
    BY DEF AtWork, Observations
<1>2. PICK n \in Nat : n = Len(observed.calls)
    BY <1>1
<1>3. PICK f : RanSo(m, observed, f) /\ cell = f[n].state
    BY <1>2 DEF AtWork
<1>4. /\ f \in [0..n -> LeftStates] /\ f[0] = LeftAtFirst(m) /\ \A i \in 1..n : f[i] = LeftNext(m, i, f[i - 1])
      /\ observed.trace = f[n].trace /\ \A i \in 1..n : CallGives(m, i, f[i - 1], observed.calls[i])
    BY <1>2, <1>3 DEF RanSo, LeftAlong
<1>5. f[n] \in LeftStates
    BY <1>2, <1>4
<1>6. PICK s : s = LeftNext(m, n + 1, f[n])
    OBVIOUS
<1>7. s \in LeftStates /\ s.state = cell + writes /\ s.trace = observed.trace + asks
    <2>1. CASE Called(m, plan[n + 1]) = {}
        BY <1>2, <1>3, <1>4, <1>5, <1>6, <2>1 DEF LeftNext, LeftStates
    <2>2. CASE Called(m, plan[n + 1]) # {}
        BY <1>2, <1>3, <1>4, <1>5, <1>6, <2>2, SMTT(40) DEF LeftNext, LeftStates
    <2>3. QED BY <2>1, <2>2
<1>8. PICK cs \in Seq(CallOutcomes) : cs = Append(observed.calls, call)
    <2>1. \A q \in Seq(CallOutcomes) : Append(q, call) \in Seq(CallOutcomes)
        OBVIOUS
    <2>2. QED BY <1>1, <2>1
<1>9. Len(cs) = n + 1 /\ cs[n + 1] = call /\ \A i \in 1..n : cs[i] = observed.calls[i]
    BY <1>1, <1>2, <1>8
<1>10. observed' = [kind |-> observed.kind, calls |-> cs, state |-> observed.state, trace |-> observed.trace + asks]
    BY <1>1, <1>8 DEF Observations
<1>11. observed' \in Observations /\ observed'.calls = cs /\ observed'.trace = observed.trace + asks
       /\ observed'.kind = observed.kind /\ observed'.state = observed.state
    BY <1>1, <1>10 DEF Observations
<1>12. PICK g \in [0..(n + 1) -> LeftStates] : g[n + 1] = s /\ \A i \in 0..n : g[i] = f[i]
    <2> DEFINE v(i) == IF i = n + 1 THEN s ELSE f[i]
               h == [i \in 0..(n + 1) |-> v(i)]
    <2>0. \A i \in 0..(n + 1) : v(i) \in LeftStates /\ h[i] = v(i)
        <3>1. ASSUME NEW i \in 0..(n + 1) PROVE v(i) \in LeftStates
            <4>1. i = n + 1 \/ i \in 0..n
                OBVIOUS
            <4>2. QED BY <1>4, <1>7, <4>1
        <3>2. QED BY <3>1
    <2>3. n + 1 \in 0..(n + 1) /\ \A i \in 0..n : i \in 0..(n + 1) /\ i # n + 1
        OBVIOUS
    <2>1. h \in [0..(n + 1) -> LeftStates] /\ h[n + 1] = s /\ \A i \in 0..n : h[i] = f[i]
        <3>1. h \in [0..(n + 1) -> LeftStates]
            BY <2>0
        <3>2. QED BY <2>0, <2>3, <3>1
    <2>2. QED BY <2>1
<1>13. \A i \in 1..(n + 1) : g[i] = LeftNext(m, i, g[i - 1]) /\ CallGives(m, i, g[i - 1], cs[i])
    <2> SUFFICES ASSUME NEW i \in 1..(n + 1) PROVE g[i] = LeftNext(m, i, g[i - 1]) /\ CallGives(m, i, g[i - 1], cs[i])
        OBVIOUS
    <2>1. CASE i = n + 1
        <3>1. i - 1 = n /\ n \in 0..n /\ g[i - 1] = f[n]
            BY <1>12, <2>1
        <3>2. QED BY <1>2, <1>3, <1>6, <1>9, <1>12, <2>1, <3>1 DEF CallGives
    <2>2. CASE i # n + 1
        <3>1. i \in 1..n /\ i \in 0..n /\ i - 1 \in 0..n
            BY <2>2
        <3>2. QED BY <1>4, <1>9, <1>12, <3>1
    <2>3. QED BY <2>1, <2>2
<1>14. \A i, x, c : LeftNext(m, i, x)' = LeftNext(m, i, x) /\ CallGives(m, i, x, c)' = CallGives(m, i, x, c)
    BY DEF LeftNext, CallGives, PlannedDeed
<1>15. 0 \in 0..n /\ g[0] = LeftAtFirst(m)
    BY <1>4, <1>12
<1>16. RanSo(m, observed, g)'
    BY <1>7, <1>9, <1>11, <1>12, <1>13, <1>14, <1>15 DEF RanSo, LeftAlong
<1>17. cell' = g[Len(observed'.calls)].state
    BY <1>7, <1>9, <1>11, <1>12
<1>18. observed' \in Observations /\ observed'.state = 0 /\ observed'.kind = "instantiated"
       /\ observed'.kind = KindOf(m)
    BY <1>11 DEF AtWork
<1>19. QED BY <1>16, <1>17, <1>18 DEF AtWork

LEMMA SelfCallKeeps ==
    ASSUME NEW m, ModuleIsPlain(m), AtWork(m), SelfCall, Module = m
    PROVE  AtWork(m)'
<1> DEFINE i == Len(observed.calls) + 1
<1>1. observed.kind = "instantiated" /\ plan' = plan /\ observed \in Observations
      /\ observed.calls \in Seq(CallOutcomes) /\ cell \in Nat /\ observed.trace \in Nat
    <2>1. observed.kind = "instantiated" /\ observed \in Observations /\ plan' = plan
        BY DEF AtWork, SelfCall
    <2>2. observed.calls \in Seq(CallOutcomes) /\ observed.trace \in Nat
        BY <2>1 DEF Observations
    <2>3. PICK f : RanSo(m, observed, f) /\ cell = f[Len(observed.calls)].state
        BY <2>1 DEF AtWork
    <2>4. PICK n \in Nat : n = Len(observed.calls)
        BY <2>2
    <2>5. n \in 0..n /\ f \in [0..n -> LeftStates]
        BY <2>3, <2>4 DEF RanSo, LeftAlong
    <2>6. cell \in Nat
        BY <2>3, <2>4, <2>5 DEF LeftStates
    <2>7. QED BY <2>1, <2>2, <2>6
<1>2. CASE Called(m, plan[i]) = {}
    <2>1. observed' = [observed EXCEPT !.calls = Append(@, NoFunction)] /\ cell' = cell
        BY <1>2 DEF SelfCall
    <2>2. NoFunction \in CallOutcomes
        BY DEF NoFunction, CallOutcomes
    <2>3. observed' = [kind |-> observed.kind, calls |-> Append(observed.calls, NoFunction), state |-> observed.state,
                       trace |-> observed.trace + 0]
        <3>1. Append(observed.calls, NoFunction) \in Seq(CallOutcomes)
            BY <1>1, <2>2
        <3>2. PICK cs : cs = Append(observed.calls, NoFunction)
            OBVIOUS
        <3>3. observed' = [kind |-> observed.kind, calls |-> cs, state |-> observed.state, trace |-> observed.trace]
            <4>1. observed' = [observed EXCEPT !.calls = cs]
                BY <2>1, <3>2, Zenon
            <4>2. QED BY <1>1, <3>1, <3>2, <4>1, ObservationCalls
        <3>4. observed.trace + 0 = observed.trace
            BY <1>1
        <3>5. QED BY <3>2, <3>3, <3>4
    <2>4. cell' = cell + 0
        BY <1>1, <2>1
    <2>5. QED BY <1>1, <1>2, <2>2, <2>3, <2>4, CallLengthens
<1>3. CASE Called(m, plan[i]) # {}
    <2>0. PICK e \in Called(m, plan[i]) : \E result \in Outcomes(e.does, cell) :
            /\ observed' = [observed EXCEPT !.calls = Append(@, result), !.trace = @ + Asks(e.does)]
            /\ cell' = cell + Writes(e.does)
        BY <1>3 DEF SelfCall
    <2>1. PICK result \in Outcomes(e.does, cell) :
            /\ observed' = [observed EXCEPT !.calls = Append(@, result), !.trace = @ + Asks(e.does)]
            /\ cell' = cell + Writes(e.does)
        BY <2>0
    <2>2. e.does = PlannedDeed(m, i) /\ PlannedDeed(m, i) \in Doing
        BY <1>3, ExportOfAName
    <2>3. result \in CallOutcomes
        BY <2>2, OutcomesAreOfKinds
    <2>4. Asks(e.does) \in Nat /\ Writes(e.does) \in Nat
        BY DEF Asks, Writes
    <2>5. Append(observed.calls, result) \in Seq(CallOutcomes)
        BY <1>1, <2>3
    <2>6. observed.trace + Asks(e.does) \in Nat
        BY <1>1, <2>4
    <2>7. observed' = [kind |-> observed.kind, calls |-> Append(observed.calls, result), state |-> observed.state,
                       trace |-> observed.trace + Asks(e.does)]
        BY <1>1, <2>1, <2>5, <2>6, ObservationGrows
    <2>8. QED BY <1>1, <1>3, <2>1, <2>2, <2>3, <2>4, <2>7, CallLengthens
<1>4. QED BY <1>2, <1>3

LEMMA SelfInstantiateKeeps ==
    ASSUME NEW m, ModuleIsPlain(m), AtWork(m), SelfInstantiate, Module = m
    PROVE  AtWork(m)'
<1>1. observed \in Observations /\ observed.kind = "none" /\ observed.calls = <<>> /\ observed.trace = 0
      /\ observed.state = 0 /\ plan' = plan
    BY DEF AtWork, SelfInstantiate
<1>2. observed' = [kind |-> KindOf(m), calls |-> <<>>, state |-> 0, trace |-> 0]
    BY <1>1 DEF SelfInstantiate, Observations, KindOf
<1>3. cell' = IF m.start = "writes" THEN 1 ELSE 0
    BY DEF SelfInstantiate, FreshInstance
<1>4. observed' \in Observations /\ Len(observed'.calls) = 0 /\ KindOf(m) \in {"trap", "unsupported", "instantiated"}
    BY <1>2 DEF Observations, KindOf
<1>5. PICK f : f = [i \in 0..0 |-> LeftAtFirst(m)]
    OBVIOUS
<1>6. f \in [0..0 -> LeftStates] /\ f[0] = LeftAtFirst(m)
    BY <1>5 DEF LeftAtFirst, LeftStates
<1>7. RanSo(m, observed, f)'
    BY <1>2, <1>4, <1>6 DEF RanSo, LeftAlong, LeftAtFirst
<1>8. cell' = f[Len(observed'.calls)].state
    BY <1>3, <1>4, <1>6 DEF LeftAtFirst
<1>9. QED BY <1>2, <1>4, <1>7, <1>8 DEF AtWork

LEMMA FailureIsShown ==
    ASSUME NEW m PROVE HasShown(m, ToolFailure)
<1>1. ToolFailure = [kind |-> "tool-failure", calls |-> <<>>, state |-> 0, trace |-> 0]
    BY DEF ToolFailure, Nothing
<1>2. QED BY <1>1 DEF HasShown, Observations

LEMMA MessageShows ==
    ASSUME NEW m, ModuleIsPlain(m), AtWork(m), Message, Module = m
    PROVE  HasShown(m, Observation)
<1>1. observed \in Observations /\ observed.kind # "none" /\ observed.kind = KindOf(m)
    BY DEF AtWork, Message
<1>2. CASE observed.kind # "instantiated"
    BY <1>1, <1>2 DEF AtWork, HasShown, Observation
<1>3. CASE observed.kind = "instantiated"
    <2>1. PICK f : RanSo(m, observed, f) /\ cell = f[Len(observed.calls)].state
        BY <1>3 DEF AtWork
    <2>2. cell \in Nat
        BY <1>1, <2>1 DEF RanSo, LeftAlong, LeftStates, Observations
    <2> DEFINE left == IF m.shows THEN cell + 1 ELSE 0
    <2>3. left \in Nat /\ left = IF m.shows THEN f[Len(observed.calls)].state + 1 ELSE 0
        BY <2>1, <2>2
    <2>4. Observation = [observed EXCEPT !.state = left]
        BY <1>3 DEF Observation
    <2> HIDE DEF left
    <2>5. Observation = [kind |-> observed.kind, calls |-> observed.calls, state |-> left, trace |-> observed.trace]
        BY <1>1, <2>3, <2>4 DEF Observations
    <2>6. /\ Observation \in Observations /\ Observation.kind = observed.kind /\ Observation.calls = observed.calls
          /\ Observation.state = left /\ Observation.trace = observed.trace
        BY <1>1, <2>3, <2>5 DEF Observations
    <2>7. RanSo(m, Observation, f)
        BY <2>1, <2>6 DEF RanSo
    <2>8. Len(observed.calls) = Len(plan)
        BY <1>3 DEF Message
    <2>9. QED BY <1>1, <1>3, <2>3, <2>6, <2>7, <2>8 DEF HasShown
<1>4. QED BY <1>2, <1>3

LEMMA HasShownStays ==
    ASSUME NEW m, NEW o, HasShown(m, o), plan' = plan
    PROVE  HasShown(m, o)'
<1>1. \A i, x, c : LeftNext(m, i, x)' = LeftNext(m, i, x) /\ CallGives(m, i, x, c)' = CallGives(m, i, x, c)
    BY DEF LeftNext, CallGives, PlannedDeed
<1>2. \A f : RanSo(m, o, f)' <=> RanSo(m, o, f)
    BY <1>1 DEF RanSo, LeftAlong
<1>3. QED BY <1>2 DEF HasShown

LEMMA SettlesKeeps ==
    ASSUME SelfInv, Working, NEW o, Settles(o), HasShown(Module, o)
    PROVE  SelfInv'
<1>1. /\ running \in {"before", "after"} /\ selfPair' = selfPair /\ plan' = plan /\ judged' = judged
      /\ DOMAIN shown = {"before", "after"} /\ observed' = Nothing
    BY DEF SelfInv, Settles, Working
<1>2. shown' = [shown EXCEPT ![running] = o] /\ running' = IF running = "before" THEN "after" ELSE "compared"
    BY DEF Settles
<1>3. judged = "none"
    BY <1>1 DEF SelfInv
<1>4. DOMAIN shown' = {"before", "after"} /\ ModuleIsPlain(selfPair'.before) /\ ModuleIsPlain(selfPair'.after)
    BY <1>1, <1>2 DEF SelfInv
<1>5. CASE running = "before"
    <2>1. running' = "after" /\ shown'["before"] = o
        BY <1>1, <1>2, <1>5
    <2>2. HasShown(selfPair.before, o)
        BY <1>5 DEF Module
    <2>3. HasShown(selfPair.before, o)'
        BY <1>1, <2>2, HasShownStays
    <2>4. AtWork(selfPair.after)'
        BY <1>1 DEF AtWork, Nothing, Observations
    <2>5. QED BY <1>1, <1>3, <1>4, <2>1, <2>3, <2>4 DEF SelfInv
<1>6. CASE running = "after"
    <2>1. running' = "compared" /\ shown'["after"] = o /\ shown'["before"] = shown["before"]
        BY <1>1, <1>2, <1>6
    <2>2. HasShown(selfPair.after, o) /\ HasShown(selfPair.before, shown["before"])
        BY <1>6 DEF Module, SelfInv
    <2>3. PICK seen, n, m : seen = shown["before"] /\ n = selfPair.before /\ m = selfPair.after
        OBVIOUS
    <2>4. HasShown(m, o)' /\ HasShown(n, seen)'
        BY <1>1, <2>2, <2>3, HasShownStays
    <2>5. selfPair'.before = n /\ selfPair'.after = m /\ shown'["before"] = seen
        BY <1>1, <2>1, <2>3
    <2>6. QED BY <1>1, <1>3, <1>4, <2>1, <2>4, <2>5 DEF SelfInv
<1>7. QED BY <1>1, <1>5, <1>6

LEMMA SelfKeeps == SelfInv /\ [SelfNext]_selfVars => SelfInv'
<1> SUFFICES ASSUME SelfInv, [SelfNext]_selfVars PROVE SelfInv'
    OBVIOUS
<1>1. ASSUME NEW m, m = Module, Working, AtWork(m)',
             UNCHANGED <<selfPair, plan, running, shown, judged>>
      PROVE  SelfInv'
    <2>1. running \in {"before", "after"} /\ running' = running /\ selfPair' = selfPair /\ plan' = plan
          /\ shown' = shown /\ judged' = judged
        BY <1>1 DEF Working
    <2>2. PICK seen : seen = shown["before"]
        OBVIOUS
    <2>3. running = "after" => HasShown(selfPair.before, seen)'
        BY <2>1, <2>2, HasShownStays DEF SelfInv
    <2>4. QED BY <1>1, <2>1, <2>2, <2>3 DEF SelfInv, Module
<1>2. Working => ModuleIsPlain(Module) /\ AtWork(Module)
    BY DEF Working, Module, SelfInv
<1>3. PICK m : m = Module
    OBVIOUS
<1>4. CASE SelfInstantiate
    <2>1. AtWork(m)'
        BY <1>2, <1>3, <1>4, SelfInstantiateKeeps DEF SelfInstantiate
    <2>2. QED BY <1>1, <1>3, <1>4, <2>1 DEF SelfInstantiate
<1>5. CASE SelfCall
    <2>1. AtWork(m)'
        BY <1>2, <1>3, <1>5, SelfCallKeeps DEF SelfCall
    <2>2. QED BY <1>1, <1>3, <1>5, <2>1 DEF SelfCall
<1>6. CASE Message
    <2>1. PICK o : o = Observation
        OBVIOUS
    <2>2. HasShown(m, o)
        BY <1>2, <1>3, <1>6, <2>1, MessageShows DEF Message
    <2>3. QED BY <1>3, <1>6, <2>1, <2>2, SettlesKeeps DEF Message
<1>7. CASE WorkerStopped
    <2>1. PICK o : o = ToolFailure
        OBVIOUS
    <2>2. HasShown(m, o)
        BY <2>1, FailureIsShown
    <2>3. QED BY <1>3, <1>7, <2>1, <2>2, SettlesKeeps DEF WorkerStopped
<1>8. ASSUME UNCHANGED <<selfPair, plan, running, cell, observed, shown>>,
             judged' # "none" => running = "compared" /\ judged' = ClassOf(shown.before, shown.after)
      PROVE  SelfInv'
    <2>1. \A mm, o : HasShown(mm, o) => HasShown(mm, o)'
        BY <1>8, HasShownStays
    <2>2. PICK l, r : l = shown["before"] /\ r = shown["after"]
        OBVIOUS
    <2>3. AtWork(selfPair.before) => AtWork(selfPair.before)'
        <3>1. \A i, x, c, mm : LeftNext(mm, i, x)' = LeftNext(mm, i, x) /\ CallGives(mm, i, x, c)' = CallGives(mm, i, x, c)
            BY <1>8 DEF LeftNext, CallGives, PlannedDeed
        <3>2. QED BY <1>8, <3>1 DEF AtWork, RanSo, LeftAlong
    <2>4. AtWork(selfPair.after) => AtWork(selfPair.after)'
        <3>1. \A i, x, c, mm : LeftNext(mm, i, x)' = LeftNext(mm, i, x) /\ CallGives(mm, i, x, c)' = CallGives(mm, i, x, c)
            BY <1>8 DEF LeftNext, CallGives, PlannedDeed
        <3>2. QED BY <1>8, <3>1 DEF AtWork, RanSo, LeftAlong
    <2>5. ClassOf(l, r)' = ClassOf(l, r)
        BY <1>8 DEF ClassOf, SameObservation, SameOutcome, SameValue, AnyOf
    <2>6. QED BY <1>8, <2>1, <2>2, <2>3, <2>4, <2>5 DEF SelfInv
<1>9. CASE SelfCompare
    BY <1>8, <1>9 DEF SelfCompare
<1>10. CASE UNCHANGED selfVars
    BY <1>8, <1>10 DEF selfVars, SelfInv
<1>11. QED BY <1>4, <1>5, <1>6, <1>7, <1>9, <1>10 DEF SelfNext

\* A module does the same each time.
LEMMA RunsAgree ==
    ASSUME NEW m, NEW k \in Nat, NEW f \in LeftAlong(m, k), NEW g \in LeftAlong(m, k), NEW i \in 0..k
    PROVE  f[i] = g[i]
<1> DEFINE S == {j \in 0..k : f[j] = g[j]}
<1>1. 0 \in S
    BY DEF LeftAlong
<1>2. ASSUME NEW j \in 1..k, j - 1 \in S PROVE j \in S
    BY <1>2 DEF LeftAlong
<1> HIDE DEF S
<1>3. 0..k \subseteq S
    BY <1>1, <1>2, Onwards
<1>4. QED BY <1>3 DEF S

LEMMA OutcomesAreAlike ==
    ASSUME NEW does \in Doing, NEW state, NEW c \in Outcomes(does, state), NEW d \in Outcomes(does, state),
           does # "nan" \/ selfPair.policy = "canonical-nan"
    PROVE  SameOutcome(c, d)
<1>1. CASE does = "nan"
    <2>1. \E v, w \in NaNs : c = Returned(v) /\ d = Returned(w)
        BY <1>1 DEF Outcomes
    <2>2. QED BY <1>1, <2>1 DEF SameOutcome, SameValue, Returned
<1>2. CASE does # "nan"
    <2>1. c = d
        BY <1>2 DEF Outcomes, Doing
    <2>2. QED BY <2>1 DEF SameOutcome, SameValue
<1>3. QED BY <1>1, <1>2

LEMMA SelfBlame == SelfInv => SelfBlameIsEarned
<1> SUFFICES ASSUME SelfInv, judged \in {"semantic-mismatch", "trap-mismatch"}, selfPair.before = selfPair.after,
                    selfPair.policy = "canonical-nan" \/ \A e \in Exports(selfPair.before) : e.does # "nan"
             PROVE  FALSE
    BY DEF SelfBlameIsEarned
<1>1. PICK m, l, r : m = selfPair.before /\ l = shown["before"] /\ r = shown["after"]
    OBVIOUS
<1>2. running = "compared" /\ judged = ClassOf(l, r)
    BY <1>1 DEF SelfInv
<1>3. HasShown(m, l) /\ HasShown(m, r) /\ ModuleIsPlain(m)
    BY <1>1, <1>2 DEF SelfInv
<1>4. l.kind = KindOf(m) /\ r.kind = KindOf(m) /\ ~SameObservation(l, r)
    <2>1. l.kind # "tool-failure" /\ r.kind # "tool-failure" /\ ~SameObservation(l, r)
        BY <1>2 DEF ClassOf
    <2>2. QED BY <1>3, <2>1 DEF HasShown
<1>5. CASE KindOf(m) # "instantiated"
    BY <1>3, <1>4, <1>5 DEF HasShown, SameObservation
<1>6. CASE KindOf(m) = "instantiated"
    <2>1. PICK k \in Nat : k = Len(plan) /\ k = Len(l.calls) /\ k = Len(r.calls)
        BY <1>3, <1>4, <1>6 DEF HasShown, Observations
    <2>2. PICK f : RanSo(m, l, f) /\ l.state = IF m.shows THEN f[k].state + 1 ELSE 0
        BY <1>3, <1>4, <1>6, <2>1 DEF HasShown
    <2>3. PICK g : RanSo(m, r, g) /\ r.state = IF m.shows THEN g[k].state + 1 ELSE 0
        BY <1>3, <1>4, <1>6, <2>1 DEF HasShown
    <2>4. f \in LeftAlong(m, k) /\ g \in LeftAlong(m, k)
        BY <2>1, <2>2, <2>3 DEF RanSo
    <2>5. \A i \in 0..k : f[i] = g[i]
        BY <2>4, RunsAgree
    <2>6. l.state = r.state /\ l.trace = r.trace
        <3>1. k \in 0..k
            OBVIOUS
        <3>2. QED BY <2>1, <2>2, <2>3, <2>5, <3>1 DEF RanSo
    <2>7. ASSUME NEW i \in 1..k PROVE SameOutcome(l.calls[i], r.calls[i])
        <3>1. CallGives(m, i, f[i - 1], l.calls[i]) /\ CallGives(m, i, f[i - 1], r.calls[i])
            BY <2>1, <2>2, <2>3, <2>5 DEF RanSo
        <3>2. CASE Called(m, plan[i]) = {}
            BY <3>1, <3>2 DEF CallGives, SameOutcome, SameValue
        <3>3. CASE Called(m, plan[i]) # {}
            <4>1. PlannedDeed(m, i) \in Doing /\ \E e \in Exports(m) : e.does = PlannedDeed(m, i)
                BY <1>3, <3>3, ExportOfAName
            <4>2. QED BY <1>1, <3>1, <3>3, <4>1, OutcomesAreAlike DEF CallGives
        <3>4. QED BY <3>2, <3>3
    <2>8. DOMAIN l.calls = 1..k
        <3>1. l.calls \in Seq(CallOutcomes)
            BY <1>3 DEF HasShown, Observations
        <3>2. \A q \in Seq(CallOutcomes) : DOMAIN q = 1..Len(q)
            OBVIOUS
        <3>3. DOMAIN l.calls = 1..Len(l.calls)
            BY <3>1, <3>2, Zenon
        <3>4. QED BY <2>1, <3>3, Zenon
    <2>9. QED BY <1>4, <2>1, <2>6, <2>7, <2>8 DEF SameObservation
<1>7. QED BY <1>5, <1>6

\* Where every planned call is of an export, what is left after all is LeftBy.
LEMMA LeftByIsLast ==
    ASSUME NEW m, NEW k \in Nat, k = Len(plan), NEW f \in LeftAlong(m, k),
           \A i \in 1..k : Called(m, plan[i]) # {}
    PROVE  LeftBy(m) = f[k]
<1> DEFINE first == [state |-> IF m.start = "writes" THEN 1 ELSE 0, trace |-> 0]
           LeavesNext(i, s) == [state |-> s.state + Writes(PlannedDeed(m, i)), trace |-> s.trace + Asks(PlannedDeed(m, i))]
           P(h) == h = [i \in 0..k |-> IF i = 0 THEN first ELSE LeavesNext(i, h[i - 1])]
           h == CHOOSE h : P(h)
<1>1. P(f)
    <2>1. \A i \in 0..k : f[i] = IF i = 0 THEN first ELSE LeavesNext(i, f[i - 1])
        <3>1. f[0] = first
            BY DEF LeftAlong, LeftAtFirst
        <3>2. ASSUME NEW i \in 1..k PROVE f[i] = LeavesNext(i, f[i - 1])
            BY DEF LeftAlong, LeftNext
        <3>3. \A i \in 0..k : i = 0 \/ i \in 1..k
            OBVIOUS
        <3>4. \A i \in 1..k : i # 0
            OBVIOUS
        <3>5. QED BY <3>1, <3>2, <3>3, <3>4
    <2>2. f \in [0..k -> LeftStates]
        BY DEF LeftAlong
    <2>3. QED BY <2>1, <2>2
<1>2. P(h)
    BY <1>1
<1>3. LeftBy(m) = h[k]
    BY DEF LeftBy, PlannedDeed
<1> HIDE DEF h
<1>4. \A i \in 0..k : h[i] = IF i = 0 THEN first ELSE LeavesNext(i, h[i - 1])
    BY <1>2
<1> DEFINE S == {j \in 0..k : h[j] = f[j]}
<1>5. 0 \in S
    <2>1. 0 \in 0..k /\ f[0] = first
        BY DEF LeftAlong, LeftAtFirst
    <2>2. QED BY <1>4, <2>1
<1>6. ASSUME NEW j \in 1..k, j - 1 \in S PROVE j \in S
    <2>1. j \in 0..k /\ j # 0 /\ h[j - 1] = f[j - 1]
        BY <1>6
    <2>2. f[j] = LeavesNext(j, f[j - 1])
        BY DEF LeftAlong, LeftNext
    <2>3. QED BY <1>4, <2>1, <2>2
<1> HIDE DEF S
<1>7. 0..k \subseteq S
    BY <1>5, <1>6, Onwards
<1>8. QED BY <1>3, <1>7 DEF S

LEMMA SelfWhole == SelfInv => SelfEqualIsWhole
<1> SUFFICES ASSUME SelfInv, judged \in {"equal-result", "equal-trap"} PROVE SelfEqualIsWhole
    BY DEF SelfEqualIsWhole
<1>1. PICK m, n, l, r : m = selfPair.before /\ n = selfPair.after /\ l = shown["before"] /\ r = shown["after"]
    OBVIOUS
<1>2. HasShown(m, l) /\ HasShown(n, r) /\ ModuleIsPlain(m) /\ ModuleIsPlain(n) /\ judged = ClassOf(l, r)
    BY <1>1 DEF SelfInv
<1>3. SameObservation(l, r) /\ ~AnyOf("unsupported", l) /\ ~AnyOf("unsupported", r)
    BY <1>2 DEF ClassOf
<1>4. l.kind = r.kind
    BY <1>3 DEF SameObservation
<1>5. ASSUME l.kind = "instantiated"
      PROVE  /\ Len(l.calls) = Len(plan) /\ Len(r.calls) = Len(plan)
             /\ LeftBy(m).trace = LeftBy(n).trace
             /\ m.shows = n.shows /\ (m.shows => LeftBy(m).state = LeftBy(n).state)
             /\ \A i \in 1..Len(plan) : SameValue(l.calls[i].value, r.calls[i].value)
    <2>1. PICK k \in Nat : k = Len(plan) /\ k = Len(l.calls) /\ k = Len(r.calls)
        BY <1>2, <1>4, <1>5 DEF HasShown, Observations
    <2>2. PICK f : RanSo(m, l, f) /\ l.state = IF m.shows THEN f[k].state + 1 ELSE 0
        BY <1>2, <1>5, <2>1 DEF HasShown
    <2>3. PICK g : RanSo(n, r, g) /\ r.state = IF n.shows THEN g[k].state + 1 ELSE 0
        BY <1>2, <1>4, <1>5, <2>1 DEF HasShown
    <2>4. DOMAIN l.calls = 1..k /\ DOMAIN r.calls = 1..k
        <3>1. l.calls \in Seq(CallOutcomes) /\ r.calls \in Seq(CallOutcomes)
            BY <1>2 DEF HasShown, Observations
        <3>2. \A q \in Seq(CallOutcomes) : DOMAIN q = 1..Len(q)
            OBVIOUS
        <3>3. DOMAIN l.calls = 1..Len(l.calls) /\ DOMAIN r.calls = 1..Len(r.calls)
            BY <3>1, <3>2, Zenon
        <3>4. QED BY <2>1, <3>3, Zenon
    <2>5. ASSUME NEW i \in 1..k PROVE Called(m, plan[i]) # {} /\ Called(n, plan[i]) # {}
        <3>1. l.calls[i].kind # "unsupported" /\ r.calls[i].kind # "unsupported"
            BY <1>3, <2>4 DEF AnyOf
        <3>2. CallGives(m, i, f[i - 1], l.calls[i]) /\ CallGives(n, i, g[i - 1], r.calls[i])
            BY <2>1, <2>2, <2>3 DEF RanSo
        <3>3. QED BY <3>1, <3>2 DEF CallGives, NoFunction
    <2>6. f \in LeftAlong(m, k) /\ g \in LeftAlong(n, k) /\ l.trace = f[k].trace /\ r.trace = g[k].trace
        BY <2>1, <2>2, <2>3 DEF RanSo
    <2>7. LeftBy(m) = f[k] /\ LeftBy(n) = g[k]
        BY <2>1, <2>5, <2>6, LeftByIsLast
    <2>8. k \in 0..k
        OBVIOUS
    <2>9. f[k] \in LeftStates /\ g[k] \in LeftStates
        BY <2>6, <2>8 DEF LeftAlong
    <2>10. l.state = r.state /\ l.trace = r.trace
        BY <1>3 DEF SameObservation
    <2>11. m.shows = n.shows /\ (m.shows => f[k].state = g[k].state)
        BY <1>2, <2>2, <2>3, <2>9, <2>10 DEF ModuleIsPlain, LeftStates
    <2>12. \A i \in 1..k : SameValue(l.calls[i].value, r.calls[i].value)
        BY <1>3, <2>4 DEF SameObservation, SameOutcome
    <2>13. QED BY <2>1, <2>6, <2>7, <2>10, <2>11, <2>12
<1>6. QED BY <1>1, <1>4, <1>5 DEF SelfEqualIsWhole

\* Two modules are told apart only if one of them does something else (or gives a
\* NaN whose bits are compared), and are called equal only if all the exports or
\* planned calls were compared and agree (RuntimeVerdictsAreEarned): for any
\* modules, imports, stubs and numbers of attempts, invocations and calls.
THEOREM VerdictsOfRunsEarned == MatrixSpec /\ SelfSpec => []RuntimeVerdictsAreEarned
<1>1. MatrixInit => MatrixInv
    BY MatrixStarts
<1>2. MatrixInv /\ [MatrixNext]_matrixVars => MatrixInv'
    BY MatrixKeeps
<1>3. SelfInit => SelfInv
    BY SelfStarts
<1>4. SelfInv /\ [SelfNext]_selfVars => SelfInv'
    BY SelfKeeps
<1>5. MatrixInv /\ SelfInv => RuntimeVerdictsAreEarned
    BY MatrixHolds, SelfBlame, SelfWhole DEF RuntimeVerdictsAreEarned
<1>6. QED BY <1>1, <1>2, <1>3, <1>4, <1>5, PTL DEF MatrixSpec, SelfSpec

-----------------------------------------------------------------------------
(* The scripts of the artifacts *)

ArtifactContents == [run : Nat, valid : BOOLEAN, judged : BOOLEAN, fallback : BOOLEAN]

\* What is known of a file, and that what a script wrote is its own.
IsSo(c, fact) ==
    /\ fact = "gone" => c = Gone
    /\ fact = "there" => c # Gone
    /\ fact = "valid" => c.valid
    /\ fact = "judged" => c.judged
EstablishedHolds(s, n, d) == \A fact \in Facts, f \in Files : Established(s, n, fact, f) => IsSo(d[f], fact)
OwnHolds(s, n, d, r) == \A f \in Files : WrittenBefore(s, n, f) => d[f] = Gone \/ d[f].run = r

ScriptInv ==
    /\ disk \in [Files -> ArtifactContents] /\ started \in Nat /\ next \in Nat
    /\ next # 0 =>
        /\ script \in Scripts /\ started > 0 /\ next <= Len(StepsOf(script)) /\ outcome = "runs"
        /\ EstablishedHolds(StepsOf(script), next, disk)
        /\ Deletes(script) => OwnHolds(StepsOf(script), next, disk, started)
ArtifactInv == ScriptInv /\ SuccessIsItsOwn /\ FallbackIsTold /\ PackageIsOfOneRun

\* What a file may be found as by the next step: as it was, judged by this one, or as it was written.
Kept(a, b, judge) ==
    \/ a = b
    \/ judge /\ a # Gone /\ b = [run |-> a.run, valid |-> a.valid, judged |-> TRUE, fallback |-> a.fallback]
CopyOf(a, b, marked) == b = [run |-> a.run, valid |-> a.valid, judged |-> a.judged, fallback |-> a.fallback \/ marked]

\* A step that ended well, of a script in order, and what it made of age r.
Passed(x, d, e, r) ==
    /\ x.op \notin {"done", "fails"}
    /\ x.op \in {"check", "need", "judge"} => x.writes = {}
    /\ \A f \in Files : f \notin x.writes => Kept(d[f], e[f], x.op = "judge" /\ f \in x.reads)
    /\ x.op = "check" => \A f \in x.reads : d[f].valid
    /\ x.op = "judge" => \A f \in x.reads : e[f].judged
    /\ x.op = "delete" => \A f \in x.writes : e[f] = Gone
    /\ x.op = "do" => \A f \in x.writes : e[f] = Made(r, TRUE)
    /\ x.op = "compile" => \/ \A f \in x.writes : e[f] \in {Made(r, TRUE), Made(r, FALSE)}
                           \/ x.silent /\ e = d
    /\ x.op \in {"copy", "fallback"} =>
        \E g \in x.reads : d[g] # Gone /\ \A f \in x.writes : CopyOf(d[g], e[f], x.op = "fallback")

\* A step that did not may have left one file of those it writes, of age r.
Broken(r, marked) == [run |-> r, valid |-> FALSE, judged |-> FALSE, fallback |-> marked]
Damaged(x, d, e, r) ==
    \/ e = d
    \/ /\ x.op \in {"do", "compile", "copy", "fallback"}
       /\ \E f \in x.writes : e[f] = Broken(r, x.op = "fallback") /\ \A g \in Files : g # f => e[g] = d[g]

-----------------------------------------------------------------------------
\* What a script in order is.
LEMMA InOrder ==
    ASSUME NEW name \in Scripts
    PROVE  /\ EndsSomewhere(StepsOf(name)) /\ (Deletes(name) => MakesItsOwn(StepsOf(name)))
           /\ ProductIsKnown(name, StepsOf(name)) /\ TellsOfFallback(StepsOf(name)) /\ PackagesJudged(name, StepsOf(name))
BY ArtifactAssumption

LEMMA StepIs ==
    ASSUME NEW s, EndsSomewhere(s), NEW n \in 1..Len(s)
    PROVE  /\ s[n] \in ScriptSteps /\ Len(s) \in Nat
           /\ s[n].op \notin {"done", "fails"} => n < Len(s)
           /\ s[n].op = "fails" => n < Len(s)
BY DEF EndsSomewhere

\* What was known before a step and is known after it.
LEMMA KnownOnward ==
    ASSUME NEW s, EndsSomewhere(s), NEW n \in 1..Len(s), NEW fact \in Facts, NEW f \in Files,
           Established(s, n + 1, fact, f)
    PROVE  \/ Established(s, n, fact, f) /\ f \notin s[n].writes
           \/ SeesTo(s, n, fact, f) \/ Copied(s, n, fact, f)
<1>1. n \in Nat /\ n > 0
  BY DEF EndsSomewhere
<1>2. PICK i \in 1..n : (SeesTo(s, i, fact, f) \/ Copied(s, i, fact, f)) /\ Stays(s, i, f, n + 1)
  BY <1>1 DEF Established
<1>3. CASE i = n
  BY <1>2, <1>3
<1>4. CASE i < n
  <2>1. i \in 1..(n - 1) /\ f \notin s[n].writes
    BY <1>1, <1>2, <1>4 DEF Stays
  <2>2. Stays(s, i, f, n)
    <3>1. \A k \in 1..(n - 1) : i < k => f \notin s[k].writes
      BY <1>1, <1>2 DEF Stays
    <3>2. ASSUME NEW k \in 1..i, i < s[k].orElse, s[k].orElse <= n PROVE FALSE
      <4>1. s[k].orElse \in Nat
        <5>1. k \in 1..Len(s)
          BY <1>1, <1>2, StepIs
        <5> QED
          BY <5>1, StepIs DEF ScriptSteps
      <4>2. s[k].orElse <= n + 1
        BY <1>1, <3>2, <4>1
      <4> QED
        BY <1>2, <3>2, <4>2 DEF Stays
    <3> QED
      BY <3>1, <3>2 DEF Stays
  <2>3. Established(s, n, fact, f)
    BY <1>2, <2>1, <2>2 DEF Established
  <2> QED
    BY <2>1, <2>3
<1> QED
  BY <1>1, <1>2, <1>3, <1>4

\* What is known where a step that failed goes on.
LEMMA KnownElsewhere ==
    ASSUME NEW s, EndsSomewhere(s), NEW n \in 1..Len(s), s[n].orElse # 0, NEW fact \in Facts, NEW f \in Files,
           Established(s, s[n].orElse, fact, f)
    PROVE  Established(s, n, fact, f) /\ f \notin s[n].writes
<1>1. PICK t \in Nat : t = s[n].orElse
  BY StepIs DEF ScriptSteps
<1>2. n \in Nat /\ n > 0 /\ n < t /\ t <= Len(s) /\ Len(s) \in Nat
  BY <1>1 DEF EndsSomewhere
<1>3. PICK i \in 1..(t - 1) : (SeesTo(s, i, fact, f) \/ Copied(s, i, fact, f)) /\ Stays(s, i, f, t)
  BY <1>1, <1>2 DEF Established
<1>4. i < n
  <2>1. SUFFICES ASSUME n <= i PROVE FALSE
    BY <1>2, <1>3
  <2> QED
    BY <1>1, <1>2, <1>3, <2>1 DEF Stays
<1>5. i \in 1..(n - 1) /\ f \notin s[n].writes
  BY <1>2, <1>3, <1>4 DEF Stays
<1>6. Stays(s, i, f, n)
  <2>1. \A k \in 1..(n - 1) : i < k => f \notin s[k].writes
    BY <1>2, <1>3 DEF Stays
  <2>2. ASSUME NEW k \in 1..i, i < s[k].orElse, s[k].orElse <= n PROVE FALSE
    <3>1. s[k].orElse \in Nat
      <4>1. k \in 1..Len(s)
        BY <1>2, <1>3
      <4> QED
        BY <4>1, StepIs DEF ScriptSteps
    <3>2. s[k].orElse <= t
      BY <1>2, <2>2, <3>1
    <3> QED
      BY <1>3, <2>2, <3>2 DEF Stays
  <2> QED
    BY <2>1, <2>2 DEF Stays
<1> QED
  BY <1>3, <1>5, <1>6 DEF Established

\* Facts of a file that was kept are kept.
LEMMA SoKept ==
    ASSUME NEW a \in ArtifactContents, NEW b \in ArtifactContents, NEW judge, NEW fact, Kept(a, b, judge), IsSo(a, fact)
    PROVE  IsSo(b, fact)
BY DEF Kept, IsSo, ArtifactContents, Gone

LEMMA PassedKnows ==
    ASSUME NEW s, EndsSomewhere(s), NEW n \in 1..Len(s), NEW d \in [Files -> ArtifactContents], NEW e \in [Files -> ArtifactContents],
           NEW r, Passed(s[n], d, e, r), EstablishedHolds(s, n, d)
    PROVE  EstablishedHolds(s, n + 1, e)
<1> SUFFICES ASSUME NEW fact \in Facts, NEW f \in Files, Established(s, n + 1, fact, f)
             PROVE  IsSo(e[f], fact)
  BY DEF EstablishedHolds
<1> PICK x : x = s[n]
  OBVIOUS
<1>1. x \in ScriptSteps /\ Passed(x, d, e, r)
  BY StepIs
<1>2. CASE Established(s, n, fact, f) /\ f \notin s[n].writes
  <2>1. IsSo(d[f], fact)
    BY <1>2 DEF EstablishedHolds
  <2>2. Kept(d[f], e[f], x.op = "judge" /\ f \in x.reads)
    BY <1>1, <1>2 DEF Passed
  <2> QED
    BY <2>1, <2>2, SoKept
<1>3. CASE SeesTo(s, n, fact, f)
  <2>1. CASE fact = "gone"
    <3>1. e[f] = Gone
      BY <1>1, <1>3, <2>1 DEF SeesTo, Passed
    <3> QED
      BY <2>1, <3>1 DEF IsSo
  <2>2. CASE fact = "there"
    <3>1. e[f] = Made(r, TRUE)
      BY <1>1, <1>3, <2>2 DEF SeesTo, Passed
    <3>2. e[f].valid
      BY <3>1 DEF Made
    <3> QED
      BY <2>2, <3>2 DEF IsSo, Gone
  <2>3. CASE fact = "valid"
    <3>1. x.op = "check" /\ f \in x.reads
      BY <1>1, <1>3, <2>3 DEF SeesTo, Passed
    <3>2. d[f].valid /\ f \notin x.writes
      BY <1>1, <3>1 DEF Passed
    <3>3. Kept(d[f], e[f], x.op = "judge" /\ f \in x.reads)
      BY <1>1, <3>2 DEF Passed
    <3>4. IsSo(d[f], fact)
      BY <2>3, <3>2 DEF IsSo
    <3> QED
      BY <3>3, <3>4, SoKept
  <2>4. CASE fact = "judged"
    <3>1. e[f].judged
      BY <1>1, <1>3, <2>4 DEF SeesTo, Passed
    <3> QED
      BY <2>4, <3>1 DEF IsSo
  <2> QED
    BY <2>1, <2>2, <2>3, <2>4 DEF Facts
<1>4. CASE Copied(s, n, fact, f)
  <2>1. x.op \in {"copy", "fallback"} /\ f \in x.writes /\ fact \in {"valid", "judged"}
    BY <1>4 DEF Copied
  <2>2. PICK g \in x.reads : CopyOf(d[g], e[f], x.op = "fallback")
    BY <1>1, <2>1 DEF Passed
  <2>3. g \in Files /\ SeenTo(s, n, fact, g)
    BY <1>1, <1>4, <2>2 DEF Copied, ScriptSteps
  <2>4. Established(s, n, fact, g)
    BY <2>3 DEF SeenTo, Established
  <2>5. IsSo(d[g], fact)
    BY <2>3, <2>4 DEF EstablishedHolds
  <2>6. e[f].valid = d[g].valid /\ e[f].judged = d[g].judged
    BY <2>2 DEF CopyOf
  <2> QED
    BY <2>1, <2>5, <2>6 DEF IsSo
<1> QED
  BY <1>2, <1>3, <1>4, KnownOnward

LEMMA DamagedKnows ==
    ASSUME NEW s, EndsSomewhere(s), NEW n \in 1..Len(s), NEW d \in [Files -> ArtifactContents], NEW e \in [Files -> ArtifactContents],
           NEW r, Damaged(s[n], d, e, r), EstablishedHolds(s, n, d), s[n].orElse # 0
    PROVE  EstablishedHolds(s, s[n].orElse, e)
<1> SUFFICES ASSUME NEW fact \in Facts, NEW f \in Files, Established(s, s[n].orElse, fact, f)
             PROVE  IsSo(e[f], fact)
  BY DEF EstablishedHolds
<1>1. Established(s, n, fact, f) /\ f \notin s[n].writes
  BY KnownElsewhere
<1>2. e[f] = d[f]
  BY <1>1 DEF Damaged
<1> QED
  BY <1>1, <1>2 DEF EstablishedHolds

\* What a script makes of its own stays its own.
LEMMA PassedOwns ==
    ASSUME NEW s, EndsSomewhere(s), MakesItsOwn(s), NEW n \in 1..Len(s),
           NEW d \in [Files -> ArtifactContents], NEW e \in [Files -> ArtifactContents],
           NEW r, Passed(s[n], d, e, r), OwnHolds(s, n, d, r)
    PROVE  OwnHolds(s, n + 1, e, r)
<1> SUFFICES ASSUME NEW f \in Files, WrittenBefore(s, n + 1, f)
             PROVE  e[f] = Gone \/ e[f].run = r
  BY DEF OwnHolds
<1> PICK x : x = s[n]
  OBVIOUS
<1>1. x \in ScriptSteps /\ Passed(x, d, e, r) /\ n \in Nat /\ n > 0 /\ n \in 1..Len(s)
  BY StepIs DEF EndsSomewhere
<1>2. WrittenBefore(s, n, f) \/ f \in x.writes
  BY <1>1 DEF WrittenBefore
<1>3. CASE f \notin x.writes
  <2>1. d[f] = Gone \/ d[f].run = r
    BY <1>2, <1>3 DEF OwnHolds
  <2>2. Kept(d[f], e[f], x.op = "judge" /\ f \in x.reads)
    BY <1>1, <1>3 DEF Passed
  <2> QED
    BY <2>1, <2>2 DEF Kept
<1>4. CASE f \in x.writes
  <2>1. CASE x.op = "delete"
    BY <1>1, <1>4, <2>1 DEF Passed
  <2>2. CASE x.op = "do"
    BY <1>1, <1>4, <2>2 DEF Passed, Made
  <2>3. CASE x.op = "compile"
    <3>1. CASE e[f] \in {Made(r, TRUE), Made(r, FALSE)}
      BY <3>1 DEF Made
    <3>2. CASE x.silent /\ e = d
      <4>1. WrittenBefore(s, n, f)
        BY <1>1, <1>4, <3>2 DEF MakesItsOwn
      <4> QED
        BY <3>2, <4>1 DEF OwnHolds
    <3> QED
      BY <1>1, <1>4, <2>3, <3>1, <3>2 DEF Passed
  <2>4. CASE x.op \in {"copy", "fallback"}
    <3>1. PICK g \in x.reads : d[g] # Gone /\ CopyOf(d[g], e[f], x.op = "fallback")
      BY <1>1, <1>4, <2>4 DEF Passed
    <3>2. g \in Files /\ WrittenBefore(s, n, g)
      BY <1>1, <2>4, <3>1 DEF MakesItsOwn, ScriptSteps
    <3>3. d[g].run = r
      BY <3>1, <3>2 DEF OwnHolds
    <3> QED
      BY <3>1, <3>3 DEF CopyOf
  <2>5. x.op \notin {"check", "need", "judge", "fails", "done"}
    BY <1>1, <1>4 DEF Passed
  <2> QED
    BY <1>1, <2>1, <2>2, <2>3, <2>4, <2>5 DEF ScriptSteps
<1> QED
  BY <1>3, <1>4

LEMMA DamagedOwns ==
    ASSUME NEW s, EndsSomewhere(s), MakesItsOwn(s), NEW n \in 1..Len(s), s[n].orElse # 0,
           NEW d \in [Files -> ArtifactContents], NEW e \in [Files -> ArtifactContents],
           NEW r, NEW q \in {0, r}, Damaged(s[n], d, e, q), OwnHolds(s, n, d, r)
    PROVE  OwnHolds(s, s[n].orElse, e, r)
<1> SUFFICES ASSUME NEW f \in Files, WrittenBefore(s, s[n].orElse, f)
             PROVE  e[f] = Gone \/ e[f].run = r
  BY DEF OwnHolds
<1> PICK x : x = s[n]
  OBVIOUS
<1>1. /\ x \in ScriptSteps /\ Damaged(x, d, e, q) /\ n \in Nat /\ n > 0 /\ x.op \in {"do", "compile"}
      /\ n < x.orElse /\ x.orElse <= Len(s) /\ Len(s) \in Nat /\ x.orElse \in Nat
      /\ \A k \in 1..Len(s) : n < k /\ k < x.orElse => s[k].writes = {}
  <2>1. x \in ScriptSteps /\ Damaged(x, d, e, q) /\ n \in Nat /\ n > 0 /\ Len(s) \in Nat /\ x.orElse # 0
    BY StepIs
  <2>2. x.orElse \in Nat
    BY <2>1 DEF ScriptSteps
  <2>3. /\ x.op \in {"do", "compile"} /\ n < x.orElse /\ x.orElse <= Len(s)
        /\ \A k \in 1..Len(s) : n < k /\ k < x.orElse => s[k].writes = {}
    BY <2>1 DEF EndsSomewhere
  <2> QED
    BY <2>1, <2>2, <2>3
<1>2. PICK i \in 1..(x.orElse - 1) : f \in s[i].writes
  BY DEF WrittenBefore
<1>3. i \in 1..Len(s) /\ i <= n
  BY <1>1, <1>2
<1>4. WrittenBefore(s, n, f)
  <2>1. CASE i = n
    BY <1>1, <1>2, <2>1 DEF MakesItsOwn
  <2>2. CASE i < n
    BY <1>1, <1>2, <1>3, <2>2 DEF WrittenBefore
  <2> QED
    BY <1>1, <1>3, <2>1, <2>2
<1>5. d[f] = Gone \/ d[f].run = r
  BY <1>4 DEF OwnHolds
<1>6. e[f] = d[f] \/ e[f] = Broken(q, FALSE)
  BY <1>1 DEF Damaged
<1>7. Broken(q, FALSE) = Gone \/ Broken(q, FALSE).run = r
  BY DEF Broken, Gone
<1> QED
  BY <1>5, <1>6, <1>7

-----------------------------------------------------------------------------
\* The fallback is told, and the package of one run, after a step that ended well.
Told(d) == d["dist_self"].fallback => d["optimize_error"] # Gone
OneRun(d) ==
    d["internal_gc"].valid /\ d["internal_wasi"].valid =>
        /\ d["internal_gc"].run = d["internal_wasi"].run
        /\ d["internal_gc"].judged /\ d["internal_wasi"].judged

LEMMA PassedTells ==
    ASSUME NEW s, EndsSomewhere(s), TellsOfFallback(s), NEW n \in 1..Len(s),
           NEW d \in [Files -> ArtifactContents], NEW e \in [Files -> ArtifactContents],
           NEW r, s[n].reads = {} => r > 0, r \in Nat, Passed(s[n], d, e, r), EstablishedHolds(s, n, d), Told(d)
    PROVE  Told(e)
<1> PICK x : x = s[n]
  OBVIOUS
<1>1. x \in ScriptSteps /\ Passed(x, d, e, r) /\ n \in 1..Len(s)
  BY StepIs
<1>2. "dist_self" \in Files /\ "optimize_error" \in Files
  BY ArtifactAssumption
<1>3. PICK a : a = "dist_self"
  OBVIOUS
<1>4. PICK b : b = "optimize_error"
  OBVIOUS
<1>5. a \in Files /\ b \in Files /\ (d[a].fallback => d[b] # Gone)
  BY <1>2, <1>3, <1>4 DEF Told
<1>6. SUFFICES ASSUME e[a].fallback PROVE e[b] # Gone
  BY <1>3, <1>4 DEF Told
<1>7. CASE b \in x.writes
  <2>1. x.reads = {} /\ r > 0
    BY <1>1, <1>4, <1>7 DEF TellsOfFallback
  <2>2. CASE x.op = "delete"
    <3>1. Established(s, n, "gone", a)
      BY <1>1, <1>3, <1>4, <1>7, <2>2 DEF TellsOfFallback
    <3>2. d[a] = Gone
      BY <1>5, <3>1 DEF EstablishedHolds, IsSo, Facts
    <3>3. e[a] = Gone
      BY <1>1, <1>5, <2>2, <3>2 DEF Passed, Kept
    <3> QED
      BY <1>6, <3>3 DEF Gone
  <2>3. CASE x.op = "do"
    BY <1>1, <1>7, <2>3 DEF Passed, Made, Gone
  <2>4. CASE x.op = "compile"
    <3>1. CASE e = d
      BY <1>5, <1>6, <3>1
    <3>2. CASE e[b] \in {Made(r, TRUE), Made(r, FALSE)}
      BY <2>1, <3>2 DEF Made, Gone
    <3> QED
      BY <1>1, <1>7, <2>4, <3>1, <3>2 DEF Passed
  <2>5. x.op \in {"delete", "do", "compile"}
    BY <1>1, <1>7, <2>1 DEF Passed, ScriptSteps
  <2> QED
    BY <2>2, <2>3, <2>4, <2>5
<1>8. CASE b \notin x.writes
  <2>1. Kept(d[b], e[b], x.op = "judge" /\ b \in x.reads)
    BY <1>1, <1>5, <1>8 DEF Passed
  <2>2. d[b] # Gone => e[b] # Gone
    BY <2>1 DEF Kept, Gone
  <2>3. d[b] # Gone
    <3>1. CASE a \notin x.writes
      <4>1. Kept(d[a], e[a], x.op = "judge" /\ a \in x.reads)
        BY <1>1, <1>5, <3>1 DEF Passed
      <4>2. d[a].fallback
        BY <1>6, <4>1 DEF Kept
      <4> QED
        BY <1>5, <4>2
    <3>2. CASE a \in x.writes
      <4>1. CASE x.op = "fallback"
        <5>1. Established(s, n, "there", b)
          BY <1>1, <1>4, <4>1 DEF TellsOfFallback
        <5> QED
          BY <1>5, <5>1 DEF EstablishedHolds, IsSo, Facts
      <4>2. CASE x.op = "delete"
        BY <1>1, <1>6, <3>2, <4>2 DEF Passed, Gone
      <4>3. CASE x.op = "do"
        BY <1>1, <1>6, <3>2, <4>3 DEF Passed, Made
      <4>4. CASE x.op = "compile"
        <5>1. CASE e = d
          BY <1>5, <1>6, <5>1
        <5>2. CASE e[a] \in {Made(r, TRUE), Made(r, FALSE)}
          BY <1>6, <5>2 DEF Made
        <5> QED
          BY <1>1, <3>2, <4>4, <5>1, <5>2 DEF Passed
      <4>5. x.op \in {"fallback", "delete", "do", "compile"}
        BY <1>1, <1>3, <3>2 DEF Passed, ScriptSteps, TellsOfFallback
      <4> QED
        BY <4>1, <4>2, <4>3, <4>4, <4>5
    <3> QED
      BY <3>1, <3>2
  <2> QED
    BY <2>2, <2>3
<1> QED
  BY <1>7, <1>8

LEMMA DamagedTells ==
    ASSUME NEW s, EndsSomewhere(s), TellsOfFallback(s), NEW n \in 1..Len(s),
           NEW d \in [Files -> ArtifactContents], NEW e \in [Files -> ArtifactContents],
           NEW r, s[n].reads = {} => r > 0, r \in Nat, Damaged(s[n], d, e, r), EstablishedHolds(s, n, d), Told(d)
    PROVE  Told(e)
<1> PICK x : x = s[n]
  OBVIOUS
<1>1. x \in ScriptSteps /\ Damaged(x, d, e, r) /\ n \in 1..Len(s)
  BY StepIs
<1>2. PICK a : a = "dist_self"
  OBVIOUS
<1>3. PICK b : b = "optimize_error"
  OBVIOUS
<1>4. a \in Files /\ b \in Files /\ a # b /\ (d[a].fallback => d[b] # Gone)
  BY <1>2, <1>3, ArtifactAssumption DEF Told
<1>5. SUFFICES ASSUME e[a].fallback, e # d PROVE e[b] # Gone
  BY <1>2, <1>3 DEF Told
<1>6. PICK f \in x.writes : e[f] = Broken(r, x.op = "fallback") /\ \A g \in Files : g # f => e[g] = d[g]
  BY <1>1, <1>5 DEF Damaged
<1>7. CASE f = b
  <2>1. r > 0
    BY <1>1, <1>3, <1>6, <1>7 DEF TellsOfFallback
  <2> QED
    BY <1>6, <1>7, <2>1 DEF Broken, Gone
<1>8. CASE f = a
  <2>1. PICK marked \in BOOLEAN : marked = (x.op = "fallback")
    OBVIOUS
  <2>2. Broken(r, marked).fallback = marked
    BY DEF Broken
  <2>3. marked
    BY <1>5, <1>6, <1>8, <2>1, <2>2
  <2>4. x.op = "fallback"
    BY <2>1, <2>3
  <2>5. Established(s, n, "there", b)
    BY <1>1, <1>3, <2>4 DEF TellsOfFallback
  <2>6. d[b] # Gone
    BY <1>4, <2>5 DEF EstablishedHolds, IsSo, Facts
  <2> QED
    BY <1>4, <1>6, <1>8, <2>6
<1>9. CASE f # a /\ f # b
  BY <1>4, <1>5, <1>6, <1>9
<1> QED
  BY <1>7, <1>8, <1>9

LEMMA PassedPacks ==
    ASSUME NEW s, EndsSomewhere(s), NEW name, PackagesJudged(name, s), NEW n \in 1..Len(s),
           NEW d \in [Files -> ArtifactContents], NEW e \in [Files -> ArtifactContents],
           NEW r, Passed(s[n], d, e, r), OneRun(d),
           EstablishedHolds(s, n + 1, e), NEW own, Deletes(name) => OwnHolds(s, n + 1, e, own)
    PROVE  OneRun(e)
<1> PICK x : x = s[n]
  OBVIOUS
<1>1. x \in ScriptSteps /\ Passed(x, d, e, r) /\ n \in 1..Len(s)
  BY StepIs
<1>2. PICK a : a = "internal_gc"
  OBVIOUS
<1>3. PICK b : b = "internal_wasi"
  OBVIOUS
<1>4. a \in Files /\ b \in Files /\ Package = {a, b}
  BY <1>2, <1>3, ArtifactAssumption DEF Package
<1>5. d[a].valid /\ d[b].valid => d[a].run = d[b].run /\ d[a].judged /\ d[b].judged
  BY <1>2, <1>3 DEF OneRun
<1>6. SUFFICES ASSUME e[a].valid, e[b].valid PROVE e[a].run = e[b].run /\ e[a].judged /\ e[b].judged
  BY <1>2, <1>3 DEF OneRun
<1>7. CASE x.writes \intersect Package = {}
  <2>1. \A g \in {a, b} : Kept(d[g], e[g], x.op = "judge" /\ g \in x.reads)
    BY <1>1, <1>4, <1>7 DEF Passed
  <2>2. \A g \in {a, b} : d[g].valid = e[g].valid /\ d[g].run = e[g].run /\ (d[g].judged => e[g].judged)
    BY <2>1 DEF Kept
  <2> QED
    BY <1>5, <1>6, <2>2
<1>8. CASE x.writes \intersect Package # {}
  <2>1. x.op # "delete"
    <3>1. PICK g \in {a, b} : g \in x.writes
      BY <1>4, <1>8
    <3>2. e[g].valid
      BY <1>6, <3>1
    <3>3. ~ Gone.valid
      BY DEF Gone
    <3> QED
      BY <1>1, <3>1, <3>2, <3>3 DEF Passed
  <2>2. /\ Deletes(name)
        /\ \A g \in {a, b} : WrittenBefore(s, n + 1, g) /\ \E fact \in {"gone", "judged"} : Established(s, n + 1, fact, g)
    BY <1>1, <1>4, <1>8, <2>1 DEF PackagesJudged
  <2>3. ASSUME NEW g \in {a, b} PROVE e[g].run = own /\ e[g].judged
    <3>1. g \in Files /\ e[g] # Gone
      BY <1>4, <1>6, <2>3 DEF Gone
    <3>2. e[g].run = own
      BY <2>2, <2>3, <3>1 DEF OwnHolds
    <3>3. PICK fact \in {"gone", "judged"} : Established(s, n + 1, fact, g)
      BY <2>2, <2>3
    <3>4. IsSo(e[g], fact)
      BY <3>1, <3>3 DEF EstablishedHolds, Facts
    <3> QED
      BY <3>1, <3>2, <3>3, <3>4 DEF IsSo
  <2> QED
    BY <2>3
<1> QED
  BY <1>7, <1>8

LEMMA DamagedPacks ==
    ASSUME NEW x, NEW d \in [Files -> ArtifactContents], NEW e \in [Files -> ArtifactContents],
           NEW r, Damaged(x, d, e, r), OneRun(d)
    PROVE  OneRun(e)
<1>1. PICK a : a = "internal_gc"
  OBVIOUS
<1>2. PICK b : b = "internal_wasi"
  OBVIOUS
<1>3. a \in Files /\ b \in Files
  BY <1>1, <1>2, ArtifactAssumption DEF Package
<1>4. d[a].valid /\ d[b].valid => d[a].run = d[b].run /\ d[a].judged /\ d[b].judged
  BY <1>1, <1>2 DEF OneRun
<1>5. SUFFICES ASSUME e[a].valid, e[b].valid, e # d PROVE e[a].run = e[b].run /\ e[a].judged /\ e[b].judged
  BY <1>1, <1>2 DEF OneRun
<1>6. PICK f \in x.writes : e[f] = Broken(r, x.op = "fallback") /\ \A g \in Files : g # f => e[g] = d[g]
  BY <1>5 DEF Damaged
<1>7. f # a /\ f # b
  BY <1>5, <1>6 DEF Broken
<1> QED
  BY <1>3, <1>4, <1>5, <1>6, <1>7
-----------------------------------------------------------------------------
\* Of the ages of files there is a least.
LEMMA AgeIs ==
    ASSUME ScriptInv, NEW reads \in SUBSET Files
    PROVE  /\ Age(reads) \in Ages(reads) /\ Age(reads) \in Nat
           /\ reads = {} => Age(reads) = started
<1>1. started \in Nat /\ disk \in [Files -> ArtifactContents]
  BY DEF ScriptInv
<1>2. Ages(reads) \subseteq Nat /\ started \in Ages(reads) /\ (reads = {} => Ages(reads) = {started})
  BY <1>1 DEF Ages, ArtifactContents
<1>3. PICK ages : ages = Ages(reads)
  OBVIOUS
<1>4. \E r \in ages : \A q \in ages : r <= q
  <2> DEFINE Less == OpToRel(<, Nat)
  <2>1. IsWellFoundedOn(Less, Nat)
    BY NatLessThanWellFounded
  <2>2. \A x, y \in Nat : <<y, x>> \in Less <=> y < x
    BY DEF OpToRel
  <2> HIDE DEF Less
  <2>3. ages \subseteq Nat /\ ages # {}
    BY <1>2, <1>3
  <2>4. PICK r \in ages : \A q \in ages : ~(<<q, r>> \in Less)
    BY <2>1, <2>3, WFMin
  <2>5. \A q \in ages : ~ (q < r)
    BY <2>2, <2>3, <2>4
  <2>6. \A q \in ages : r <= q
    BY <2>3, <2>5
  <2> QED
    BY <2>6
<1>5. \E r : r \in ages /\ \A q \in ages : r <= q
  BY <1>4
<1>6. Age(reads) = CHOOSE r \in ages : \A q \in ages : r <= q
  BY <1>3 DEF Age
<1>7. Age(reads) \in ages
  BY <1>5, <1>6
<1> QED
  BY <1>2, <1>3, <1>7

LEMMA NowIs ==
    ASSUME ScriptInv, next # 0
    PROVE  /\ next \in 1..Len(StepsOf(script)) /\ Now = StepsOf(script)[next] /\ Now \in ScriptSteps
           /\ script \in Scripts /\ EndsSomewhere(StepsOf(script)) /\ started > 0 /\ started \in Nat
           /\ disk \in [Files -> ArtifactContents] /\ EstablishedHolds(StepsOf(script), next, disk)
           /\ next \in Nat /\ Len(StepsOf(script)) \in Nat
<1>1. script \in Scripts /\ next \in Nat /\ next <= Len(StepsOf(script)) /\ Now = StepsOf(script)[next]
  BY DEF ScriptInv, Now
<1>2. EndsSomewhere(StepsOf(script))
  BY <1>1, InOrder
<1>3. Len(StepsOf(script)) \in Nat
  BY <1>2 DEF EndsSomewhere
<1>4. next \in 1..Len(StepsOf(script))
  BY <1>1, <1>3
<1> QED
  BY <1>1, <1>2, <1>3, <1>4, StepIs DEF ScriptInv

\* What a command of a script that makes its own makes is of this run; if a source
\* of it is gone, what it leaves may be as old as that.
LEMMA AgeIsOwn ==
    ASSUME ScriptInv, next # 0, Deletes(script), Now.op \in {"do", "compile"}
    PROVE  /\ Age(Now.reads) \in {0, started}
           /\ There(Now.reads) => Age(Now.reads) = started
<1> PICK s : s = StepsOf(script)
  OBVIOUS
<1>1. /\ next \in 1..Len(s) /\ Now = s[next] /\ Now \in ScriptSteps /\ script \in Scripts
      /\ Now.reads \in SUBSET Files
  BY NowIs DEF ScriptSteps
<1>2. MakesItsOwn(s) /\ OwnHolds(s, next, disk, started)
  BY <1>1, InOrder DEF ScriptInv
<1>3. \A f \in Now.reads \intersect MadeHere : WrittenBefore(s, next, f)
  BY <1>1, <1>2 DEF MakesItsOwn, MadeHere
<1>4. \A f \in Now.reads \intersect MadeHere : disk[f] = Gone \/ disk[f].run = started
  BY <1>1, <1>2, <1>3 DEF OwnHolds
<1>5. Ages(Now.reads) \subseteq {0, started}
  BY <1>4 DEF Ages, Gone
<1>6. There(Now.reads) => Ages(Now.reads) \subseteq {started}
  BY <1>4 DEF Ages, There
<1> QED
  BY <1>1, <1>5, <1>6, AgeIs

\* The steps that end well.
Succeeds == RunCommand \/ DeleteFiles \/ CopyFile \/ CheckFile \/ NeedFile \/ JudgeFiles

LEMMA WriteIs ==
    ASSUME NEW d, NEW files, NEW content, d = [f \in Files |-> IF f \in files THEN content ELSE disk[f]],
           disk \in [Files -> ArtifactContents], content \in ArtifactContents, files \subseteq Files
    PROVE  /\ d \in [Files -> ArtifactContents] /\ \A f \in files : d[f] = content
           /\ \A f \in Files : f \notin files => d[f] = disk[f]
OBVIOUS

LEMMA MadeIs ==
    \A r \in Nat, ok \in BOOLEAN : Made(r, ok) \in ArtifactContents
BY DEF Made, ArtifactContents

LEMMA Succeeded ==
    ASSUME ScriptInv, Succeeds
    PROVE  /\ next # 0 /\ Onward /\ disk' \in [Files -> ArtifactContents]
           /\ \E r \in Nat : /\ Passed(Now, disk, disk', r) /\ (Deletes(script) => r = started)
                             /\ (Now.reads = {} => r > 0)
<1>1. next # 0 /\ Onward
  <2>1. next > 0 /\ Onward
    BY Zenon DEF Succeeds, RunCommand, DeleteFiles, CopyFile, CheckFile, NeedFile, JudgeFiles
  <2> QED
    BY <2>1 DEF ScriptInv
<1> PICK x : x = Now
  OBVIOUS
<1> PICK d : d = disk'
  OBVIOUS
<1>2. /\ x \in ScriptSteps /\ x.reads \in SUBSET Files /\ x.writes \in SUBSET Files /\ disk \in [Files -> ArtifactContents]
      /\ started \in Nat /\ started > 0
      /\ x.op \in {"check", "need", "judge"} => x.writes = {}
  BY <1>1, NowIs DEF ScriptSteps, EndsSomewhere
<1>3. SUFFICES d \in [Files -> ArtifactContents] /\ \E r \in Nat : /\ Passed(x, disk, d, r) /\ (Deletes(script) => r = started)
                                                                 /\ (x.reads = {} => r > 0)
  BY <1>1
<1>4. CASE RunCommand
  <2>1. x.op \in {"do", "compile"} /\ There(x.reads)
    BY <1>4 DEF RunCommand
  <2>2. PICK r \in Nat : r = Age(x.reads)
    BY <1>2, AgeIs
  <2>3. (Deletes(script) => r = started) /\ (x.reads = {} => r > 0)
    BY <1>1, <1>2, <2>1, <2>2, AgeIs, AgeIsOwn
  <2>4. CASE x.silent /\ d = disk
    <3>1. x.op # "do"
      <4>1. x.silent => x.op = "compile"
        BY <1>1, NowIs DEF EndsSomewhere
      <4> QED
        BY <2>4, <4>1
    <3>2. Passed(x, disk, d, r)
      BY <2>1, <2>4, <3>1 DEF Passed, Kept
    <3> QED
      BY <1>2, <2>3, <2>4, <3>2
  <2>5. CASE \E ok \in (IF x.op = "compile" THEN BOOLEAN ELSE {TRUE}) : Write(x.writes, Made(r, ok))
    <3>1. PICK ok \in BOOLEAN : Write(x.writes, Made(r, ok)) /\ (x.op # "compile" => ok = TRUE)
      BY <2>5
    <3>2. d = [f \in Files |-> IF f \in x.writes THEN Made(r, ok) ELSE disk[f]]
      BY <3>1 DEF Write
    <3>3. Made(r, ok) \in ArtifactContents
      BY MadeIs
    <3>4. /\ d \in [Files -> ArtifactContents] /\ \A f \in x.writes : d[f] = Made(r, ok)
          /\ \A f \in Files : f \notin x.writes => d[f] = disk[f]
      BY <1>2, <3>2, <3>3, WriteIs
    <3>5. Made(r, ok) = Made(r, TRUE) \/ Made(r, ok) = Made(r, FALSE)
      OBVIOUS
    <3>6. x.op = "do" => Made(r, ok) = Made(r, TRUE)
      BY <3>1
    <3>7. Passed(x, disk, d, r)
      BY <2>1, <3>4, <3>5, <3>6 DEF Passed, Kept
    <3> QED
      BY <2>3, <3>4, <3>7
  <2> QED
    BY <1>4, <2>2, <2>4, <2>5 DEF RunCommand
<1>5. CASE DeleteFiles
  <2>1. x.op = "delete" /\ d = [f \in Files |-> IF f \in x.writes THEN Gone ELSE disk[f]]
    BY <1>5 DEF DeleteFiles, Write
  <2>2. Gone \in ArtifactContents
    BY DEF Gone, ArtifactContents
  <2>3. /\ d \in [Files -> ArtifactContents] /\ \A f \in x.writes : d[f] = Gone
        /\ \A f \in Files : f \notin x.writes => d[f] = disk[f]
    BY <1>2, <2>1, <2>2, WriteIs
  <2>4. Passed(x, disk, d, started)
    BY <2>1, <2>3 DEF Passed, Kept
  <2> QED
    BY <1>2, <2>3, <2>4
<1>6. CASE CopyFile
  <2>1. PICK g \in x.reads : Write(x.writes, [run |-> disk[g].run, valid |-> disk[g].valid, judged |-> disk[g].judged,
                                              fallback |-> disk[g].fallback \/ x.op = "fallback"])
    BY <1>6 DEF CopyFile
  <2>2. x.op \in {"copy", "fallback"} /\ disk[g] # Gone /\ g \in Files
    BY <1>2, <1>6, <2>1 DEF CopyFile, There
  <2>3. PICK marked \in BOOLEAN : marked = (disk[g].fallback \/ x.op = "fallback")
    OBVIOUS
  <2>4. PICK c : c = [run |-> disk[g].run, valid |-> disk[g].valid, judged |-> disk[g].judged, fallback |-> marked]
    OBVIOUS
  <2>5. disk[g] \in ArtifactContents
    BY <1>2, <2>2
  <2>6. c \in ArtifactContents
    BY <2>4, <2>5 DEF ArtifactContents
  <2>7. d = [f \in Files |-> IF f \in x.writes THEN c ELSE disk[f]]
    BY <2>1, <2>3, <2>4, Zenon DEF Write
  <2>8. /\ d \in [Files -> ArtifactContents] /\ \A f \in x.writes : d[f] = c
        /\ \A f \in Files : f \notin x.writes => d[f] = disk[f]
    BY <1>2, <2>6, <2>7, WriteIs
  <2>9. CopyOf(disk[g], c, x.op = "fallback")
    BY <2>3, <2>4, Zenon DEF CopyOf
  <2>10. \A f \in x.writes : CopyOf(disk[g], d[f], x.op = "fallback")
    BY <2>8, <2>9
  <2>11. Passed(x, disk, d, started)
    BY <2>2, <2>8, <2>10 DEF Passed, Kept
  <2> QED
    BY <1>2, <2>8, <2>11
<1>7. CASE CheckFile \/ NeedFile
  <2>1. d = disk /\ x.op \in {"check", "need"} /\ (x.op = "check" => \A f \in x.reads : disk[f].valid)
    BY <1>7 DEF CheckFile, NeedFile
  <2>2. Passed(x, disk, d, started)
    BY <1>2, <2>1 DEF Passed, Kept
  <2> QED
    BY <1>2, <2>1, <2>2
<1>8. CASE JudgeFiles
  <2>1. /\ x.op = "judge" /\ \A f \in x.reads : disk[f] # Gone
        /\ d = [f \in Files |-> IF f \in x.reads
                              THEN [run |-> disk[f].run, valid |-> disk[f].valid, judged |-> TRUE, fallback |-> disk[f].fallback]
                              ELSE disk[f]]
    BY <1>8 DEF JudgeFiles, There
  <2>2. d \in [Files -> ArtifactContents]
    <3>1. \A f \in Files : [run |-> disk[f].run, valid |-> disk[f].valid, judged |-> TRUE, fallback |-> disk[f].fallback] \in ArtifactContents
      BY <1>2 DEF ArtifactContents
    <3> QED
      BY <1>2, <2>1, <3>1
  <2>3. \A f \in x.reads : /\ f \in Files /\ d[f].judged
                           /\ d[f] = [run |-> disk[f].run, valid |-> disk[f].valid, judged |-> TRUE, fallback |-> disk[f].fallback]
    <3>1. ASSUME NEW f \in x.reads
          PROVE  f \in Files /\ d[f] = [run |-> disk[f].run, valid |-> disk[f].valid, judged |-> TRUE, fallback |-> disk[f].fallback]
      BY <1>2, <2>1, <3>1
    <3> QED
      BY <3>1
  <2>4. \A f \in Files : f \notin x.reads => d[f] = disk[f]
    BY <2>1
  <2>5. \A f \in Files : Kept(disk[f], d[f], x.op = "judge" /\ f \in x.reads)
    BY <2>1, <2>3, <2>4 DEF Kept
  <2>6. Passed(x, disk, d, started)
    BY <1>2, <2>1, <2>3, <2>5 DEF Passed
  <2> QED
    BY <1>2, <2>2, <2>6
<1> QED
  BY <1>4, <1>5, <1>6, <1>7, <1>8 DEF Succeeds

LEMMA PropertiesAre ==
    /\ FallbackIsTold <=> Told(disk)
    /\ FallbackIsTold' <=> Told(disk')
    /\ PackageIsOfOneRun <=> OneRun(disk)
    /\ PackageIsOfOneRun' <=> OneRun(disk')
BY DEF FallbackIsTold, PackageIsOfOneRun, Told, OneRun

\* A step that ended well keeps what is true.
LEMMA SucceedsKeeps == ArtifactInv /\ Succeeds => ArtifactInv'
<1> SUFFICES ASSUME ArtifactInv, Succeeds PROVE ArtifactInv'
  OBVIOUS
<1>1. ScriptInv /\ Told(disk) /\ OneRun(disk)
  BY PropertiesAre DEF ArtifactInv
<1> PICK s : s = StepsOf(script)
  OBVIOUS
<1>2. /\ next # 0 /\ next' = next + 1 /\ script' = script /\ started' = started /\ outcome' = outcome
      /\ disk' \in [Files -> ArtifactContents] /\ outcome = "runs"
  BY <1>1, Succeeded DEF Onward, ScriptInv
<1>3. /\ next \in 1..Len(s) /\ Now = s[next] /\ script \in Scripts /\ EndsSomewhere(s) /\ started > 0 /\ started \in Nat
      /\ disk \in [Files -> ArtifactContents] /\ EstablishedHolds(s, next, disk) /\ next \in Nat /\ Len(s) \in Nat
  BY <1>1, <1>2, NowIs
<1>4. PICK r \in Nat : Passed(s[next], disk, disk', r) /\ (Deletes(script) => r = started) /\ (s[next].reads = {} => r > 0)
  BY <1>1, <1>3, Succeeded
<1>5. next < Len(s)
  BY <1>3, <1>4, StepIs DEF Passed
<1>6. /\ Deletes(script) => MakesItsOwn(s)
      /\ TellsOfFallback(s) /\ PackagesJudged(script, s)
  BY <1>3, InOrder
<1>7. EstablishedHolds(s, next + 1, disk')
  BY <1>2, <1>3, <1>4, PassedKnows
<1>8. Deletes(script) => OwnHolds(s, next + 1, disk', started)
  <2>1. SUFFICES ASSUME Deletes(script) PROVE OwnHolds(s, next + 1, disk', started)
    OBVIOUS
  <2>2. OwnHolds(s, next, disk, r) /\ r = started
    BY <1>1, <1>2, <1>4, <2>1 DEF ScriptInv
  <2> QED
    BY <1>2, <1>3, <1>4, <1>6, <2>1, <2>2, PassedOwns
<1>9. Told(disk')
  BY <1>1, <1>2, <1>3, <1>4, <1>6, PassedTells
<1>10. OneRun(disk')
  BY <1>1, <1>2, <1>3, <1>4, <1>6, <1>7, <1>8, PassedPacks
<1>11. ScriptInv'
  <2>1. next' \in Nat /\ next' <= Len(s)
    BY <1>2, <1>3, <1>5
  <2>2. s = StepsOf(script')
    BY <1>2
  <2> QED
    BY <1>2, <1>3, <1>7, <1>8, <2>1, <2>2 DEF ScriptInv
<1>12. SuccessIsItsOwn'
  BY <1>2 DEF SuccessIsItsOwn
<1> QED
  BY <1>9, <1>10, <1>11, <1>12, PropertiesAre DEF ArtifactInv

-----------------------------------------------------------------------------
LEMMA DamageIs ==
    ASSUME ScriptInv, next # 0, Damage
    PROVE  /\ disk' \in [Files -> ArtifactContents]
           /\ \E r \in Nat : /\ Damaged(Now, disk, disk', r) /\ (Now.reads = {} => r > 0)
                             /\ (Deletes(script) /\ Now.op \in {"do", "compile"} => r \in {0, started})
<1> PICK x : x = Now
  OBVIOUS
<1> PICK d : d = disk'
  OBVIOUS
<1>1. x \in ScriptSteps /\ x.reads \in SUBSET Files /\ x.writes \in SUBSET Files /\ disk \in [Files -> ArtifactContents] /\ started > 0 /\ started \in Nat
  BY NowIs DEF ScriptSteps
<1>2. PICK r \in Nat : r = Age(x.reads)
  BY <1>1, AgeIs
<1>3. (x.reads = {} => r > 0) /\ (Deletes(script) /\ x.op \in {"do", "compile"} => r \in {0, started})
  BY <1>1, <1>2, AgeIs, AgeIsOwn
<1>4. SUFFICES d \in [Files -> ArtifactContents] /\ Damaged(x, disk, d, r)
  BY <1>2, <1>3
<1>5. CASE d = disk
  BY <1>1, <1>5 DEF Damaged
<1>6. CASE d # disk
  <2>1. /\ x.op \in {"do", "compile", "copy", "fallback"}
        /\ \E f \in x.writes : d = [disk EXCEPT ![f] = [run |-> r, valid |-> FALSE, judged |-> FALSE, fallback |-> x.op = "fallback"]]
    BY <1>2, <1>6 DEF Damage
  <2>2. PICK marked \in BOOLEAN : marked = (x.op = "fallback")
    OBVIOUS
  <2>3. PICK f \in x.writes : d = [disk EXCEPT ![f] = Broken(r, marked)]
    BY <2>1, <2>2, Zenon DEF Broken
  <2>4. Broken(r, marked) \in ArtifactContents
    BY DEF Broken, ArtifactContents
  <2>5. d \in [Files -> ArtifactContents] /\ d[f] = Broken(r, marked) /\ \A g \in Files : g # f => d[g] = disk[g]
    BY <1>1, <2>3, <2>4
  <2>6. d[f] = Broken(r, x.op = "fallback")
    BY <2>2, <2>5, Zenon
  <2> QED
    BY <2>1, <2>5, <2>6 DEF Damaged
<1> QED
  BY <1>5, <1>6

\* A step that fails, or dies, keeps what is true.
LEMMA FailureKeeps == ArtifactInv /\ (StepFails \/ ScriptDies) => ArtifactInv'
<1> SUFFICES ASSUME ArtifactInv, StepFails \/ ScriptDies PROVE ArtifactInv'
  OBVIOUS
<1>1. ScriptInv /\ Told(disk) /\ OneRun(disk)
  BY PropertiesAre DEF ArtifactInv
<1> PICK s : s = StepsOf(script)
  OBVIOUS
<1>2. next # 0 /\ Damage
  BY <1>1 DEF StepFails, ScriptDies, ScriptInv
<1>3. /\ next \in 1..Len(s) /\ Now = s[next] /\ script \in Scripts /\ EndsSomewhere(s) /\ started > 0 /\ started \in Nat
      /\ disk \in [Files -> ArtifactContents] /\ EstablishedHolds(s, next, disk) /\ next \in Nat /\ Len(s) \in Nat
  BY <1>1, <1>2, NowIs
<1>4. disk' \in [Files -> ArtifactContents]
  BY <1>1, <1>2, DamageIs
<1>5. PICK r \in Nat : /\ Damaged(s[next], disk, disk', r) /\ (s[next].reads = {} => r > 0)
                       /\ (Deletes(script) /\ s[next].op \in {"do", "compile"} => r \in {0, started})
  BY <1>1, <1>2, <1>3, DamageIs
<1>6. /\ Deletes(script) => MakesItsOwn(s)
      /\ TellsOfFallback(s)
  BY <1>3, InOrder
<1>7. Told(disk')
  BY <1>1, <1>3, <1>4, <1>5, <1>6, DamagedTells
<1>8. OneRun(disk')
  BY <1>1, <1>3, <1>4, <1>5, DamagedPacks
<1>9. CASE next' = 0 /\ outcome' \in {"failed", "died"} /\ script' = script /\ started' = started
  <2>1. ScriptInv'
    BY <1>3, <1>4, <1>9 DEF ScriptInv
  <2>2. SuccessIsItsOwn'
    BY <1>9 DEF SuccessIsItsOwn
  <2> QED
    BY <1>7, <1>8, <2>1, <2>2, PropertiesAre DEF ArtifactInv
<1>10. CASE next' = s[next].orElse /\ s[next].orElse # 0 /\ script' = script /\ started' = started /\ outcome' = outcome
  <2>1. s[next].orElse \in Nat /\ s[next].orElse <= Len(s) /\ s[next].op \in {"do", "compile"}
    <3>1. s[next] \in ScriptSteps
      BY <1>3, StepIs
    <3> QED
      BY <1>3, <1>10, <3>1 DEF EndsSomewhere, ScriptSteps
  <2>2. EstablishedHolds(s, s[next].orElse, disk')
    BY <1>3, <1>4, <1>5, <1>10, DamagedKnows
  <2>3. Deletes(script) => OwnHolds(s, s[next].orElse, disk', started)
    <3>1. SUFFICES ASSUME Deletes(script) PROVE OwnHolds(s, s[next].orElse, disk', started)
      OBVIOUS
    <3>2. OwnHolds(s, next, disk, started)
      BY <1>1, <1>2, <3>1 DEF ScriptInv
    <3>3. r \in {0, started}
      BY <1>5, <2>1, <3>1
    <3> QED
      BY <1>3, <1>4, <1>5, <1>6, <1>10, <3>1, <3>2, <3>3, DamagedOwns
  <2>4. outcome = "runs"
    BY <1>1, <1>2 DEF ScriptInv
  <2>5. s = StepsOf(script')
    BY <1>10
  <2>6. ScriptInv'
    BY <1>3, <1>4, <1>10, <2>1, <2>2, <2>3, <2>4, <2>5 DEF ScriptInv
  <2>7. SuccessIsItsOwn'
    BY <1>10, <2>4 DEF SuccessIsItsOwn
  <2> QED
    BY <1>7, <1>8, <2>6, <2>7, PropertiesAre DEF ArtifactInv
<1> QED
  BY <1>3, <1>9, <1>10 DEF StepFails, ScriptDies, Otherwise, Stopped

\* A script that comes to its end has made its product.
LEMMA FinishKeeps == ArtifactInv /\ Finish => ArtifactInv'
<1> SUFFICES ASSUME ArtifactInv, Finish PROVE ArtifactInv'
  OBVIOUS
<1>1. ScriptInv /\ FallbackIsTold /\ PackageIsOfOneRun
  BY DEF ArtifactInv
<1> PICK s : s = StepsOf(script)
  OBVIOUS
<1>2. /\ next # 0 /\ Now.op = "done" /\ next' = 0 /\ outcome' = "done" /\ script' = script /\ started' = started
      /\ disk' = disk
  BY <1>1 DEF Finish, Stopped, ScriptInv
<1>3. /\ next \in 1..Len(s) /\ Now = s[next] /\ script \in Scripts /\ started > 0 /\ started \in Nat
      /\ disk \in [Files -> ArtifactContents] /\ EstablishedHolds(s, next, disk)
  BY <1>1, <1>2, NowIs
<1>4. ProductIsKnown(script, s)
  BY <1>3, InOrder
<1>5. ASSUME NEW f \in Product(script)
      PROVE  (f # "wit" => disk[f].valid) /\ (Deletes(script) => disk[f].run = started)
  <2>1. PICK fact \in Facts : fact = IF f = "wit" THEN "there" ELSE "valid"
    BY DEF Facts
  <2>2. f \in Files /\ Established(s, next, fact, f) /\ (Deletes(script) => WrittenBefore(s, next, f))
    BY <1>2, <1>3, <1>4, <1>5, <2>1 DEF ProductIsKnown
  <2>3. IsSo(disk[f], fact)
    BY <1>3, <2>2 DEF EstablishedHolds
  <2>4. disk[f] # Gone /\ (f # "wit" => disk[f].valid)
    BY <2>1, <2>3 DEF IsSo, Gone
  <2>5. Deletes(script) => OwnHolds(s, next, disk, started)
    BY <1>1, <1>2 DEF ScriptInv
  <2> QED
    BY <2>2, <2>4, <2>5 DEF OwnHolds
<1>6. SuccessIsItsOwn'
  BY <1>2, <1>5 DEF SuccessIsItsOwn
<1>7. ScriptInv'
  BY <1>2, <1>3 DEF ScriptInv
<1> QED
  BY <1>1, <1>2, <1>6, <1>7 DEF ArtifactInv, FallbackIsTold, PackageIsOfOneRun

LEMMA BeginKeeps == ArtifactInv /\ Begin => ArtifactInv'
<1> SUFFICES ASSUME ArtifactInv, Begin PROVE ArtifactInv'
  OBVIOUS
<1>1. ScriptInv /\ FallbackIsTold /\ PackageIsOfOneRun
  BY DEF ArtifactInv
<1>2. script' \in Scripts /\ next' = 1 /\ started' = started + 1 /\ outcome' = "runs" /\ disk' = disk
  BY DEF Begin
<1> PICK s : s = StepsOf(script')
  OBVIOUS
<1>3. EndsSomewhere(s)
  BY <1>2, InOrder
<1>4. 1 <= Len(s)
  BY <1>3 DEF EndsSomewhere
<1>5. EstablishedHolds(s, 1, disk') /\ OwnHolds(s, 1, disk', started')
  BY DEF EstablishedHolds, OwnHolds, Established, WrittenBefore
<1>6. ScriptInv'
  BY <1>1, <1>2, <1>4, <1>5 DEF ScriptInv
<1>7. SuccessIsItsOwn'
  BY <1>2 DEF SuccessIsItsOwn
<1> QED
  BY <1>1, <1>2, <1>6, <1>7 DEF ArtifactInv, FallbackIsTold, PackageIsOfOneRun

LEMMA ArtifactStarts == ArtifactInit => ArtifactInv
<1> SUFFICES ASSUME ArtifactInit PROVE ArtifactInv
  OBVIOUS
<1>1. disk = [f \in Files |-> IF f \in Given THEN CheckedIn ELSE Gone] /\ next = 0 /\ started = 0 /\ outcome = "none"
  BY DEF ArtifactInit
<1>2. disk \in [Files -> ArtifactContents]
  <2>1. CheckedIn \in ArtifactContents /\ Gone \in ArtifactContents
    BY DEF ArtifactContents, CheckedIn, Gone
  <2> QED
    BY <1>1, <2>1
<1>3. disk["dist_self"] = Gone /\ disk["internal_gc"] = Gone
  <2>1. "dist_self" \in Files /\ "internal_gc" \in Files
    BY ArtifactAssumption DEF Package
  <2>2. "dist_self" \notin Given /\ "internal_gc" \notin Given
    BY DEF Given
  <2> QED
    BY <1>1, <2>1, <2>2
<1> QED
  BY <1>1, <1>2, <1>3 DEF ArtifactInv, ScriptInv, SuccessIsItsOwn, FallbackIsTold, PackageIsOfOneRun, Gone

\* Scripts whose steps are in order leave artifacts of their own run, however many run
\* after one another, wherever a step fails or the process dies, and whatever is left of
\* a file by then (self-optimized-artifacts.mjs, self-opt-task.ts, component-task.ts,
\* build-node-package.mjs).
THEOREM ScriptsLeaveTheirOwn == ArtifactSpec => []ArtifactsAreOwn
<1>1. ASSUME ArtifactInv, [ArtifactNext]_artifactVars PROVE ArtifactInv'
  <2>1. CASE UNCHANGED artifactVars
    BY <1>1, <2>1 DEF artifactVars, ArtifactInv, ScriptInv, SuccessIsItsOwn, FallbackIsTold, PackageIsOfOneRun
  <2>2. CASE ArtifactNext
    BY <1>1, <2>2, BeginKeeps, SucceedsKeeps, FailureKeeps, FinishKeeps DEF ArtifactNext, Succeeds
  <2> QED
    BY <1>1, <2>1, <2>2
<1>2. ArtifactInv => ArtifactsAreOwn
  BY DEF ArtifactInv, ArtifactsAreOwn
<1> QED
  BY <1>1, <1>2, ArtifactStarts, PTL DEF ArtifactSpec
=============================================================================
