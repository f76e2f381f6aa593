---------------------------- MODULE CaseCommands ----------------------------
(***************************************************************************)
(* The commands of one case of a comparison: Starshine, tried again when   *)
(* it leaves no output, the validators, Binaryen, and the canonical form   *)
(* both outputs are brought to before their texts are compared.            *)
(*                                                                         *)
(* wasm-opt encodes a module as Encode says; an encoding may differ from   *)
(* what it encodes, and some shapes grow with every encoding.  Form is     *)
(* one round of the canonical form; equal modules print equal texts.       *)
(***************************************************************************)
EXTENDS Naturals, Sequences

CONSTANTS
    Wasms,        \* encodings of modules
    Encoders,     \* what wasm-opt may make of them
    Absent,       \* no file
    OutputTries,  \* 3, or 1 when Starshine is given as a binary
    FormRounds,   \* 8
    CaseValidators  \* the external validators that are asked, in order

ASSUME CaseCommandsAssumption ==
    /\ Absent \notin Wasms /\ FormRounds \in Nat \ {0}
    /\ OutputTries \subseteq (Nat \ {0}) /\ Encoders \subseteq [Wasms -> Wasms]

VARIABLES
    encode,   \* what wasm-opt makes of a module
    tries,    \* the most attempts
    command,  \* the command that runs, or the end: match, mismatch, failed, aborted
    tried,    \* attempts of Starshine
    file,     \* what each path holds
    age,      \* history: the attempt a file was written in, 0 before the case
    form,     \* the canonicalization: round, source, first encoding
    ended     \* how the case failed: the tool, and the class it is counted in
commandVars == <<encode, tries, command, tried, file, age, form, ended>>

Paths == {"starshine_raw", "binaryen_raw", "starshine", "binaryen"}
Over == {"match", "mismatch", "failed", "aborted"}
NoForm == [round |-> 0, source |-> Absent, first |-> Absent]
Goes(next) == command' = next
Put(path, wasm) == file' = [file EXCEPT ![path] = wasm]

(***************************************************************************)
(* Failures.                                                               *)
(***************************************************************************)
\* The details Starshine's failures begin with; every other one is of wasm-opt.
ClassifyCommandFailure(tool, of) == IF tool = "starshine" THEN "starshine" ELSE "binaryen"

\* runOrThrowAsync throws when a command does not end well; the case ends there.
Throws(tool, of) ==
    /\ Goes("failed") /\ ended' = [tool |-> tool, class |-> ClassifyCommandFailure(tool, of)]
    /\ form' = NoForm /\ UNCHANGED <<encode, tries, tried, age>>

(***************************************************************************)
(* Starshine and the validators.                                           *)
(***************************************************************************)
WithoutOutput == [file EXCEPT !["starshine_raw"] = Absent]

\* A run that ends well without an output is tried again, one that fails is not.
RunStarshineWithRetry ==
    /\ command = "starshine"
    /\ \/ /\ tried < tries /\ tried' = tried + 1
          /\ \/ \E wasm \in Wasms :
                  /\ file' = [WithoutOutput EXCEPT !["starshine_raw"] = wasm]
                  /\ age' = [age EXCEPT !["starshine_raw"] = tried + 1]
                  /\ Goes("validate")
             \/ /\ file' = WithoutOutput /\ UNCHANGED age
                /\ Goes(IF file'["starshine_raw"] # Absent THEN "validate" ELSE "starshine")
          /\ UNCHANGED <<encode, tries, form, ended>>
       \/ /\ tried < tries /\ file' = WithoutOutput /\ Throws("starshine", "starshine")
       \/ tried = tries /\ Throws("starshine", "starshine") /\ UNCHANGED file

Refused(verdict) ==
    /\ Goes("failed") /\ ended' = [tool |-> "validator", class |-> verdict]
    /\ UNCHANGED <<encode, tries, tried, file, age, form>>

\* A validator that cannot be started, or does not end in time, throws: nobody
\* catches that within the case, so neither the case nor its campaign goes on.
Aborts ==
    /\ Goes("aborted") /\ ended' = [tool |-> "validator", class |-> "thrown"]
    /\ UNCHANGED <<encode, tries, tried, file, age, form>>
RunValidate ==
    /\ command = "validate"
    /\ \/ Goes("external") /\ UNCHANGED <<encode, tries, tried, file, age, form, ended>>
       \/ Refused("invalid")
       \/ Aborts

\* One validator after another; one that is not installed accepts nothing.
RunExternalValidators ==
    /\ command = "external"
    /\ \/ Goes("binaryen") /\ UNCHANGED <<encode, tries, tried, file, age, form, ended>>
       \/ \E kind \in CaseValidators : Refused(kind) \/ Aborts

(***************************************************************************)
(* Binaryen and the canonical form.                                        *)
(***************************************************************************)
RunBinaryenOracle ==
    /\ command = "binaryen"
    /\ \/ /\ \E wasm \in Wasms : Put("binaryen_raw", wasm)
          /\ Goes("binaryen_form") /\ UNCHANGED <<encode, tries, tried, age, form, ended>>
       \/ Throws("wasm-opt", "binaryen") /\ UNCHANGED file

\* The paths and commands of one of the two.
Raw(of) == IF of = "starshine" THEN "starshine_raw" ELSE "binaryen_raw"
FormOf(of) == IF of = "starshine" THEN "starshine_form" ELSE "binaryen_form"
PrintOf(of) == IF of = "starshine" THEN "starshine_print" ELSE "binaryen_print"
Begun(of) == IF form.round = 0 THEN [NoForm EXCEPT !.source = file[Raw(of)]] ELSE form
\* Mutant: a round is compared with what the first one was given.
SameAsAtFirst(of, next) == next = file[Raw(of)]
Settled(of, next) == next = Begun(of).source

\* A round encodes what the round before left, until that changes nothing.  What
\* still grows in the last round is left as the first encoding.
FormRound(of) ==
    LET before == Begun(of)
        next == encode[before.source]
        first == IF before.first = Absent THEN next ELSE before.first
        last == before.round + 1 = FormRounds
        done == Settled(of, next) \/ last
    IN  /\ Put(of, IF Settled(of, next) THEN next ELSE IF last THEN first ELSE next)
        /\ form' = IF done THEN NoForm ELSE [round |-> before.round + 1, source |-> next, first |-> first]
        /\ Goes(IF done THEN PrintOf(of) ELSE command)
        /\ UNCHANGED <<encode, tries, tried, age, ended>>
CanonicalizeWasm ==
    \E of \in {"starshine", "binaryen"} :
        /\ command = FormOf(of)
        /\ FormRound(of) \/ (Throws("wasm-opt", of) /\ UNCHANGED file)

NormalizePrintWat ==
    \E of \in {"starshine", "binaryen"} :
        /\ command = PrintOf(of)
        /\ \/ /\ Goes(IF of = "binaryen" THEN "starshine_form" ELSE IF file["starshine"] = file["binaryen"] THEN "match" ELSE "mismatch")
              /\ UNCHANGED <<encode, tries, tried, age, form, ended>>
           \/ Throws("wasm-opt", of)
        /\ UNCHANGED file

\* The directory of a case may hold what a campaign that died has left there.
CommandInit ==
    /\ encode \in Encoders /\ tries \in OutputTries
    /\ command = "starshine" /\ tried = 0 /\ form = NoForm /\ ended = [tool |-> "none", class |-> "none"]
    /\ \E old \in Wasms \union {Absent} : file = [p \in Paths |-> old]
    /\ age = [p \in Paths |-> 0]
CommandNext == RunStarshineWithRetry \/ RunValidate \/ RunExternalValidators \/ RunBinaryenOracle \/ CanonicalizeWasm \/ NormalizePrintWat
CommandSpec == CommandInit /\ [][CommandNext]_commandVars

(***************************************************************************)
(* Properties.                                                             *)
(***************************************************************************)
\* What is validated and compared was written by the attempt that ended well, and
\* not by a campaign before it or by an attempt that left nothing; and a command
\* that fails is counted against the tool it is of.
OutputIsOfTheAttempt ==
    /\ command \notin {"starshine", "failed"} => file["starshine_raw"] # Absent /\ age["starshine_raw"] = tried
    /\ command = "failed" /\ ended.tool # "validator" => (ended.class = "starshine" <=> ended.tool = "starshine")

\* How a module looks after some encodings, and whether encoding settles in time.
Encoded(wasm, n) == LET f[i \in 0..n] == IF i = 0 THEN wasm ELSE encode[f[i - 1]] IN f[n]
SettlesAt(wasm) == Encoded(wasm, FormRounds) = Encoded(wasm, FormRounds - 1)

\* Two outputs of which one is an encoding of the other do not differ, however
\* often each was encoded before, where encoding settles within the rounds.
EncodingsAreNoMismatch ==
    LET s == file["starshine_raw"] b == file["binaryen_raw"] IN
    command = "mismatch" /\ SettlesAt(s) /\ SettlesAt(b) =>
        \A n \in 0..FormRounds : Encoded(s, n) # b /\ Encoded(b, n) # s

\* The output of a tool is that of the attempt that succeeded, and modules that
\* differ only in their encoding are no mismatch.
CommandsKeepTheCase == OutputIsOfTheAttempt /\ EncodingsAreNoMismatch
=============================================================================
