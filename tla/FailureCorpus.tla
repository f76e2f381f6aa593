--------------------------- MODULE FailureCorpus ---------------------------
(***************************************************************************)
(* Retained failures: their replay, their promotion into the regression    *)
(* corpus, and the exploration of their neighbours.                        *)
(*                                                                         *)
(* A bundle is what the compare task kept of a failure.  A promotion       *)
(* replays it, and writes a case directory and then the index; several     *)
(* promotions may run on one corpus, and one may die between two writes.   *)
(* What a replay of the optimizer shows is a fingerprint, or NoPrint when  *)
(* nothing fails.                                                          *)
(***************************************************************************)
EXTENDS Naturals, Sequences, FiniteSets

CONSTANTS Promoters, Bundles, Prints, FamilyOf, NoPrint, NoFile, Torn, Budget

VARIABLES
    corpus,     \* the case directories, how often each was made, and whether a promotion died in it
    index,      \* the cases index.json names
    promoting,  \* the step each promotion is at
    of,         \* its bundle
    saw,        \* what its replay showed, until it is written
    listed,     \* the cases it is about to write into the index
    overlapped, \* history: two were at once between listing the cases and writing them
    variants    \* what the exploration of a failure has found
corpusVars == <<corpus, index, promoting, of, saw, listed, overlapped, variants>>

SemanticV2 == "semantic-self-v2"
Shown == Prints \union {NoPrint}

\* parseFailureMetadata: a failure without a property class is none to promote.
Promotable == {b \in Bundles : b.class # NoFile}

\* The case an artifact is filed under: its class and the hash of its input.
Id(b) == [class |-> b.class, input |-> b.input]
Ids == {Id(b) : b \in Promotable}
Predicate(b) == [class |-> b.class, passes |-> b.passes, print |-> b.print]

\* pipeline.passes is the reduced list when the campaign made one.
Manifest(b, shown) ==
    [id |-> Id(b), input |-> b.input, predicate |-> Predicate(b), fingerprint |-> b.print,
     passes |-> IF b.shortened = NoFile THEN b.passes ELSE b.shortened, shown |-> shown]

\* A manifest that is written whole can be read.
ASSUME CorpusAssumption ==
    \A b \in Promotable, shown \in Shown : Manifest(b, shown) \notin {NoFile, Torn}

Legible == {id \in Ids : corpus[id].manifest \notin {NoFile, Torn}}

(***************************************************************************)
(* Replay.                                                                 *)
(***************************************************************************)
\* A bundle has semantic-fingerprint.json beside its metadata.
BundleSpec(b) == [class |-> b.class, expected |-> b.print, persisted |-> b.print]

\* A case is read at semanticEvidence.fingerprint, and promotion writes neither
\* that field nor semantic-fingerprint.json.
CaseSpec(m) == [class |-> m.id.class, expected |-> NoPrint, persisted |-> m.fingerprint]

Reproduced(spec, shown, level) ==
    /\ shown # NoPrint
    /\ \/ spec.class # SemanticV2
       \/ spec.expected = NoPrint
       \/ shown = spec.expected
       \/ level = "family" /\ FamilyOf[shown] = FamilyOf[spec.expected]

\* A replay runs the optimizer once, twice to compare two outputs, and twice more
\* without passes for the codec: every run must come to its end.
Once == {SemanticV2, "semantic-self", "validation-failure"}
Replayable == Once \union {"optimizer-nondeterminism", "codec-idempotence", "optimizer-idempotence"}
JudgeReplay(spec, ran, shown, level) ==
    IF ran THEN spec.class \in Replayable /\ Reproduced(spec, shown, level) ELSE spec.class = "command-failure"

Sources == {BundleSpec(b) : b \in Promotable} \union {CaseSpec(corpus[id].manifest) : id \in Legible}

(***************************************************************************)
(* Promotion.                                                              *)
(***************************************************************************)
Unused == CHOOSE b \in Promotable : TRUE
Resting == {"idle", "duplicate", "promoted"}
Promote(w) ==
    /\ promoting[w] \in Resting
    /\ \E b \in Promotable : of' = [of EXCEPT ![w] = b]
    /\ promoting' = [promoting EXCEPT ![w] = "verify"]
    /\ saw' = [saw EXCEPT ![w] = NoPrint]
    /\ UNCHANGED <<corpus, index, listed, overlapped, variants>>

\* Mutant: what the replay reports is not looked at.
VerifyLightly(w) ==
    /\ promoting[w] = "verify"
    /\ \E ran \in BOOLEAN, shown \in Shown :
        /\ saw' = [saw EXCEPT ![w] = shown]
        /\ promoting' = [promoting EXCEPT ![w] = IF ran THEN "scan" ELSE "refused"]
    /\ UNCHANGED <<corpus, index, of, listed, overlapped, variants>>
\* A run that does not end well shows that much.
VerifyFailure(w) ==
    /\ promoting[w] = "verify"
    /\ \E ran \in BOOLEAN, shown \in Shown :
        LET reproduced == JudgeReplay(BundleSpec(of[w]), ran, shown, "exact") IN
        /\ ran \/ shown # NoPrint
        /\ saw' = [saw EXCEPT ![w] = IF reproduced THEN shown ELSE NoPrint]
        /\ promoting' = [promoting EXCEPT ![w] = IF reproduced THEN "scan" ELSE "refused"]
    /\ UNCHANGED <<corpus, index, of, listed, overlapped, variants>>

Known(b) == {id \in Legible : corpus[id].manifest.input = b.input /\ corpus[id].manifest.predicate = Predicate(b)}
Scan(w) ==
    /\ promoting[w] = "scan"
    /\ promoting' = [promoting EXCEPT ![w] =
            IF Known(of[w]) # {} THEN "list_duplicate"
            ELSE IF corpus[Id(of[w])].makers # 0 THEN "refused" ELSE "make"]
    /\ UNCHANGED <<corpus, index, of, saw, listed, overlapped, variants>>

\* A promotion writes its case.
WritesCase(w, step, case, next) ==
    /\ promoting[w] = step
    /\ corpus' = [corpus EXCEPT ![Id(of[w])] = case]
    /\ promoting' = [promoting EXCEPT ![w] = next]
    /\ UNCHANGED <<index, of, saw, listed, overlapped, variants>>
CaseOf(w) == corpus[Id(of[w])]

\* Of two that found the directory missing, the second finds it made and goes on.
MakeCase(w) == WritesCase(w, "make", [CaseOf(w) EXCEPT !.makers = @ + 1], "copy")

\* copyFileSync puts the bytes one after another: a reader, or the end of the
\* process, finds part of the file.
CopyInput(w) ==
    \/ WritesCase(w, "copy", [CaseOf(w) EXCEPT !.file = Torn], "copied")
    \/ WritesCase(w, "copied", [CaseOf(w) EXCEPT !.file = of[w].input], "describe")
WriteManifest(w) ==
    \/ WritesCase(w, "describe", [CaseOf(w) EXCEPT !.manifest = Torn], "described")
    \/ WritesCase(w, "described", [CaseOf(w) EXCEPT !.manifest = Manifest(of[w], saw[w])], "list")

\* writeIndex lists the cases, then writes their names.
Indexing == {"index", "index_duplicate"}
ListCases(w) ==
    /\ promoting[w] \in {"list", "list_duplicate"}
    /\ listed' = [listed EXCEPT ![w] = Legible] /\ saw' = [saw EXCEPT ![w] = NoPrint]
    /\ overlapped' = (overlapped \/ \E v \in Promoters : promoting[v] \in Indexing)
    /\ promoting' = [promoting EXCEPT ![w] = IF @ = "list" THEN "index" ELSE "index_duplicate"]
    /\ UNCHANGED <<corpus, index, of, variants>>
WriteIndex(w) ==
    /\ promoting[w] \in Indexing
    /\ index' = listed[w] /\ listed' = [listed EXCEPT ![w] = {}]
    /\ promoting' = [promoting EXCEPT ![w] = IF @ = "index" THEN "promoted" ELSE "duplicate"]
    /\ UNCHANGED <<corpus, of, saw, overlapped, variants>>

\* The end of a promotion that was refused, or that dies between two writes: it
\* leaves the directory it made as it is, and unlisted.
Writing == {"copy", "copied", "describe", "described"}
GivesUp(w) ==
    /\ promoting[w] \notin Resting
    /\ corpus' = IF promoting[w] \in Writing \union {"list", "index"}
                 THEN [corpus EXCEPT ![Id(of[w])] = [CaseOf(w) EXCEPT !.abandoned = TRUE]] ELSE corpus
    /\ promoting' = [promoting EXCEPT ![w] = "idle"] /\ of' = [of EXCEPT ![w] = Unused]
    /\ saw' = [saw EXCEPT ![w] = NoPrint] /\ listed' = [listed EXCEPT ![w] = {}]
    /\ UNCHANGED <<index, overlapped, variants>>

(***************************************************************************)
(* The neighbours of a failure, of a corpus nobody is writing.             *)
(***************************************************************************)
Add(family, match) ==
    /\ Len(variants) < Budget /\ \A w \in Promoters : promoting[w] \in Resting
    /\ variants' = Append(variants, [match |-> match, new |-> \A i \in DOMAIN variants : variants[i].family # family, family |-> family])
    /\ UNCHANGED <<corpus, index, promoting, of, saw, listed, overlapped>>

\* wasm-tools makes no module, or one it does not accept.
Unusable == Add("blocked", "blocked") \/ Add("invalid", "none")

\* The exact replay, and another run of the optimizer for the family.
Explore ==
    \E spec \in {spec \in Sources : spec.class \in Once}, exact \in Shown, near \in Shown :
        LET match == IF Reproduced(spec, exact, "exact") THEN "exact"
                     ELSE IF Reproduced(spec, near, "family") THEN "family" ELSE "none"
        IN Add(match, match)

CorpusInit ==
    /\ corpus = [id \in Ids |-> [makers |-> 0, abandoned |-> FALSE, file |-> NoFile, manifest |-> NoFile]]
    /\ index = {} /\ listed = [w \in Promoters |-> {}] /\ variants = <<>>
    /\ promoting = [w \in Promoters |-> "idle"] /\ of = [w \in Promoters |-> Unused]
    /\ saw = [w \in Promoters |-> NoPrint] /\ overlapped = FALSE

CorpusNext ==
    \/ Unusable \/ Explore
    \/ variants = <<>> /\ \E w \in Promoters : Promote(w) \/ VerifyFailure(w) \/ Scan(w) \/ MakeCase(w) \/ CopyInput(w)
                            \/ WriteManifest(w) \/ ListCases(w) \/ WriteIndex(w) \/ GivesUp(w)

CorpusSpec == CorpusInit /\ [][CorpusNext]_corpusVars

(***************************************************************************)
(* Properties.                                                             *)
(***************************************************************************)
\* A case directory that nobody is writing and in which nobody died is whole, also
\* when two promotions raced past the check that it is missing and wrote it both;
\* and what the index names is whole if it was made once, whoever died.
Whole(id) == id \in Legible /\ corpus[id].file = id.input
AtRest(id) == ~corpus[id].abandoned /\ \A w \in Promoters : Id(of[w]) = id => promoting[w] \notin Writing
CasesAreWhole ==
    \A id \in Ids :
        (corpus[id].makers # 0 /\ AtRest(id)) \/ (corpus[id].makers = 1 /\ id \in index) => Whole(id)

\* A case that can be read was replayed before it was filed, and showed the
\* fingerprint it is filed with, if it has one.
CasesWereReplayed ==
    \A id \in Legible :
        LET m == corpus[id].manifest IN
        m.id = id /\ m.shown # NoPrint /\ (id.class = SemanticV2 => m.fingerprint \in {NoPrint, m.shown})

\* A promotion that ended well, with a new case or with an earlier one, left a case
\* directory of its class and input; and of its own passes and fingerprint too,
\* unless another promotion made that directory at the same time.
PromotedIsFiled ==
    \A w \in Promoters :
        promoting[w] \in {"promoted", "duplicate"} =>
            /\ corpus[Id(of[w])].makers # 0
            /\ corpus[Id(of[w])].makers = 1 => Known(of[w]) # {}

\* The index names directories that were made.  It lacks a case that can be read
\* only while the case's promotion is still to write it, or because a promotion of
\* the case died, or because two promotions listed and wrote at once.
IndexFollows ==
    /\ \A id \in index : corpus[id].makers # 0
    /\ ~overlapped =>
        \A id \in Legible \ index :
            \/ corpus[id].abandoned
            \/ \E w \in Promoters : Id(of[w]) = id /\ promoting[w] \in {"list", "index"}

\* A failure that persists its fingerprint replays only as that fingerprint, from
\* the bundle and, once it is promoted, from the corpus.
ReplayRequiresTheFingerprint ==
    \A spec \in Sources, ran \in BOOLEAN, shown \in Shown :
        spec.class = SemanticV2 /\ spec.persisted # NoPrint /\ JudgeReplay(spec, ran, shown, "exact") => shown = spec.persisted

\* A promoted failure stays in the index, as the test of the promotion reads it
\* back: refuted, for another promotion may have listed the cases before.
PromotedIsIndexed ==
    \A w \in Promoters :
        promoting[w] \in {"promoted", "duplicate"} /\ corpus[Id(of[w])].makers = 1 => Id(of[w]) \in index

\* Promoters may run at once and die: what their races and deaths can spoil, and
\* what they cannot.
CorpusIsWhole == CasesAreWhole /\ CasesWereReplayed /\ PromotedIsFiled /\ IndexFollows
=============================================================================
