---------------------------- MODULE Node_proofs ----------------------------
(***************************************************************************)
(* The Node package, for every value of the constants: what the command    *)
(* writes is its own whatever is said and whichever callback fails; an     *)
(* exchange over the bulk protocol returns its own answer, through memory  *)
(* that grows; and the handles of the file system host follow the guest.   *)
(***************************************************************************)
EXTENDS NodeCommand, BulkCli, HostHandles, FiniteSetTheorems, WellFoundedInduction, TLAPS

\* What is true of 0 and of the next one is true up to k.
LEMMA Onwards ==
    ASSUME NEW k \in Nat, NEW S, 0 \in S,
           \A j \in 1..k : j - 1 \in S => j \in S
    PROVE  0..k \subseteq S
<1> DEFINE Bad == (0..k) \ S
<1> SUFFICES ASSUME Bad # {} PROVE FALSE
  OBVIOUS
<1>1. Bad \subseteq Nat
  OBVIOUS
<1> DEFINE Less == OpToRel(<, Nat)
<1>2. IsWellFoundedOn(Less, Nat)
  BY NatLessThanWellFounded
<1>3. \A x, y \in Nat : <<y, x>> \in Less <=> y < x
  BY DEF OpToRel
<1> HIDE DEF Less, Bad
<1>4. PICK j \in Bad : \A y \in Bad : ~(<<y, j>> \in Less)
  BY <1>1, <1>2, WFMin
<1>5. \A y \in Bad : ~(y < j)
  BY <1>1, <1>3, <1>4
<1>6. j \in 1..k /\ j \notin S
  BY <1>4 DEF Bad
<1>7. j - 1 \in S
  BY <1>5, <1>6 DEF Bad
<1> QED
  BY <1>6, <1>7

-----------------------------------------------------------------------------
(* appendUnique *)

Distinct(s) == \A i, j \in 1..Len(s) : s[i] = s[j] => i = j

\* One more value.
Appended(s, x, S) == IF x \in S \ ToSet(s) THEN Append(s, x) ELSE s

LEMMA AppendedIs ==
    ASSUME NEW T, NEW S \in SUBSET T, NEW s \in Seq(T), Distinct(s), NEW x
    PROVE  Appended(s, x, S) \in Seq(T) /\ Distinct(Appended(s, x, S))
<1>1. CASE x \in S \ ToSet(s)
  <2>1. x \in T /\ \A i \in 1..Len(s) : s[i] # x
    BY <1>1 DEF ToSet
  <2>2. PICK u : u = Append(s, x)
    OBVIOUS
  <2>3. u \in Seq(T) /\ Len(u) = Len(s) + 1 /\ \A i \in 1..(Len(s) + 1) : u[i] = IF i <= Len(s) THEN s[i] ELSE x
    BY <2>1, <2>2
  <2>4. Distinct(u)
    <3> SUFFICES ASSUME NEW i \in 1..Len(u), NEW j \in 1..Len(u), u[i] = u[j]
                 PROVE  i = j
      BY DEF Distinct
    <3>1. Len(s) \in Nat /\ i \in 1..(Len(s) + 1) /\ j \in 1..(Len(s) + 1)
      BY <2>3
    <3>2. CASE i <= Len(s) /\ j <= Len(s)
      BY <2>3, <3>1, <3>2 DEF Distinct
    <3>3. CASE i > Len(s) /\ j > Len(s)
      BY <3>1, <3>3
    <3>4. CASE i <= Len(s) /\ j > Len(s)
      BY <2>1, <2>3, <3>1, <3>4
    <3>5. CASE i > Len(s) /\ j <= Len(s)
      BY <2>1, <2>3, <3>1, <3>5
    <3> QED
      BY <3>1, <3>2, <3>3, <3>4, <3>5
  <2> QED
    BY <1>1, <2>2, <2>3, <2>4 DEF Appended
<1>2. CASE ~(x \in S \ ToSet(s))
  BY <1>2 DEF Appended
<1> QED
  BY <1>1, <1>2

\* The lists after each of the values.
AppendedAlong(f, list, values, S, k) ==
    /\ f = [i \in 0..k |-> f[i]] /\ f[0] = list
    /\ \A i \in 1..k : f[i] = Appended(f[i - 1], values[i], S)

LEMMA AlongIsThere ==
    ASSUME NEW list, NEW values, NEW S, NEW n \in Nat
    PROVE  \E f : AppendedAlong(f, list, values, S, n)
<1> DEFINE Ks == {k \in 0..n : \E f : AppendedAlong(f, list, values, S, k)}
<1>1. 0 \in Ks
  <2>1. AppendedAlong([i \in 0..0 |-> list], list, values, S, 0)
    BY DEF AppendedAlong
  <2> QED
    BY <2>1
<1>2. ASSUME NEW j \in 1..n, j - 1 \in Ks
      PROVE  j \in Ks
  <2>1. PICK f : AppendedAlong(f, list, values, S, j - 1)
    BY <1>2
  <2>2. PICK g : g = [i \in 0..j |-> IF i < j THEN f[i] ELSE Appended(f[j - 1], values[j], S)]
    OBVIOUS
  <2>3. \A i \in 0..j : g[i] = IF i < j THEN f[i] ELSE Appended(f[j - 1], values[j], S)
    BY <2>2
  <2>4. g = [i \in 0..j |-> g[i]] /\ g[0] = list
    BY <2>1, <2>2 DEF AppendedAlong
  <2>5. \A i \in 1..j : g[i] = Appended(g[i - 1], values[i], S)
    <3> TAKE i \in 1..j
    <3>1. i - 1 \in 0..j /\ i - 1 < j /\ i \in 0..j
      OBVIOUS
    <3>2. g[i - 1] = f[i - 1]
      BY <2>3, <3>1
    <3>3. CASE i < j
      <4>1. i \in 1..(j - 1) /\ g[i] = f[i]
        BY <2>3, <3>1, <3>3
      <4>2. f[i] = Appended(f[i - 1], values[i], S)
        BY <2>1, <4>1 DEF AppendedAlong
      <4> QED
        BY <3>2, <4>1, <4>2
    <3>4. CASE i = j
      BY <2>3, <3>1, <3>2, <3>4
    <3> QED
      BY <3>3, <3>4
  <2>6. AppendedAlong(g, list, values, S, j)
    BY <2>4, <2>5 DEF AppendedAlong
  <2> QED
    BY <2>6
<1> HIDE DEF Ks
<1>3. 0..n \subseteq Ks
  BY <1>1, <1>2, Onwards
<1> QED
  BY <1>3 DEF Ks

\* Values are added to a list of values that differ, and they differ again.
LEMMA AppendUniqueIs ==
    ASSUME NEW T, NEW S \in SUBSET T, NEW list \in Seq(T), Distinct(list), NEW V, NEW values \in Seq(V)
    PROVE  AppendUnique(list, values, S) \in Seq(T) /\ Distinct(AppendUnique(list, values, S))
<1> DEFINE n == Len(values)
           Is(h) == h = [i \in 0..Len(values) |->
                            IF i = 0 THEN list
                            ELSE IF values[i] \in S \ ToSet(h[i - 1]) THEN Append(h[i - 1], values[i]) ELSE h[i - 1]]
           chosen == CHOOSE h : Is(h)
<1>1. n \in Nat
  OBVIOUS
<1>2. PICK f : AppendedAlong(f, list, values, S, n)
  BY <1>1, AlongIsThere
<1>3. Is(f)
  <2>1. \A i \in 0..Len(values) : f[i] = IF i = 0 THEN list
                                 ELSE IF values[i] \in S \ ToSet(f[i - 1]) THEN Append(f[i - 1], values[i]) ELSE f[i - 1]
    <3> TAKE i \in 0..Len(values)
    <3>1. CASE i = 0
      BY <1>2, <3>1, Zenon DEF AppendedAlong
    <3>2. CASE i # 0
      <4>1. i \in 1..Len(values)
        BY <1>1, <3>2
      <4> QED
        BY <1>2, <3>2, <4>1, Zenon DEF AppendedAlong, Appended
    <3> QED
      BY <3>1, <3>2
  <2>2. f = [i \in 0..Len(values) |-> f[i]]
    BY <1>2 DEF AppendedAlong
  <2> QED
    BY <2>1, <2>2, Zenon
<1>4. Is(chosen)
  <2> HIDE DEF Is
  <2> QED
    BY <1>3
<1>5. AppendUnique(list, values, S) = chosen[n]
  BY DEF AppendUnique
<1> HIDE DEF chosen
<1>10. PICK upTo : upTo = chosen
  OBVIOUS
<1>11. Is(upTo)
  BY <1>4, <1>10, Zenon
<1>6. upTo[0] = list /\ \A i \in 1..n : upTo[i] = Appended(upTo[i - 1], values[i], S)
  <2>1. \A i \in 0..Len(values) : upTo[i] = IF i = 0 THEN list
                                    ELSE IF values[i] \in S \ ToSet(upTo[i - 1]) THEN Append(upTo[i - 1], values[i])
                                    ELSE upTo[i - 1]
    BY <1>11, Zenon
  <2>2. 0 \in 0..Len(values) /\ \A i \in 1..n : i \in 0..Len(values) /\ i # 0
    BY <1>1
  <2>3. upTo[0] = list
    BY <2>1, <2>2, Zenon
  <2>4. ASSUME NEW i \in 1..n PROVE upTo[i] = Appended(upTo[i - 1], values[i], S)
    BY <2>1, <2>2, Zenon DEF Appended
  <2> QED
    BY <2>3, <2>4
<1> DEFINE Good == {k \in 0..n : upTo[k] \in Seq(T) /\ Distinct(upTo[k])}
<1>7. 0 \in Good
  BY <1>1, <1>6
<1>8. \A j \in 1..n : j - 1 \in Good => j \in Good
  BY <1>1, <1>6, AppendedIs
<1> HIDE DEF Good, n
<1>9. 0..n \subseteq Good
  BY <1>1, <1>7, <1>8, Onwards
<1> QED
  BY <1>1, <1>5, <1>9, <1>10 DEF Good

-----------------------------------------------------------------------------
(* The invariant *)

Early == {"parse", "spec", "config", "merge"}
Running == {"read", "lower", "decode", "write"}

\* The steps, and the files and inputs they work on: the queue is what is left
\* of the inputs, which differ, and nothing is written before there are inputs.
ShapeInv ==
    /\ cli \in CommandLines /\ env \in Environments /\ config \in Configs
    /\ first \in Disks /\ DOMAIN disk = Paths
    /\ inputs \in Seq(Paths) /\ Distinct(inputs)
    /\ queue \in Seq(Paths) /\ Len(queue) <= Len(inputs)
    /\ \A i \in 1..Len(queue) : queue[i] = inputs[(Len(inputs) - Len(queue)) + i]
    /\ step \in Early \union Running \union {"done"}
    /\ step \in Early => inputs = <<>> /\ queue = <<>> /\ result = "none"
    /\ step \in Running => queue # <<>> /\ result = "none"
    /\ inputs = <<>> => written = {} /\ disk = first
    /\ inputs # <<>> => merged.targets \in Seq(OutputTargets)
    /\ step = "write" => target \in 1..(Len(Targets) + 1)
    /\ result = "ok" => queue = <<>>

Wrote(x, t) == \E w \in written : w.input = x /\ w.for = t
IsOutput(t) == Targets[t].kind # "stdout"

\* Which outputs of which input have been written.
OrderInv ==
    \A i \in 1..Len(inputs) : \A t \in 1..Len(Targets) :
        LET done == Len(inputs) - Len(queue) IN
        /\ i > done + 1 => ~Wrote(inputs[i], t)
        /\ i <= done => (Wrote(inputs[i], t) <=> IsOutput(t))
        /\ i = done + 1 /\ step \in {"read", "lower", "decode"} => ~Wrote(inputs[i], t)
        /\ i = done + 1 /\ step = "write" => (Wrote(inputs[i], t) <=> IsOutput(t) /\ t < target)

\* A write is of an output of an input, and goes where the target says.
IsPlace(t, x, p) ==
    \/ t.kind = "file" /\ t.path = p
    \/ t.kind = "dir" /\ t.dir = p.dir
    \/ t.kind = "default" /\ (p.ext = "wasm" \/ p = x)
PlaceInv ==
    \A w \in written : /\ w.path \in Paths /\ w.for \in 1..Len(Targets)
                       /\ \E i \in 1..Len(inputs) : w.input = inputs[i]
                       /\ IsPlace(Targets[w.for], w.input, w.path)

\* A file that nobody wrote is as it was; what the input in work has become is
\* its own, unless another input's output took its place.
Undisturbed(x) == \A v \in written : v.input # x => v.path # x
ContentInv ==
    /\ \A p \in Paths : disk[p] # first[p] => \E w \in written : w.path = p
    /\ step \in {"lower", "decode"} /\ Undisturbed(Input) => bytes.of = Input /\ bytes.runs = <<>>
    /\ step = "write" /\ Undisturbed(Input) => bytes = [of |-> Input, form |-> "wasm", runs |-> <<Job>>]

CommandInv == ShapeInv /\ OrderInv /\ PlaceInv /\ ContentInv /\ OutputsAreOwn

LEMMA Init == CommandInit => CommandInv
<1> SUFFICES ASSUME CommandInit PROVE CommandInv
  OBVIOUS
<1>1. /\ cli \in CommandLines /\ env \in Environments /\ config \in Configs
      /\ disk \in Disks /\ first = disk /\ step = "parse" /\ queue = <<>> /\ written = {} /\ inputs = <<>> /\ result = "none"
  BY DEF CommandInit
<1>2. DOMAIN disk = Paths
  BY <1>1, CommandAssumption
<1>3. ShapeInv
  BY <1>1, <1>2 DEF ShapeInv, Early, Running, Distinct
<1>4. OrderInv /\ PlaceInv /\ ContentInv /\ OutputsAreOwn
  BY <1>1 DEF OrderInv, PlaceInv, ContentInv, OutputsAreOwn
<1> QED
  BY <1>3, <1>4 DEF CommandInv

\* What the steps before the first write leave alone.
Kept == <<cli, env, config, first, merged, queue, disk, written, inputs>>

LEMMA OwnKept ==
    ASSUME UNCHANGED Kept
    PROVE  /\ OutputsAreOwn => OutputsAreOwn'
           /\ PlaceInv => PlaceInv'
           /\ Targets' = Targets /\ Input' = Input /\ Job' = Job
           /\ \A x : Undisturbed(x)' <=> Undisturbed(x)
<1>1. Targets' = Targets
  BY DEF Targets, Kept
<1>2. Job' = Job
  BY DEF Job, Kept
<1>3. Input' = Input
  BY DEF Input, Kept
<1>4. OutputsAreOwn => OutputsAreOwn'
  BY <1>2 DEF OutputsAreOwn, Kept
<1>5. PlaceInv => PlaceInv'
  BY <1>1 DEF PlaceInv, Kept
<1>6. \A x : Undisturbed(x)' <=> Undisturbed(x)
  BY DEF Undisturbed, Kept
<1> QED
  BY <1>1, <1>2, <1>3, <1>4, <1>5, <1>6

\* A step before there are inputs.
LEMMA EarlyStep ==
    ASSUME CommandInv, UNCHANGED Kept, step \in Early, step' \in Early \union {"done"},
           step' = "done" \/ result' = result
    PROVE  CommandInv'
<1> USE DEF CommandInv
<1>1. inputs = <<>> /\ queue = <<>> /\ result = "none" /\ inputs' = <<>> /\ queue' = <<>>
  BY DEF ShapeInv, Kept
<1>2. ShapeInv'
  BY <1>1 DEF ShapeInv, Kept, Early, Running, Distinct
<1>3. OrderInv'
  BY <1>1 DEF OrderInv
<1>4. ContentInv'
  BY DEF ContentInv, Kept, Early
<1> QED
  BY <1>2, <1>3, <1>4, OwnKept

\* A step from reading an input to the first write.
LEMMA WorkStep ==
    ASSUME CommandInv, UNCHANGED Kept, step \in {"read", "lower", "decode"},
           step' \in {"lower", "decode", "write", "done"},
           step' = "write" => target' = 1,
           \/ step' # "done" /\ result' = result
           \/ step' = "done" /\ result' # "ok",
           step' \in {"lower", "decode"} /\ Undisturbed(Input) => bytes'.of = Input /\ bytes'.runs = <<>>,
           step' = "write" /\ Undisturbed(Input) => bytes' = [of |-> Input, form |-> "wasm", runs |-> <<Job>>]
    PROVE  CommandInv'
<1> USE DEF CommandInv
<1>1. Targets' = Targets /\ Input' = Input /\ Job' = Job /\ (Undisturbed(Input)' <=> Undisturbed(Input))
  BY OwnKept
<1>2. Len(Targets) \in Nat
  <2>1. inputs # <<>>
    BY DEF ShapeInv, Running
  <2>2. merged.targets \in Seq(OutputTargets)
    BY <2>1 DEF ShapeInv
  <2> QED
    BY <2>2 DEF Targets
<1>3. ShapeInv'
  BY <1>1, <1>2 DEF ShapeInv, Kept, Early, Running, Distinct
<1>4. OrderInv'
  <2>1. inputs' = inputs /\ queue' = queue /\ written' = written
    BY DEF Kept
  <2>2. \A x, t : Wrote(x, t)' <=> Wrote(x, t)
    BY <2>1 DEF Wrote
  <2>3. \A t : IsOutput(t)' <=> IsOutput(t)
    BY <1>1 DEF IsOutput
  <2>4. \A t \in 1..Len(Targets) : step' = "write" => ~(t < target')
    BY <1>2
  <2> QED
    BY <1>1, <1>2, <2>1, <2>2, <2>3, <2>4 DEF OrderInv
<1>5. ContentInv'
  BY <1>1 DEF ContentInv, Kept
<1> QED
  BY <1>3, <1>4, <1>5, OwnKept

LEMMA ParseStep == CommandInv /\ ParseCommand => CommandInv'
<1> SUFFICES ASSUME CommandInv, ParseCommand PROVE CommandInv'
  OBVIOUS
<1>1. UNCHANGED Kept
  BY DEF ParseCommand, Kept, Work, said
<1>2. step \in Early /\ step' \in Early \union {"done"} /\ (step' = "done" \/ result' = result)
  BY DEF ParseCommand, Early, Say, Stop, Continue
<1> QED
  BY <1>1, <1>2, EarlyStep

LEMMA ConfigStep == CommandInv /\ LoadConfig => CommandInv'
<1> SUFFICES ASSUME CommandInv, LoadConfig PROVE CommandInv'
  OBVIOUS
<1>1. UNCHANGED Kept
  BY DEF LoadConfig, Kept, Work, said
<1>2. step = "config" /\ (step' = "done" \/ (step' = "merge" /\ result' = result))
  BY Zenon DEF LoadConfig, Stop, Continue
<1>3. step \in Early /\ step' \in Early \union {"done"} /\ (step' = "done" \/ result' = result)
  BY <1>2 DEF Early
<1> QED
  BY <1>1, <1>3, EarlyStep

LEMMA SuiteStep == CommandInv /\ SpecSuite => CommandInv'
<1> SUFFICES ASSUME CommandInv, SpecSuite PROVE CommandInv'
  OBVIOUS
<1>1. UNCHANGED Kept
  BY DEF SpecSuite, Kept, said
<1>2. step = "spec" /\ step' = "done"
  BY Zenon DEF SpecSuite, Say, Stop
<1>3. step \in Early /\ step' \in Early \union {"done"} /\ (step' = "done" \/ result' = result)
  BY <1>2 DEF Early
<1> QED
  BY <1>1, <1>3, EarlyStep

-----------------------------------------------------------------------------
(* What is said, merged *)

\* Whatever is given and matched, the inputs are paths, each once.
LEMMA ResolvedIs ==
    ASSUME NEW V, NEW given \in Seq(V)
    PROVE  ResolveInputFiles(Unique(given)) \in Seq(Paths) /\ Distinct(ResolveInputFiles(Unique(given)))
<1>1. \A T : <<>> \in Seq(T) /\ Distinct(<<>>)
  BY DEF Distinct
<1>2. Unique(given) \in Seq(ToSet(given))
  BY <1>1, AppendUniqueIs DEF Unique
<1>3. LiteralsOf(Unique(given)) \in Seq(Paths) /\ Distinct(LiteralsOf(Unique(given)))
  BY <1>1, <1>2, AppendUniqueIs DEF LiteralsOf
<1>4. FoundBy(Unique(given)) \in SUBSET Paths /\ Order \in Seq(Paths)
  BY CommandAssumption DEF FoundBy
<1> QED
  BY <1>3, <1>4, AppendUniqueIs DEF ResolveInputFiles

LEMMA TargetsAre ==
    /\ \A p \in Paths \union {Absent} : FileTarget(p) \in Seq(OutputTargets)
    /\ \A d \in Dirs \union {Absent} : DirTarget(d) \in Seq(OutputTargets)
    /\ \A b \in BOOLEAN : StdoutTarget(b) \in Seq(OutputTargets)
<1>1. /\ [kind |-> "stdout"] \in OutputTargets
      /\ \A p \in Paths : [kind |-> "file", path |-> p] \in OutputTargets
      /\ \A d \in Dirs : [kind |-> "dir", dir |-> d] \in OutputTargets
  BY Zenon DEF OutputTargets
<1>2. \A x \in OutputTargets : <<x>> \in Seq(OutputTargets)
  OBVIOUS
<1>3. <<>> \in Seq(OutputTargets)
  OBVIOUS
<1> QED
  BY <1>1, <1>2, <1>3, Zenon DEF FileTarget, DirTarget, StdoutTarget

LEMMA OverlaysAre ==
    ASSUME ShapeInv
    PROVE  /\ EnvOverlay(env).targets \in Seq(OutputTargets) /\ EnvOverlay(env).inputs = <<>>
           /\ ConfigState.targets \in Seq(OutputTargets)
           /\ ConfigState.inputs \in Seq(Paths \union DOMAIN Matches)
           /\ cli.targets \in Seq(OutputTargets) /\ cli.inputs \in Seq(Paths \union DOMAIN Matches)
<1>1. /\ cli.targets \in Seq(OutputTargets) /\ cli.inputs \in Seq(Paths \union DOMAIN Matches)
      /\ config.inputs \in Seq(Paths \union DOMAIN Matches)
      /\ env.out \in Paths \union {Absent} /\ env.outDir \in Dirs \union {Absent} /\ env.stdout \in BOOLEAN
      /\ config.out \in Paths \union {Absent} /\ config.outDir \in Dirs \union {Absent} /\ config.stdout \in BOOLEAN
  BY CommandAssumption, Zenon DEF ShapeInv
<1>2. \A r, s, t \in Seq(OutputTargets) : r \o s \o t \in Seq(OutputTargets)
  OBVIOUS
<1>3. EnvOverlay(env).targets = FileTarget(env.out) \o DirTarget(env.outDir) \o StdoutTarget(env.stdout)
  BY DEF EnvOverlay
<1>4. EnvOverlay(env).inputs = <<>>
  BY DEF EnvOverlay
<1>5. ConfigOverlay(config).targets = StdoutTarget(config.stdout) \o FileTarget(config.out) \o DirTarget(config.outDir)
  BY DEF ConfigOverlay
<1>6. ConfigOverlay(config).inputs = config.inputs
  BY DEF ConfigOverlay
<1>7. NoConfig.targets = <<>> /\ NoConfig.inputs = <<>>
  BY DEF NoConfig
<1>8. \A S : <<>> \in Seq(S)
  OBVIOUS
<1>9. EnvOverlay(env).targets \in Seq(OutputTargets) /\ ConfigOverlay(config).targets \in Seq(OutputTargets)
  <2>1. /\ FileTarget(env.out) \in Seq(OutputTargets) /\ FileTarget(config.out) \in Seq(OutputTargets)
        /\ DirTarget(env.outDir) \in Seq(OutputTargets) /\ DirTarget(config.outDir) \in Seq(OutputTargets)
        /\ StdoutTarget(env.stdout) \in Seq(OutputTargets) /\ StdoutTarget(config.stdout) \in Seq(OutputTargets)
    BY <1>1, TargetsAre
  <2>2. EnvOverlay(env).targets \in Seq(OutputTargets)
    BY <1>3, <2>1
  <2>3. ConfigOverlay(config).targets \in Seq(OutputTargets)
    BY <1>5, <2>1
  <2> QED
    BY <2>2, <2>3
<1>10. CASE configFile = "none"
  BY <1>1, <1>4, <1>7, <1>8, <1>9, <1>10, Zenon DEF ConfigState
<1>11. CASE configFile # "none"
  BY <1>1, <1>4, <1>6, <1>9, <1>11, Zenon DEF ConfigState
<1> QED
  BY <1>10, <1>11

\* The inputs of the merged options, resolved, and their targets.
LEMMA MergedIs ==
    ASSUME ShapeInv, NEW all, all = Merge(ConfigState, EnvOverlay(env), cli)
    PROVE  /\ all.targets \in Seq(OutputTargets)
           /\ ResolveInputFiles(all.inputs) \in Seq(Paths) /\ Distinct(ResolveInputFiles(all.inputs))
<1> DEFINE c == ConfigState
           e == EnvOverlay(env)
<1>1. all.targets = PickList(cli.targets, PickList(e.targets, c.targets))
  BY DEF Merge
<1>2. all.inputs = Unique(c.inputs \o e.inputs \o cli.inputs)
  BY DEF Merge
<1>3. c.inputs \o e.inputs \o cli.inputs \in Seq(Paths \union DOMAIN Matches)
  <2>1. \A S : \A r, s \in Seq(S) : r \o <<>> \o s \in Seq(S)
    OBVIOUS
  <2> QED
    BY <2>1, OverlaysAre, Zenon
<1>4. all.targets \in Seq(OutputTargets)
  BY <1>1, OverlaysAre, Zenon DEF PickList
<1> QED
  BY <1>2, <1>3, <1>4, ResolvedIs, Zenon

LEMMA PlanStep == CommandInv /\ Plan => CommandInv'
<1> SUFFICES ASSUME CommandInv, Plan PROVE CommandInv'
  OBVIOUS
<1> USE DEF CommandInv
<1>1. PICK all : all = Merge(ConfigState, EnvOverlay(env), cli)
  OBVIOUS
<1>2. PICK files : files = ResolveInputFiles(all.inputs)
  OBVIOUS
<1>3. /\ step = "merge" /\ merged' = all /\ inputs' = files /\ queue' = files
      /\ \/ step' = "done" /\ (result' = "NoInputFiles" \/ result' = "AmbiguousOutputFile")
         \/ step' = "read" /\ result' = result /\ files # <<>>
  BY <1>1, <1>2, Zenon DEF Plan, Stop, Continue
<1>4. all.targets \in Seq(OutputTargets) /\ files \in Seq(Paths) /\ Distinct(files)
  BY <1>1, <1>2, MergedIs
<1>5. /\ cli' = cli /\ env' = env /\ config' = config /\ first' = first /\ disk' = disk /\ written' = written
  BY DEF Plan, said
<1>6. result = "none" /\ written = {} /\ disk = first
  BY <1>3 DEF ShapeInv, Early
<1>7. ShapeInv'
  <2>1. Len(files) - Len(files) = 0 /\ \A i \in 1..Len(files) : 0 + i = i
    BY <1>4
  <2> QED
    BY <1>3, <1>4, <1>5, <1>6, <2>1 DEF ShapeInv, Early, Running, Distinct
<1>8. OrderInv'
  BY <1>3, <1>4, <1>5, <1>6 DEF OrderInv, Wrote
<1>9. PlaceInv' /\ ContentInv' /\ OutputsAreOwn'
  BY <1>3, <1>5, <1>6 DEF PlaceInv, ContentInv, OutputsAreOwn
<1> QED
  BY <1>7, <1>8, <1>9

-----------------------------------------------------------------------------
(* The run over the inputs *)

\* The input in work is the one after those that are done.
LEMMA InputIs ==
    ASSUME ShapeInv, step \in Running
    PROVE  /\ (Len(inputs) - Len(queue)) + 1 \in 1..Len(inputs)
           /\ Input = inputs[(Len(inputs) - Len(queue)) + 1] /\ Input \in Paths
           /\ Len(Targets) \in Nat
           /\ \A i \in 1..Len(Targets) : Targets[i] \in OutputTargets \union {[kind |-> "default"]}
<1>1. queue # <<>> /\ inputs \in Seq(Paths) /\ queue \in Seq(Paths) /\ Len(queue) <= Len(inputs)
  BY DEF ShapeInv
<1>2. Len(queue) \in Nat /\ Len(queue) > 0 /\ Len(inputs) \in Nat
  BY <1>1
<1>3. (Len(inputs) - Len(queue)) + 1 \in 1..Len(inputs) /\ inputs # <<>>
  BY <1>1, <1>2
<1>4. Input = queue[1] /\ queue[1] \in Paths
  BY <1>1, <1>2 DEF Input
<1>5. queue[1] = inputs[(Len(inputs) - Len(queue)) + 1]
  BY <1>2 DEF ShapeInv
<1>6. merged.targets \in Seq(OutputTargets)
  BY <1>3 DEF ShapeInv
<1>7. Len(Targets) \in Nat /\ \A i \in 1..Len(Targets) : Targets[i] \in OutputTargets \union {[kind |-> "default"]}
  <2>1. CASE merged.targets = <<>>
    <3>1. Targets = <<[kind |-> "default"]>>
      BY <2>1 DEF Targets
    <3>2. \A x : Len(<<x>>) = 1 /\ <<x>>[1] = x
      OBVIOUS
    <3>3. PICK d : d = [kind |-> "default"]
      OBVIOUS
    <3> QED
      BY <3>1, <3>2, <3>3
  <2>2. CASE merged.targets # <<>>
    BY <1>6, <2>2 DEF Targets
  <2> QED
    BY <2>1, <2>2
<1> QED
  BY <1>3, <1>4, <1>5, <1>7

LEMMA ReadStep == CommandInv /\ ReadInput => CommandInv'
<1> SUFFICES ASSUME CommandInv, ReadInput PROVE CommandInv'
  OBVIOUS
<1> USE DEF CommandInv
<1>1. step = "read" /\ step \in Running
  BY DEF ReadInput, Running
<1>2. UNCHANGED Kept
  BY DEF ReadInput, Kept, said
<1>3. CASE disk[Input] # Absent /\ bytes' = disk[Input] /\ Continue(IF Format = "wasm" THEN "decode" ELSE "lower")
  <2>1. step' \in {"lower", "decode"} /\ result' = result
    BY <1>3 DEF Continue
  <2>2. ASSUME Undisturbed(Input) PROVE bytes'.of = Input /\ bytes'.runs = <<>>
    <3>1. \A t \in 1..Len(Targets) : ~Wrote(Input, t)
      BY <1>1, InputIs DEF OrderInv
    <3>2. \A w \in written : w.input # Input
      BY <3>1 DEF PlaceInv, Wrote
    <3>3. disk[Input] = first[Input] /\ Input \in Paths
      BY <1>1, <2>2, <3>2, InputIs DEF ContentInv, Undisturbed
    <3>4. first[Input] \in Originals(Input)
      BY <1>3, <3>3, CommandAssumption DEF ShapeInv
    <3> QED
      BY <1>3, <3>3, <3>4 DEF Originals
  <2> QED
    BY <1>1, <1>2, <2>1, <2>2, WorkStep
<1>4. CASE Stop("InputReadFailed")
  BY <1>1, <1>2, <1>4, WorkStep DEF Stop
<1> QED
  BY <1>3, <1>4 DEF ReadInput

LEMMA LowerStep == CommandInv /\ LowerText => CommandInv'
<1> SUFFICES ASSUME CommandInv, LowerText PROVE CommandInv'
  OBVIOUS
<1> USE DEF CommandInv
<1>1. UNCHANGED Kept /\ step = "lower"
  BY DEF LowerText, Kept, said
<1>2. CASE bytes' = [of |-> bytes.of, form |-> "wasm", runs |-> bytes.runs] /\ Continue("decode")
  <2>1. Undisturbed(Input) => bytes'.of = Input /\ bytes'.runs = <<>>
    BY <1>1, <1>2 DEF ContentInv
  <2> QED
    BY <1>1, <1>2, <2>1, WorkStep DEF Continue
<1>3. CASE Stop("TextLoweringFailed")
  BY <1>1, <1>3, WorkStep DEF Stop
<1> QED
  BY <1>2, <1>3 DEF LowerText

LEMMA OptimizeStep == CommandInv /\ OptimizeAndEncode => CommandInv'
<1> SUFFICES ASSUME CommandInv, OptimizeAndEncode PROVE CommandInv'
  OBVIOUS
<1> USE DEF CommandInv
<1>1. UNCHANGED Kept /\ step = "decode"
  BY DEF OptimizeAndEncode, Kept, said
<1>2. CASE /\ bytes' = [of |-> bytes.of, form |-> "wasm", runs |-> Append(bytes.runs, Job)]
           /\ target' = 1 /\ Continue("write")
  <2>1. \A x : Append(<<>>, x) = <<x>>
    OBVIOUS
  <2>2. Undisturbed(Input) => bytes.of = Input /\ bytes.runs = <<>>
    BY <1>1 DEF ContentInv
  <2>3. Undisturbed(Input) => bytes' = [of |-> Input, form |-> "wasm", runs |-> <<Job>>]
    BY <1>2, <2>1, <2>2, Zenon
  <2> QED
    BY <1>1, <1>2, <2>3, WorkStep DEF Continue
<1>3. CASE Stop("DecodeFailed") \/ Stop("OptimizationFailed") \/ Stop("EncodeFailed")
  BY <1>1, <1>3, WorkStep DEF Stop
<1> QED
  BY <1>2, <1>3 DEF OptimizeAndEncode

-----------------------------------------------------------------------------
(* The outputs of an input *)

LEMMA PlaceIs ==
    ASSUME ShapeInv, step = "write", NEW i \in 1..Len(Targets), IsOutput(i)
    PROVE  OutputPath(Targets[i]) \in Paths /\ IsPlace(Targets[i], Input, OutputPath(Targets[i]))
<1>1. PICK t : t = Targets[i]
  OBVIOUS
<1>2. t \in OutputTargets \union {[kind |-> "default"]} /\ Input \in Paths /\ t.kind # "stdout"
  BY <1>1, InputIs DEF Running, IsOutput
<1>3. WasmPath(Input) \in Paths /\ (WasmPath(Input) = Input \/ WasmPath(Input).ext = "wasm")
  BY <1>2, CommandAssumption DEF WasmPath, AsWasm
<1>4. CASE t.kind = "file"
  BY <1>1, <1>2, <1>4 DEF OutputTargets, OutputPath, IsPlace
<1>5. CASE t.kind = "dir"
  <2>1. t.dir \in Dirs
    BY <1>2, <1>5 DEF OutputTargets
  <2>2. OutputPath(t) = InDir(WasmPath(Input), t.dir)
    BY <1>5 DEF OutputPath
  <2>3. InDir(WasmPath(Input), t.dir) \in Paths
    BY <1>3, <2>1 DEF Dirs
  <2>4. InDir(WasmPath(Input), t.dir).dir = t.dir
    BY DEF InDir
  <2> QED
    BY <1>1, <1>5, <2>2, <2>3, <2>4 DEF IsPlace
<1>6. CASE t.kind = "default"
  BY <1>1, <1>3, <1>6 DEF OutputPath, IsPlace
<1>7. t.kind \in {"file", "dir", "default"}
  BY <1>2 DEF OutputTargets
<1> QED
  BY <1>1, <1>4, <1>5, <1>6, <1>7

LEMMA WriteStep == CommandInv /\ WriteTarget => CommandInv'
<1> SUFFICES ASSUME CommandInv, WriteTarget PROVE CommandInv'
  OBVIOUS
<1> USE DEF CommandInv
<1>1. step = "write" /\ step \in Running /\ target \in 1..Len(Targets)
  BY InputIs DEF WriteTarget, Running, ShapeInv
<1>2. /\ cli' = cli /\ env' = env /\ config' = config /\ first' = first
      /\ merged' = merged /\ queue' = queue /\ bytes' = bytes /\ inputs' = inputs
  BY DEF WriteTarget, said
<1>3. Targets' = Targets /\ Input' = Input /\ Job' = Job /\ \A t : IsOutput(t)' <=> IsOutput(t)
  BY <1>2 DEF Targets, Input, Job, IsOutput
<1>4. CASE /\ target' = target + 1 /\ UNCHANGED <<step, result>> /\ Targets[target].kind = "stdout"
           /\ UNCHANGED <<disk, written>>
  <2>1. \A x : \A t : Wrote(x, t)' <=> Wrote(x, t)
    BY <1>4 DEF Wrote
  <2>2. ShapeInv'
    BY <1>1, <1>2, <1>3, <1>4 DEF ShapeInv, Early, Running, Distinct
  <2>3. OrderInv'
    <3>1. \A t \in 1..Len(Targets) : IsOutput(t) /\ t < target' <=> IsOutput(t) /\ t < target
      BY <1>1, <1>4 DEF IsOutput
    <3> QED
      BY <1>1, <1>2, <1>3, <1>4, <2>1, <3>1 DEF OrderInv
  <2>4. PlaceInv' /\ OutputsAreOwn'
    BY <1>2, <1>3, <1>4 DEF PlaceInv, OutputsAreOwn
  <2>5. ContentInv'
    BY <1>1, <1>2, <1>3, <1>4 DEF ContentInv, Undisturbed
  <2> QED
    BY <2>2, <2>3, <2>4, <2>5
<1>5. CASE Stop("OutputWriteFailed") /\ UNCHANGED <<target, disk, stdout, written>>
  <2>1. \A x : \A t : Wrote(x, t)' <=> Wrote(x, t)
    BY <1>5 DEF Wrote
  <2>2. ShapeInv'
    BY <1>1, <1>2, <1>3, <1>5 DEF ShapeInv, Early, Running, Distinct, Stop
  <2>3. OrderInv'
    BY <1>1, <1>2, <1>3, <1>5, <2>1 DEF OrderInv, Stop
  <2>4. PlaceInv' /\ OutputsAreOwn'
    BY <1>2, <1>3, <1>5 DEF PlaceInv, OutputsAreOwn
  <2>5. ContentInv'
    BY <1>1, <1>2, <1>3, <1>5 DEF ContentInv, Undisturbed, Stop
  <2> QED
    BY <2>2, <2>3, <2>4, <2>5
<1>6. ASSUME NEW place, place = OutputPath(Targets[target]),
             target' = target + 1, UNCHANGED <<step, result>>, Targets[target].kind # "stdout",
             disk' = [disk EXCEPT ![place] = bytes],
             written' = written \union {[path |-> place, input |-> Input, for |-> target]}
      PROVE  CommandInv'
  <2>1. PICK w0 : w0 = [path |-> place, input |-> Input, for |-> target]
    OBVIOUS
  <2>2. w0.path = place /\ w0.input = Input /\ w0.for = target /\ written' = written \union {w0}
    BY <1>6, <2>1
  <2>3. place \in Paths /\ IsPlace(Targets[target], Input, place)
    BY <1>1, <1>6, PlaceIs DEF IsOutput
  <2>4. /\ DOMAIN disk = Paths /\ DOMAIN disk' = Paths /\ disk'[place] = bytes
        /\ \A p \in Paths : p # place => disk'[p] = disk[p]
    BY <1>6, <2>3 DEF ShapeInv
  <2>5. \A i \in 1..Len(inputs) : inputs[i] = Input <=> i = (Len(inputs) - Len(queue)) + 1
    BY <1>1, InputIs DEF ShapeInv, Distinct
  <2>6. \A x : \A t : Wrote(x, t)' <=> Wrote(x, t) \/ (x = Input /\ t = target)
    BY <2>2 DEF Wrote
  <2>7. ShapeInv'
    <3>1. inputs # <<>>
      BY <1>1, InputIs DEF ShapeInv
    <3> QED
      BY <1>1, <1>2, <1>3, <1>6, <2>4, <3>1 DEF ShapeInv, Early, Running, Distinct
  <2>8. OrderInv'
    <3>1. ASSUME NEW i \in 1..Len(inputs), NEW t \in 1..Len(Targets)
          PROVE  LET done == Len(inputs) - Len(queue) IN
                 /\ i > done + 1 => ~(Wrote(inputs[i], t) \/ (inputs[i] = Input /\ t = target))
                 /\ i <= done => (Wrote(inputs[i], t) \/ (inputs[i] = Input /\ t = target) <=> IsOutput(t))
                 /\ i = done + 1 =>
                      (Wrote(inputs[i], t) \/ (inputs[i] = Input /\ t = target) <=> IsOutput(t) /\ t < target + 1)
      <4>1. IsOutput(target)
        BY <1>6 DEF IsOutput
      <4>2. LET done == Len(inputs) - Len(queue) IN
            /\ i > done + 1 => ~Wrote(inputs[i], t)
            /\ i <= done => (Wrote(inputs[i], t) <=> IsOutput(t))
            /\ i = done + 1 => (Wrote(inputs[i], t) <=> IsOutput(t) /\ t < target)
        BY <1>1 DEF OrderInv
      <4>3. inputs[i] = Input <=> i = (Len(inputs) - Len(queue)) + 1
        BY <2>5
      <4>4. t < target + 1 <=> t < target \/ t = target
        BY <1>1
      <4>5. Len(inputs) \in Nat /\ Len(queue) \in Nat
        BY DEF ShapeInv
      <4> QED
        BY <4>1, <4>2, <4>3, <4>4, <4>5
    <3> QED
      BY <1>1, <1>2, <1>3, <1>6, <2>6, <3>1 DEF OrderInv
  <2>9. PlaceInv'
    <3>1. \E i \in 1..Len(inputs) : Input = inputs[i]
      BY <1>1, InputIs
    <3>2. ASSUME NEW w \in written'
          PROVE  /\ w.path \in Paths /\ w.for \in 1..Len(Targets)
                 /\ \E i \in 1..Len(inputs) : w.input = inputs[i]
                 /\ IsPlace(Targets[w.for], w.input, w.path)
      <4>1. CASE w = w0
        BY <1>1, <2>2, <2>3, <3>1, <4>1
      <4>2. CASE w \in written
        BY <4>2 DEF PlaceInv
      <4> QED
        BY <2>2, <4>1, <4>2
    <3> QED
      BY <1>2, <1>3, <3>2 DEF PlaceInv
  <2>10. Undisturbed(Input)' => Undisturbed(Input)
    BY <1>3, <2>2 DEF Undisturbed
  <2>11. Undisturbed(Input) => bytes = [of |-> Input, form |-> "wasm", runs |-> <<Job>>]
    BY <1>1 DEF ContentInv
  <2>12. ContentInv'
    <3>1. \A p \in Paths : disk'[p] # first'[p] => \E w \in written' : w.path = p
      BY <1>2, <2>2, <2>4 DEF ContentInv
    <3>2. step' = "write"
      BY <1>1, <1>6
    <3> QED
      BY <1>2, <1>3, <2>10, <2>11, <3>1, <3>2 DEF ContentInv
  <2>13. OutputsAreOwn'
    <3> SUFFICES ASSUME NEW w \in written',
                        \A v \in written' : v.input # w.input => v.path \notin {w.path, w.input}
                 PROVE  disk'[w.path] = [of |-> w.input, form |-> "wasm", runs |-> <<Job>>]
      BY <1>3 DEF OutputsAreOwn
    <3>1. CASE w.path = place /\ w.input = Input
      <4>1. Undisturbed(Input)
        BY <2>2, <3>1 DEF Undisturbed
      <4> QED
        BY <2>4, <2>11, <3>1, <4>1
    <3>2. CASE ~(w.path = place /\ w.input = Input)
      <4>1. w.path # place /\ w \in written
        BY <2>2, <3>2
      <4>2. w.path \in Paths
        BY <4>1 DEF PlaceInv
      <4>3. disk'[w.path] = disk[w.path]
        BY <2>4, <4>1, <4>2
      <4>4. \A v \in written : v.input # w.input => v.path \notin {w.path, w.input}
        BY <2>2
      <4> QED
        BY <4>1, <4>3, <4>4, Zenon DEF OutputsAreOwn
    <3> QED
      BY <3>1, <3>2
  <2> QED
    BY <2>7, <2>8, <2>9, <2>12, <2>13
<1>7. \/ /\ target' = target + 1 /\ UNCHANGED <<step, result>> /\ Targets[target].kind = "stdout"
         /\ UNCHANGED <<disk, written>>
      \/ Stop("OutputWriteFailed") /\ UNCHANGED <<target, disk, stdout, written>>
      \/ /\ target' = target + 1 /\ UNCHANGED <<step, result>> /\ Targets[target].kind # "stdout"
         /\ disk' = [disk EXCEPT ![OutputPath(Targets[target])] = bytes]
         /\ written' = written \union {[path |-> OutputPath(Targets[target]), input |-> Input, for |-> target]}
  BY DEF WriteTarget
<1> QED
  BY <1>4, <1>5, <1>6, <1>7

LEMMA NextStep == CommandInv /\ NextInput => CommandInv'
<1> SUFFICES ASSUME CommandInv, NextInput PROVE CommandInv'
  OBVIOUS
<1> USE DEF CommandInv
<1>1. step = "write" /\ step \in Running /\ target > Len(Targets) /\ queue' = Tail(queue)
  BY DEF NextInput, Running
<1>2. /\ cli' = cli /\ env' = env /\ config' = config /\ first' = first
      /\ merged' = merged /\ inputs' = inputs /\ disk' = disk /\ written' = written
  BY DEF NextInput, said
<1>3. \/ queue' = <<>> /\ step' = "done" /\ result' = "ok"
      \/ queue' # <<>> /\ step' = "read" /\ result' = result
  BY DEF NextInput, Stop, Continue
<1>4. /\ Len(Targets) \in Nat /\ queue \in Seq(Paths) /\ inputs \in Seq(Paths) /\ queue # <<>> /\ inputs # <<>>
      /\ Len(queue) <= Len(inputs) /\ target \in 1..(Len(Targets) + 1) /\ result = "none"
  BY <1>1, InputIs DEF ShapeInv
<1>5. PICK q : q = Tail(queue)
  OBVIOUS
<1>6. /\ q \in Seq(Paths) /\ Len(q) = Len(queue) - 1 /\ Len(queue) \in Nat /\ Len(queue) > 0 /\ Len(inputs) \in Nat
      /\ \A i \in 1..Len(q) : i + 1 \in 1..Len(queue) /\ q[i] = queue[i + 1]
  BY <1>4, <1>5
<1>7. Targets' = Targets /\ Job' = Job /\ (\A t : IsOutput(t)' <=> IsOutput(t)) /\ \A x : \A t : Wrote(x, t)' <=> Wrote(x, t)
  BY <1>2 DEF Targets, Job, IsOutput, Wrote
<1>8. ShapeInv'
  <2>1. \A i \in 1..Len(q) : q[i] = inputs[(Len(inputs) - Len(q)) + i]
    <3> TAKE i \in 1..Len(q)
    <3>1. i + 1 \in 1..Len(queue) /\ q[i] = queue[i + 1]
      BY <1>6
    <3>2. queue[i + 1] = inputs[(Len(inputs) - Len(queue)) + (i + 1)]
      BY <3>1 DEF ShapeInv
    <3>3. (Len(inputs) - Len(queue)) + (i + 1) = (Len(inputs) - Len(q)) + i
      BY <1>6
    <3> QED
      BY <3>1, <3>2, <3>3
  <2>2. Len(q) <= Len(inputs)
    BY <1>4, <1>6
  <2> QED
    BY <1>1, <1>2, <1>3, <1>4, <1>5, <1>6, <2>1, <2>2 DEF ShapeInv, Early, Running, Distinct
<1>9. OrderInv'
  <2>1. ASSUME NEW i \in 1..Len(inputs), NEW t \in 1..Len(Targets)
        PROVE  LET done == Len(inputs) - Len(q) IN
               /\ i > done + 1 => ~Wrote(inputs[i], t)
               /\ i <= done => (Wrote(inputs[i], t) <=> IsOutput(t))
               /\ i = done + 1 => ~Wrote(inputs[i], t)
    <3>1. LET done == Len(inputs) - Len(queue) IN
          /\ i > done + 1 => ~Wrote(inputs[i], t)
          /\ i <= done => (Wrote(inputs[i], t) <=> IsOutput(t))
          /\ i = done + 1 => (Wrote(inputs[i], t) <=> IsOutput(t) /\ t < target)
      BY <1>1 DEF OrderInv
    <3>2. t < target /\ Len(inputs) - Len(q) = (Len(inputs) - Len(queue)) + 1
      BY <1>1, <1>4, <1>6
    <3>3. PICK d : d = Len(inputs) - Len(queue)
      OBVIOUS
    <3>4. PICK e : e = Len(inputs) - Len(q)
      OBVIOUS
    <3>5. i \in Int /\ d \in Int /\ e = d + 1
      BY <1>6, <2>1, <3>2, <3>3, <3>4
    <3>6. (i > e + 1 => i > d + 1) /\ (i <= e => i <= d \/ i = d + 1) /\ (i = e + 1 => i > d + 1)
      BY <3>3, <3>4, <3>5
    <3>7. i > e + 1 => ~Wrote(inputs[i], t)
      BY <3>1, <3>3, <3>6, Zenon
    <3>8. i <= e => (Wrote(inputs[i], t) <=> IsOutput(t))
      BY <3>1, <3>2, <3>3, <3>6, Zenon
    <3>9. i = e + 1 => ~Wrote(inputs[i], t)
      BY <3>1, <3>3, <3>6, Zenon
    <3> QED
      BY <3>4, <3>7, <3>8, <3>9, Zenon
  <2>2. step' # "write"
    BY <1>3
  <2> QED
    BY <1>1, <1>2, <1>5, <1>7, <2>1, <2>2 DEF OrderInv
<1>10. PlaceInv' /\ OutputsAreOwn'
  BY <1>2, <1>7 DEF PlaceInv, OutputsAreOwn
<1>11. ContentInv'
  BY <1>2, <1>3 DEF ContentInv
<1> QED
  BY <1>8, <1>9, <1>10, <1>11

-----------------------------------------------------------------------------
(* The command *)

LEMMA KeptOthers == CommandInv => OtherFilesAreKept
<1> SUFFICES ASSUME CommandInv, NEW p \in Paths, disk[p] # first[p]
             PROVE  \/ \E i \in DOMAIN merged.targets :
                          \/ merged.targets[i].kind = "file" /\ merged.targets[i].path = p
                          \/ merged.targets[i].kind = "dir" /\ merged.targets[i].dir = p.dir
                    \/ merged.targets = <<>> /\ (p.ext = "wasm" \/ p \in ToSet(inputs))
  BY DEF OtherFilesAreKept
<1> USE DEF CommandInv
<1>1. PICK w \in written : w.path = p
  BY DEF ContentInv
<1>2. PICK i \in 1..Len(inputs) : w.input = inputs[i]
  BY DEF PlaceInv
<1>3. IsPlace(Targets[w.for], w.input, p) /\ w.for \in 1..Len(Targets)
  BY <1>1 DEF PlaceInv
<1>4. inputs \in Seq(Paths) /\ merged.targets \in Seq(OutputTargets)
  <2>1. inputs # <<>>
    BY <1>1 DEF ShapeInv
  <2> QED
    BY <2>1 DEF ShapeInv
<1>5. CASE merged.targets = <<>>
  <2>1. Targets = <<[kind |-> "default"]>>
    BY <1>5 DEF Targets
  <2>2. \A x : Len(<<x>>) = 1 /\ <<x>>[1] = x
    OBVIOUS
  <2>3. Targets[w.for] = [kind |-> "default"]
    <3>1. w.for = 1
      BY <1>3, <2>1, <2>2
    <3> QED
      BY <2>1, <2>2, <3>1, Zenon
  <2>4. p.ext = "wasm" \/ p = w.input
    BY <1>3, <2>3 DEF IsPlace
  <2>5. w.input \in ToSet(inputs)
    BY <1>2, <1>4 DEF ToSet
  <2> QED
    BY <1>5, <2>4, <2>5
<1>6. CASE merged.targets # <<>>
  <2>1. Targets = merged.targets
    BY <1>6 DEF Targets
  <2>2. w.for \in DOMAIN merged.targets
    BY <1>3, <1>4, <2>1
  <2>3. merged.targets[w.for] \in OutputTargets
    BY <1>4, <2>2
  <2>4. merged.targets[w.for].kind # "default"
    <3>1. \A t \in OutputTargets : t.kind # "default"
      BY DEF OutputTargets
    <3> QED
      BY <2>3, <3>1
  <2> QED
    BY <1>3, <2>1, <2>2, <2>4 DEF IsPlace
<1> QED
  BY <1>5, <1>6

LEMMA PrefixIsLeft == CommandInv => FailureLeavesAPrefix
<1> SUFFICES ASSUME CommandInv, NEW i \in DOMAIN inputs
             PROVE  LET done == Len(inputs) - Len(queue)
                        outputs == {w.for : w \in {v \in written : v.input = inputs[i]}} IN
                    /\ i > done + 1 => outputs = {}
                    /\ i <= done => outputs = {t \in DOMAIN Targets : Targets[t].kind # "stdout"}
                    /\ result = "ok" => done = Len(inputs)
  BY DEF FailureLeavesAPrefix
<1> DEFINE outputs == {w.for : w \in {v \in written : v.input = inputs[i]}}
<1> USE DEF CommandInv
<1>1. i \in 1..Len(inputs) /\ inputs # <<>> /\ inputs \in Seq(Paths)
  BY DEF ShapeInv
<1>2. DOMAIN Targets = 1..Len(Targets)
  <2>1. merged.targets \in Seq(OutputTargets)
    BY <1>1 DEF ShapeInv
  <2>2. Targets = merged.targets \/ Targets = <<[kind |-> "default"]>>
    BY DEF Targets
  <2>3. \A x : DOMAIN <<x>> = 1..Len(<<x>>)
    OBVIOUS
  <2>4. DOMAIN merged.targets = 1..Len(merged.targets)
    BY <2>1
  <2> QED
    BY <2>2, <2>3, <2>4, Zenon
<1>3. \A t : t \in outputs <=> Wrote(inputs[i], t)
  BY DEF Wrote
<1>4. \A t : Wrote(inputs[i], t) => t \in 1..Len(Targets)
  BY DEF Wrote, PlaceInv
<1>5. result = "ok" => Len(inputs) - Len(queue) = Len(inputs)
  BY <1>1 DEF ShapeInv
<1>6. i > (Len(inputs) - Len(queue)) + 1 => outputs = {}
  BY <1>1, <1>3, <1>4, Zenon DEF OrderInv
<1>7. i <= Len(inputs) - Len(queue) => outputs = {t \in DOMAIN Targets : Targets[t].kind # "stdout"}
  <2> HIDE DEF outputs
  <2>1. ASSUME i <= Len(inputs) - Len(queue)
        PROVE  \A t : t \in outputs <=> t \in 1..Len(Targets) /\ Targets[t].kind # "stdout"
    BY <1>1, <1>3, <1>4, <2>1 DEF OrderInv, IsOutput
  <2> QED
    BY <1>2, <2>1
<1> QED
  BY <1>5, <1>6, <1>7

\* Whatever is said by the command line, the environment and the configuration,
\* and whichever callback fails, a file that the command wrote is the optimized
\* module of its own input, no other file is touched, and the inputs before the
\* one that failed have all their outputs (src/node/cmd.js, run of the command).
THEOREM CommandsWriteTheirOwn == CommandSpec => []FilesAreOwn
<1>1. CommandInv /\ [CommandNext]_commandVars => CommandInv'
  <2> SUFFICES ASSUME CommandInv, [CommandNext]_commandVars PROVE CommandInv'
    OBVIOUS
  <2>1. CASE CommandNext
    BY <2>1, ParseStep, ConfigStep, PlanStep, SuiteStep, ReadStep, LowerStep, OptimizeStep, WriteStep, NextStep
       DEF CommandNext
  <2>2. CASE UNCHANGED commandVars
    <3>1. /\ UNCHANGED Kept /\ step' = step /\ result' = result /\ bytes' = bytes /\ target' = target
      BY <2>2 DEF commandVars, said, Kept
    <3>2. /\ cli' = cli /\ env' = env /\ config' = config /\ first' = first /\ merged' = merged
          /\ queue' = queue /\ disk' = disk /\ written' = written /\ inputs' = inputs
      BY <3>1 DEF Kept
    <3>3. Targets' = Targets /\ Input' = Input /\ Job' = Job
      BY <3>1, OwnKept
    <3>4. ShapeInv'
      BY <3>1, <3>2, <3>3 DEF CommandInv, ShapeInv, Distinct
    <3>5. OrderInv'
      BY <3>1, <3>2, <3>3 DEF CommandInv, OrderInv, Wrote, IsOutput
    <3>6. ContentInv'
      BY <3>1, <3>2, <3>3 DEF CommandInv, ContentInv, Undisturbed
    <3> QED
      BY <3>1, <3>4, <3>5, <3>6, OwnKept DEF CommandInv
  <2> QED
    BY <2>1, <2>2
<1>2. CommandInv => FilesAreOwn
  BY KeptOthers, PrefixIsLeft DEF CommandInv, FilesAreOwn
<1> QED
  BY <1>1, <1>2, Init, PTL DEF CommandSpec

-----------------------------------------------------------------------------
(* The bulk protocol *)

Owners == {"data", "staging", "old", "heap"}

Answers == [what : {"refused", "lost", "answer"}, n : Nat]
Calls == [n : Nat, at : {"idle", "send", "receive", "copy", "trapped"}, length : Nat]
Lost(s) == \E n \in DOMAIN s : s[n].what = "lost"
Own(s) == \A n \in DOMAIN s : s[n].what = "answer" => s[n].n = n

\* The memory, and the staging area in it.
AreaIsOwn ==
    /\ pages \in Seq(Owners) /\ staging \in [base : Nat, capacity : Nat]
    /\ \A p \in 1..Size : pages[p] = "staging" <=> p > staging.base /\ p <= staging.base + staging.capacity
    /\ staging.base + staging.capacity <= Size

\* The exchange, what the host holds, and what was returned so far.
ExchangeInv ==
    /\ call \in Calls
    /\ answers \in Seq(Answers)
    /\ Len(answers) = IF call.at = "idle" THEN call.n ELSE call.n - 1
    /\ call.at # "idle" => call.n > 0
    /\ call.at \in {"send", "copy"} => call.length <= staging.capacity * Page
    /\ call.at \in {"receive", "copy"} => pending.n = call.n /\ pending # Nothing

BulkInv == AreaIsOwn /\ ExchangeInv /\ AnswersAreOwn

LEMMA AnswersTold ==
    /\ AnswersAreOwn <=> Own(answers) /\ (Lost(answers) <=> pending # Nothing /\ call.at \in {"idle", "send", "trapped"})
    /\ AnswersAreOwn' <=> Own(answers') /\ (Lost(answers') <=> pending' # Nothing /\ call'.at \in {"idle", "send", "trapped"})
BY Zenon DEF AnswersAreOwn, Own, Lost

LEMMA BulkStarts == BulkInit => BulkInv
<1> SUFFICES ASSUME BulkInit PROVE BulkInv
  OBVIOUS
<1>1. pages = <<"data">> /\ staging = [base |-> 0, capacity |-> 0] /\ answers = <<>> /\ pending = Nothing
  BY DEF BulkInit
<1>2. call = [n |-> 0, at |-> "idle", length |-> 0]
  BY DEF BulkInit
<1>3. AreaIsOwn
  <2>1. pages \in Seq(Owners) /\ Size = 1 /\ pages[1] = "data"
    BY <1>1 DEF Owners, Size
  <2> QED
    BY <1>1, <2>1 DEF AreaIsOwn
<1>4. ExchangeInv
  BY <1>1, <1>2 DEF ExchangeInv, Calls
<1>5. AnswersAreOwn
  BY <1>1, <1>2 DEF AnswersAreOwn
<1> QED
  BY <1>3, <1>4, <1>5 DEF BulkInv

LEMMA Quotient ==
    ASSUME NEW v \in Nat, NEW d \in Nat, d > 0
    PROVE  v \div d \in Nat /\ v < (v \div d) * d + d
OBVIOUS

\* What a list of answers is with one more.
LEMMA AnswerAdded ==
    ASSUME NEW s \in Seq(Answers), NEW r \in Answers
    PROVE  /\ Append(s, r) \in Seq(Answers) /\ Len(Append(s, r)) = Len(s) + 1
           /\ Lost(Append(s, r)) <=> Lost(s) \/ r.what = "lost"
           /\ Own(Append(s, r)) <=> Own(s) /\ (r.what = "answer" => r.n = Len(s) + 1)
<1>1. PICK t : t = Append(s, r)
  OBVIOUS
<1>2. /\ t \in Seq(Answers) /\ Len(t) = Len(s) + 1 /\ DOMAIN s = 1..Len(s) /\ DOMAIN t = 1..(Len(s) + 1)
      /\ \A i \in 1..Len(s) : t[i] = s[i]
      /\ t[Len(s) + 1] = r /\ Len(s) \in Nat
  BY <1>1
<1>3. Lost(t) <=> Lost(s) \/ r.what = "lost"
  BY <1>2 DEF Lost
<1>4. Own(t) <=> Own(s) /\ (r.what = "answer" => r.n = Len(s) + 1)
  BY <1>2 DEF Own
<1> QED
  BY <1>1, <1>2, <1>3, <1>4

\* The pages a length needs hold it, and are no fewer than one.
LEMMA NeededHolds ==
    ASSUME NEW length \in Nat
    PROVE  Needed(length) \in Nat \ {0} /\ length <= Needed(length) * Page
<1>1. Page \in Nat \ {0}
  BY BulkAssumption
<1>2. CASE length = 0
  BY <1>1, <1>2 DEF Needed
<1>3. CASE length # 0
  <2> DEFINE q == (length + Page - 1) \div Page
  <2>1. q \in Nat /\ length + Page - 1 < q * Page + Page
    BY <1>1, Quotient
  <2> HIDE DEF q
  <2>2. length <= q * Page
    BY <1>1, <2>1
  <2>3. q # 0
    BY <1>1, <1>3, <2>2
  <2> QED
    BY <1>3, <2>1, <2>2, <2>3 DEF Needed, q
<1> QED
  BY <1>2, <1>3

\* reserve leaves an area that is its own and holds the length.
LEMMA ReserveKeeps ==
    ASSUME AreaIsOwn, NEW length \in Nat, Reserve(length)
    PROVE  AreaIsOwn' /\ length <= staging'.capacity * Page
<1>1. CASE Fits(length) /\ UNCHANGED <<pages, staging>>
  BY <1>1 DEF Fits, AreaIsOwn, Size
<1>2. CASE /\ ~ Fits(length)
           /\ staging' = [base |-> IF AtEnd THEN staging.base ELSE Size, capacity |-> Needed(length)]
           /\ pages' = [p \in 1..(Size + Extra(length)) |->
                          IF p > Size THEN "staging"
                          ELSE IF ~ AtEnd /\ pages[p] = "staging" THEN "old" ELSE pages[p]]
  <2>1. PICK k \in Nat \ {0} : k = Needed(length) /\ length <= k * Page
    BY NeededHolds
  <2>2. PICK b \in Nat : b = staging.base
    BY DEF AreaIsOwn
  <2>3. PICK c \in Nat : c = staging.capacity
    BY DEF AreaIsOwn
  <2>4. PICK s \in Nat : s = Size /\ b + c <= s
    BY <2>2, <2>3 DEF AreaIsOwn, Size
  <2>5. Page \in Nat \ {0}
    BY BulkAssumption
  <2>6. k > c
    <3>1. CASE c = 0
      BY <3>1
    <3>2. CASE c > 0 /\ length > c * Page
      <4>1. c * Page < k * Page
        BY <2>1, <2>5, <3>2
      <4> QED
        BY <2>5, <4>1
    <3> QED
      BY <1>2, <2>3, <2>5, <3>1, <3>2 DEF Fits
  <2>7. PICK e \in Nat : e = Extra(length) /\ e > 0 /\ (AtEnd => e = k - c) /\ (~AtEnd => e = k)
    BY <2>1, <2>3, <2>6 DEF Extra
  <2>8. pages \in Seq(Owners) /\ \A p \in 1..s : pages[p] \in Owners /\ (pages[p] = "staging" <=> p > b /\ p <= b + c)
    BY <2>2, <2>3, <2>4 DEF AreaIsOwn, Size
  <2>9. PICK m : m = pages'
    OBVIOUS
  <2>10. m = [p \in 1..(s + e) |-> IF p > s THEN "staging" ELSE IF ~ AtEnd /\ pages[p] = "staging" THEN "old" ELSE pages[p]]
    BY <1>2, <2>4, <2>7, <2>9, Zenon
  <2>11. \A p \in 1..(s + e) : m[p] = IF p > s THEN "staging" ELSE IF ~ AtEnd /\ pages[p] = "staging" THEN "old" ELSE pages[p]
    BY <2>10, Zenon
  <2>12. \A p \in 1..(s + e) : m[p] \in Owners
    BY <2>4, <2>8, <2>11 DEF Owners
  <2>13. m \in Seq(Owners) /\ Len(m) = s + e
    <3>1. DOMAIN m = 1..(s + e) /\ m = [p \in 1..(s + e) |-> m[p]]
      BY <2>10
    <3>2. m \in [1..(s + e) -> Owners]
      BY <2>12, <3>1
    <3>3. s + e \in Nat
      BY <2>4, <2>7
    <3> QED
      BY <3>2, <3>3
  <2>14. staging' \in [base : Nat, capacity : Nat] /\ staging'.capacity = k /\ staging'.base = IF AtEnd THEN b ELSE s
    BY <1>2, <2>1, <2>2, <2>4
  <2>15. AtEnd => b + c = s
    BY <2>2, <2>3, <2>4 DEF AtEnd
  <2>16. staging'.base + staging'.capacity = s + e
    BY <2>7, <2>14, <2>15
  <2>17. \A p \in 1..(s + e) : m[p] = "staging" <=> p > staging'.base /\ p <= staging'.base + staging'.capacity
    <3> TAKE p \in 1..(s + e)
    <3>1. CASE p > s
      BY <2>4, <2>11, <2>14, <2>15, <2>16, <3>1
    <3>2. CASE p <= s
      <4>1. p \in 1..s /\ m[p] = IF ~ AtEnd /\ pages[p] = "staging" THEN "old" ELSE pages[p]
        BY <2>4, <2>11, <3>2
      <4>2. CASE AtEnd
        BY <2>8, <2>14, <2>15, <2>16, <4>1, <4>2
      <4>3. CASE ~ AtEnd
        BY <2>14, <3>2, <4>1, <4>3
      <4> QED
        BY <4>2, <4>3
    <3> QED
      BY <2>4, <3>1, <3>2
  <2>18. AreaIsOwn'
    BY <2>9, <2>13, <2>14, <2>16, <2>17 DEF AreaIsOwn, Size
  <2> QED
    BY <2>1, <2>14, <2>18
<1> QED
  BY <1>1, <1>2 DEF Reserve

LEMMA BulkKeeps == BulkInv /\ [BulkNext]_bulkVars => BulkInv'
<1> SUFFICES ASSUME BulkInv, [BulkNext]_bulkVars PROVE BulkInv'
  OBVIOUS
<1> USE DEF BulkInv
<1>1. CASE HeapGrows
  <2>1. AreaIsOwn'
    <3>1. PICK m : m = Append(pages, "heap")
      OBVIOUS
    <3>2. /\ pages \in Seq(Owners) /\ m \in Seq(Owners) /\ Len(m) = Len(pages) + 1
          /\ \A p \in 1..(Len(pages) + 1) : m[p] = IF p <= Len(pages) THEN pages[p] ELSE "heap"
      BY <3>1 DEF AreaIsOwn, Owners
    <3>3. pages' = m /\ staging' = staging
      BY <1>1, <3>1 DEF HeapGrows
    <3> QED
      BY <3>2, <3>3 DEF AreaIsOwn, Size
  <2>2. ExchangeInv' /\ AnswersAreOwn'
    BY <1>1 DEF HeapGrows, ExchangeInv, Calls, AnswersAreOwn
  <2> QED
    BY <2>1, <2>2
<1>2. CASE Stage
  <2>1. PICK length \in Lengths :
        \/ /\ Reserve(length)
           /\ area' = [n |-> call.n + 1, from |-> "guest"]
           /\ call' = [n |-> call.n + 1, at |-> "send", length |-> length]
           /\ UNCHANGED answers
        \/ /\ CannotReserve(length) /\ UNCHANGED <<pages, staging, area>>
           /\ call' = [n |-> call.n + 1, at |-> "idle", length |-> call.length] /\ answers' = Append(answers, [what |-> "refused", n |-> 0])
    BY <1>2 DEF Stage
  <2>2. length \in Nat /\ call.at = "idle" /\ pending' = pending
    BY <1>2, BulkAssumption DEF Stage
  <2>3. CASE /\ Reserve(length)
             /\ call' = [n |-> call.n + 1, at |-> "send", length |-> length]
             /\ UNCHANGED answers
    <3>1. AreaIsOwn' /\ length <= staging'.capacity * Page
      BY <2>2, <2>3, ReserveKeeps
    <3>2. ExchangeInv'
      BY <2>2, <2>3, <3>1 DEF ExchangeInv, Calls
    <3>3. AnswersAreOwn'
      BY <2>2, <2>3 DEF AnswersAreOwn
    <3> QED
      BY <3>1, <3>2, <3>3
  <2>4. CASE /\ UNCHANGED <<pages, staging>>
             /\ call' = [n |-> call.n + 1, at |-> "idle", length |-> call.length] /\ answers' = Append(answers, [what |-> "refused", n |-> 0])
    <3>1. AreaIsOwn'
      BY <2>4 DEF AreaIsOwn, Size
    <3>2. call'.n = call.n + 1 /\ call'.at = "idle" /\ call' \in Calls
      BY <2>2, <2>4 DEF ExchangeInv, Calls
    <3>3. /\ answers \in Seq(Answers) /\ [what |-> "refused", n |-> 0] \in Answers
          /\ [what |-> "refused", n |-> 0].what = "refused"
      BY DEF ExchangeInv, Calls, Answers
    <3>4. /\ answers' \in Seq(Answers) /\ Len(answers') = Len(answers) + 1
          /\ (Lost(answers') <=> Lost(answers)) /\ (Own(answers') <=> Own(answers))
      BY <2>4, <3>3, AnswerAdded
    <3>5. ExchangeInv'
      BY <2>2, <3>2, <3>4 DEF ExchangeInv, Calls
    <3>6. AnswersAreOwn'
      BY <2>2, <3>2, <3>4, AnswersTold DEF BulkInv
    <3> QED
      BY <3>1, <3>5, <3>6
  <2> QED
    BY <2>1, <2>3, <2>4
<1>3. CASE Request
  <2>1. call.at = "send" /\ pages' = pages /\ staging' = staging /\ answers' = answers
    BY <1>3 DEF Request
  <2>2. AreaIsOwn'
    BY <2>1 DEF AreaIsOwn, Size
  <2>3. CASE pending # Nothing /\ call' = [call EXCEPT !.at = "trapped"] /\ UNCHANGED pending
    <3>1. call'.n = call.n /\ call'.at = "trapped" /\ call' \in Calls
      BY <2>3 DEF ExchangeInv, Calls
    <3>2. ExchangeInv' /\ AnswersAreOwn'
      BY <2>1, <2>3, <3>1 DEF ExchangeInv, Calls, AnswersAreOwn
    <3> QED
      BY <2>2, <3>2
  <2>4. ASSUME pending = Nothing, NEW length \in Lengths,
               pending' = [n |-> call.n, length |-> length + 1],
               call' = [n |-> call.n, at |-> "receive", length |-> length + 1]
        PROVE  BulkInv'
    <3>1. length \in Nat /\ call.n \in Nat /\ call.n > 0
      BY <2>1, <2>4, BulkAssumption DEF ExchangeInv, Calls
    <3>2. pending' # Nothing /\ pending'.n = call'.n /\ Nothing = Nothing
      BY <2>4, <3>1 DEF Nothing
    <3>3. ExchangeInv'
      BY <2>1, <2>4, <3>1, <3>2 DEF ExchangeInv, Calls
    <3>4. AnswersAreOwn'
      BY <2>1, <2>4 DEF AnswersAreOwn
    <3> QED
      BY <2>2, <3>3, <3>4
  <2> QED
    BY <1>3, <2>3, <2>4 DEF Request
<1>4. CASE MakeRoom
  <2>1. call.at = "receive" /\ pending' = pending /\ call.length \in Nat
    BY <1>4 DEF MakeRoom, ExchangeInv, Calls
  <2>2. CASE Reserve(call.length) /\ call' = [call EXCEPT !.at = "copy"] /\ UNCHANGED answers
    <3>1. AreaIsOwn' /\ call.length <= staging'.capacity * Page
      BY <2>1, <2>2, ReserveKeeps
    <3>2. /\ call'.n = call.n /\ call'.at = "copy" /\ call'.length = call.length
          /\ call' \in Calls
      BY <2>2 DEF ExchangeInv, Calls
    <3>3. ExchangeInv' /\ AnswersAreOwn'
      BY <2>1, <2>2, <3>1, <3>2 DEF ExchangeInv, Calls, AnswersAreOwn
    <3> QED
      BY <3>1, <3>3
  <2>3. CASE UNCHANGED <<pages, staging>> /\ Return("lost", 0)
    <3>1. AreaIsOwn'
      BY <2>3 DEF AreaIsOwn, Size
    <3>2. call'.n = call.n /\ call'.at = "idle" /\ call' \in Calls
      BY <2>3 DEF ExchangeInv, Calls, Return
    <3>3. /\ answers \in Seq(Answers) /\ [what |-> "lost", n |-> 0] \in Answers
          /\ [what |-> "lost", n |-> 0].what = "lost"
      BY DEF ExchangeInv, Calls, Answers
    <3>4. /\ answers' \in Seq(Answers) /\ Len(answers') = Len(answers) + 1
          /\ Lost(answers') /\ (Own(answers') <=> Own(answers))
      BY <2>3, <3>3, AnswerAdded DEF Return
    <3>5. ExchangeInv'
      BY <2>1, <3>2, <3>4 DEF ExchangeInv, Calls
    <3>6. pending' # Nothing
      BY <2>1 DEF ExchangeInv, Calls, Nothing
    <3>7. AnswersAreOwn'
      BY <3>2, <3>4, <3>6, AnswersTold DEF BulkInv
    <3> QED
      BY <3>1, <3>5, <3>7
  <2> QED
    BY <1>4, <2>2, <2>3 DEF MakeRoom
<1>5. CASE Response
  <2>1. /\ call.at = "copy" /\ pending' = Nothing /\ area'.n = pending.n /\ pages' = pages /\ staging' = staging
        /\ Return("answer", area'.n)
    BY <1>5 DEF Response
  <2>2. AreaIsOwn'
    BY <2>1 DEF AreaIsOwn, Size
  <2>3. area'.n = call.n /\ call.n \in Nat /\ call.n = Len(answers) + 1
    BY <2>1 DEF ExchangeInv, Calls
  <2>4. call'.n = call.n /\ call'.at = "idle" /\ call' \in Calls
    BY <2>1 DEF ExchangeInv, Calls, Return
  <2>5. PICK r : r = [what |-> "answer", n |-> call.n]
    OBVIOUS
  <2>6. answers \in Seq(Answers) /\ r \in Answers /\ r.what = "answer" /\ r.n = Len(answers) + 1
    BY <2>3, <2>5 DEF ExchangeInv, Calls, Answers
  <2>9. answers' = Append(answers, r)
    BY <2>1, <2>3, <2>5, Zenon DEF Return
  <2>10. /\ answers' \in Seq(Answers) /\ Len(answers') = Len(answers) + 1
         /\ (Lost(answers') <=> Lost(answers)) /\ (Own(answers') <=> Own(answers))
    BY <2>6, <2>9, AnswerAdded
  <2>7. ExchangeInv'
    BY <2>3, <2>4, <2>10 DEF ExchangeInv, Calls
  <2>11. ~Lost(answers)
    BY <2>1, AnswersTold DEF BulkInv
  <2>12. pending' = Nothing
    BY <2>1 DEF Nothing
  <2>8. AnswersAreOwn'
    BY <2>4, <2>10, <2>11, <2>12, AnswersTold DEF BulkInv
  <2> QED
    BY <2>2, <2>7, <2>8
<1>6. CASE UNCHANGED bulkVars
  <2>1. pages' = pages /\ staging' = staging /\ call' = call /\ answers' = answers /\ pending' = pending
    BY <1>6 DEF bulkVars
  <2>2. AreaIsOwn' /\ ExchangeInv' /\ AnswersAreOwn'
    BY <2>1 DEF AreaIsOwn, Size, ExchangeInv, Calls, AnswersAreOwn
  <2> QED
    BY <2>2
<1> QED
  BY <1>1, <1>2, <1>3, <1>4, <1>5, <1>6 DEF BulkNext

\* For any size of a page and of the memory and whatever is exchanged, the staging
\* area has pages of its own that hold what is in it, an answer is that of its own
\* request, and the guest traps only after an answer it had no room for
\* (src/node/internal/bulk-cli-host.js and the command's side of it).
THEOREM ExchangesKeepTheirOwn == BulkSpec => [](StagingIsOwn /\ AnswersAreOwn)
<1>1. BulkInv => StagingIsOwn /\ AnswersAreOwn
  BY DEF BulkInv, AreaIsOwn, ExchangeInv, Calls, StagingIsOwn
<1> QED
  BY <1>1, BulkStarts, BulkKeeps, PTL DEF BulkSpec

-----------------------------------------------------------------------------
(* The table of handles *)

Sources == {"extern-string", "extern-string-array"}
Readers == {"string-reader", "string-array-reader", "byte-array-reader"}

\* What was read of a value: its first k items; or all of them, and an end.
ReadUpTo(got, want, k) ==
    /\ got \in Seq(Items) /\ Len(got) = k /\ k <= Len(want)
    /\ \A i \in 1..k : got[i] = want[i]
ReadAll(got, want) == \E s, e : s = want /\ e \in {End, Sentinel} /\ got = Append(s, e)

\* A reader has what it is to read and has read it up to its index; a builder
\* holds what was built.
IsReader(r, o) ==
    /\ o.want \in Seq(Items) /\ r.value = o.want /\ r.index \in 0..Len(o.want)
    /\ r.type = "string-array-reader" => o.want \in Arrays
    /\ ReadUpTo(o.got, o.want, r.index) \/ ReadAll(o.got, o.want)
IsBuilder(r, o) == r.source = 0 /\ o.want \in Seq(Items) /\ r.value = o.want /\ o.got = o.want

HandlesInv ==
    /\ next \in Nat \ {0}
    /\ \A h \in DOMAIN table : h \in Nat /\ 0 < h /\ h < next
    /\ DOMAIN open \subseteq DOMAIN table /\ fresh \subseteq DOMAIN table
    /\ \A h \in fresh : table[h].type \in Sources
    /\ \A h \in DOMAIN table : /\ table[h].type = "extern-string" => table[h].value \in Texts
                               /\ table[h].type = "extern-string-array" => table[h].value \in Arrays
    /\ \A h \in DOMAIN open :
        /\ \/ table[h].type \in Readers /\ IsReader(table[h], open[h])
           \/ table[h].type = "builder" /\ IsBuilder(table[h], open[h])
        /\ table[h].source \in Nat /\ table[h].source < next
        /\ table[h].source \in DOMAIN table => table[table[h].source].type \in Sources
    /\ NothingElseIsKept

LEMMA HandlesStart == HandlesInit => HandlesInv
BY DEF HandlesInit, HandlesInv, NothingElseIsKept

LEMMA ItemsOf == \A s \in Texts \union Arrays : s \in Seq(Items)
BY HandlesAssumption

LEMMA StringsAreTexts == /\ Strings \subseteq Texts /\ Sentinel \in Texts
                         /\ \A a \in Arrays : a \in Seq(Items) /\ \A i \in 1..Len(a) : a[i] \in Texts
<1>1. \A a \in Arrays : a \in Seq(Items)
  BY ItemsOf
<1>2. ASSUME NEW a \in Arrays, NEW i \in 1..Len(a) PROVE a[i] \in Texts
  <2>1. i \in DOMAIN a
    BY <1>1
  <2>2. a[i] \in ToSet(a)
    BY <2>1 DEF ToSet
  <2> QED
    BY <2>2 DEF Texts
<1> QED
  BY <1>1, <1>2 DEF Texts

\* A value that is offered.
LEMMA OfferKeeps ==
    ASSUME HandlesInv, NEW data, Alloc(data), data.type \in Sources,
           data.type = "extern-string" => data.value \in Texts,
           data.type = "extern-string-array" => data.value \in Arrays,
           fresh' = fresh \union {next}, host' = host, open' = open
    PROVE  HandlesInv'
<1>1. /\ DOMAIN table' = DOMAIN table \union {next} /\ table'[next] = data /\ next' = next + 1
      /\ \A k \in DOMAIN table : k # next => table'[k] = table[k]
  <2>1. table' = [k \in DOMAIN table \union {next} |-> IF k = next THEN data ELSE table[k]] /\ next' = next + 1
    BY DEF Alloc, With
  <2> QED
    BY <2>1
<1>2. next \notin DOMAIN table /\ next \in Nat \ {0}
  BY DEF HandlesInv
<1>3. \A k \in DOMAIN table : table'[k] = table[k]
  BY <1>1, <1>2
<1>4. NothingElseIsKept'
  BY <1>1, <1>2, <1>3 DEF HandlesInv, NothingElseIsKept
<1>5. ASSUME NEW h \in DOMAIN open
      PROVE  /\ \/ table'[h].type \in Readers /\ IsReader(table'[h], open[h])
                \/ table'[h].type = "builder" /\ IsBuilder(table'[h], open[h])
             /\ table'[h].source \in Nat /\ table'[h].source < next'
             /\ table'[h].source \in DOMAIN table' => table'[table'[h].source].type \in Sources
  <2>1. h \in DOMAIN table /\ table'[h] = table[h]
    BY <1>3 DEF HandlesInv
  <2>2. table[h].source \in Nat /\ table[h].source < next
    BY DEF HandlesInv
  <2>3. table'[h].source \in DOMAIN table' => table'[table'[h].source].type \in Sources
    BY <1>1, <1>2, <1>3, <2>1, <2>2 DEF HandlesInv
  <2> QED
    BY <1>1, <1>2, <2>1, <2>2, <2>3 DEF HandlesInv
<1>6. \A h \in DOMAIN table' : h \in Nat /\ 0 < h /\ h < next'
  BY <1>1, <1>2 DEF HandlesInv
<1>7. \A h \in DOMAIN table' : /\ table'[h].type = "extern-string" => table'[h].value \in Texts
                               /\ table'[h].type = "extern-string-array" => table'[h].value \in Arrays
  BY <1>1, <1>2, <1>3 DEF HandlesInv
<1>8. \A h \in fresh' : table'[h].type \in Sources
  BY <1>1, <1>2, <1>3 DEF HandlesInv
<1>9. next' \in Nat \ {0} /\ DOMAIN open' \subseteq DOMAIN table' /\ fresh' \subseteq DOMAIN table'
  BY <1>1, <1>2 DEF HandlesInv
<1> QED
  BY <1>4, <1>5, <1>6, <1>7, <1>8, <1>9 DEF HandlesInv

\* A work that is begun; a source it has is no longer fresh.
LEMMA BeginKeeps ==
    ASSUME HandlesInv, NEW data, Alloc(data), NEW o, open' = With(open, next, o), host' = host,
           \/ data.type \in Readers /\ IsReader(data, o)
           \/ data.type = "builder" /\ IsBuilder(data, o),
           \/ data.source = 0 /\ fresh' = fresh
           \/ /\ data.source \in DOMAIN table /\ table[data.source].type \in Sources
              /\ fresh' = fresh \ {data.source}
    PROVE  HandlesInv'
<1>1. /\ DOMAIN table' = DOMAIN table \union {next} /\ table'[next] = data /\ next' = next + 1
      /\ \A k \in DOMAIN table : k # next => table'[k] = table[k]
  <2>1. table' = [k \in DOMAIN table \union {next} |-> IF k = next THEN data ELSE table[k]] /\ next' = next + 1
    BY DEF Alloc, With
  <2> QED
    BY <2>1
<1>2. /\ DOMAIN open' = DOMAIN open \union {next} /\ open'[next] = o
      /\ \A k \in DOMAIN open : k # next => open'[k] = open[k]
  <2>1. open' = [k \in DOMAIN open \union {next} |-> IF k = next THEN o ELSE open[k]]
    BY DEF With
  <2> QED
    BY <2>1
<1>3. next \notin DOMAIN table /\ next \notin DOMAIN open /\ next \in Nat \ {0}
  BY DEF HandlesInv
<1>4. (\A k \in DOMAIN table : table'[k] = table[k]) /\ \A k \in DOMAIN open : open'[k] = open[k]
  BY <1>1, <1>2, <1>3
<1>5. data.source \in Nat /\ data.source < next /\ (data.source \in DOMAIN table => table[data.source].type \in Sources)
  BY <1>3 DEF HandlesInv
<1>6. NothingElseIsKept'
  <2> SUFFICES ASSUME host # "task", NEW h \in DOMAIN table'
               PROVE  h \in DOMAIN open' \union fresh' \/ \E r \in DOMAIN open' : table'[r].source = h
    BY DEF NothingElseIsKept
  <2>1. CASE h = next \/ h = data.source
    BY <1>1, <1>2, <2>1
  <2>2. CASE h # next /\ h # data.source
    <3>1. h \in DOMAIN open \union fresh \/ \E r \in DOMAIN open : table[r].source = h
      BY <1>1, <2>2 DEF HandlesInv, NothingElseIsKept
    <3>2. \A r \in DOMAIN open : r \in DOMAIN table /\ table'[r] = table[r]
      BY <1>4 DEF HandlesInv
    <3> QED
      BY <1>2, <2>2, <3>1, <3>2
  <2> QED
    BY <2>1, <2>2
<1>7. ASSUME NEW h \in DOMAIN open'
      PROVE  /\ \/ table'[h].type \in Readers /\ IsReader(table'[h], open'[h])
                \/ table'[h].type = "builder" /\ IsBuilder(table'[h], open'[h])
             /\ table'[h].source \in Nat /\ table'[h].source < next'
             /\ table'[h].source \in DOMAIN table' => table'[table'[h].source].type \in Sources
  <2>1. CASE h = next
    BY <1>1, <1>2, <1>3, <1>4, <1>5, <2>1
  <2>2. CASE h # next
    <3>1. h \in DOMAIN open /\ h \in DOMAIN table /\ table'[h] = table[h] /\ open'[h] = open[h]
      BY <1>2, <1>4, <2>2 DEF HandlesInv
    <3>2. table[h].source \in Nat /\ table[h].source < next
      BY <3>1 DEF HandlesInv
    <3>3. table'[h].source \in DOMAIN table' => table'[table'[h].source].type \in Sources
      BY <1>1, <1>3, <1>4, <3>1, <3>2 DEF HandlesInv
    <3> QED
      BY <1>1, <1>3, <3>1, <3>2, <3>3 DEF HandlesInv
  <2> QED
    BY <2>1, <2>2
<1>8. \A h \in DOMAIN table' : h \in Nat /\ 0 < h /\ h < next'
  BY <1>1, <1>3 DEF HandlesInv
<1>9. \A h \in DOMAIN table' : /\ table'[h].type = "extern-string" => table'[h].value \in Texts
                               /\ table'[h].type = "extern-string-array" => table'[h].value \in Arrays
  BY <1>1, <1>3, <1>4 DEF HandlesInv, Readers
<1>10. \A h \in fresh' : h \in DOMAIN table' /\ table'[h].type \in Sources
  BY <1>1, <1>3, <1>4 DEF HandlesInv
<1>11. next' \in Nat \ {0} /\ DOMAIN open' \subseteq DOMAIN table' /\ fresh' \subseteq DOMAIN table'
  BY <1>1, <1>2, <1>3, <1>10 DEF HandlesInv
<1> QED
  BY <1>6, <1>7, <1>8, <1>9, <1>10, <1>11 DEF HandlesInv

\* A work goes on: the handle is of the same kind and has the same source.
LEMMA GoOnKeeps ==
    ASSUME HandlesInv, NEW h \in DOMAIN open, NEW r, NEW o, r.type = table[h].type, r.source = table[h].source,
           table' = With(table, h, r) \/ (table' = table /\ r = table[h]), open' = With(open, h, o),
           \/ r.type \in Readers /\ IsReader(r, o)
           \/ r.type = "builder" /\ IsBuilder(r, o),
           next' = next, fresh' = fresh, host' = host
    PROVE  HandlesInv'
<1>1. h \in DOMAIN table
  BY DEF HandlesInv
<1>2. DOMAIN table' = DOMAIN table /\ table'[h] = r /\ \A k \in DOMAIN table : k # h => table'[k] = table[k]
  <2>1. CASE table' = With(table, h, r)
    <3>1. table' = [k \in DOMAIN table \union {h} |-> IF k = h THEN r ELSE table[k]]
      BY <2>1 DEF With
    <3> QED
      BY <1>1, <3>1
  <2>2. CASE table' = table /\ r = table[h]
    BY <2>2
  <2> QED
    BY <2>1, <2>2
<1>3. DOMAIN open' = DOMAIN open /\ open'[h] = o /\ \A k \in DOMAIN open : k # h => open'[k] = open[k]
  <2>1. open' = [k \in DOMAIN open \union {h} |-> IF k = h THEN o ELSE open[k]]
    BY DEF With
  <2> QED
    BY <2>1
<1>4. r.type \notin Sources
  BY DEF Sources, Readers
<1>5. \A k \in DOMAIN table : table'[k].type = table[k].type
  BY <1>1, <1>2
<1>6. \A k \in DOMAIN open : k \in DOMAIN table /\ table'[k].source = table[k].source
  BY <1>2 DEF HandlesInv
<1>7. NothingElseIsKept'
  BY <1>2, <1>3, <1>6 DEF HandlesInv, NothingElseIsKept
<1>8. ASSUME NEW k \in DOMAIN open'
      PROVE  /\ \/ table'[k].type \in Readers /\ IsReader(table'[k], open'[k])
                \/ table'[k].type = "builder" /\ IsBuilder(table'[k], open'[k])
             /\ table'[k].source \in Nat /\ table'[k].source < next'
             /\ table'[k].source \in DOMAIN table' => table'[table'[k].source].type \in Sources
  <2>1. k \in DOMAIN open /\ k \in DOMAIN table
    BY <1>3, <1>6
  <2>2. \/ table'[k].type \in Readers /\ IsReader(table'[k], open'[k])
        \/ table'[k].type = "builder" /\ IsBuilder(table'[k], open'[k])
    <3>1. CASE k = h
      BY <1>2, <1>3, <3>1
    <3>2. CASE k # h
      BY <1>2, <1>3, <2>1, <3>2 DEF HandlesInv
    <3> QED
      BY <3>1, <3>2
  <2>3. table[k].source \in Nat /\ table[k].source < next /\ (table[k].source \in DOMAIN table => table[table[k].source].type \in Sources)
    BY <2>1 DEF HandlesInv
  <2> QED
    BY <1>2, <1>5, <1>6, <2>1, <2>2, <2>3
<1>9. \A k \in DOMAIN table' : /\ table'[k].type = "extern-string" => table'[k].value \in Texts
                               /\ table'[k].type = "extern-string-array" => table'[k].value \in Arrays
  BY <1>1, <1>2, <1>4 DEF HandlesInv, Sources
<1>10. /\ \A k \in DOMAIN table' : k \in Nat /\ 0 < k /\ k < next'
       /\ \A k \in fresh' : table'[k].type \in Sources
  BY <1>2, <1>5 DEF HandlesInv
<1>11. next' \in Nat \ {0} /\ DOMAIN open' \subseteq DOMAIN table' /\ fresh' \subseteq DOMAIN table'
  BY <1>2, <1>3 DEF HandlesInv
<1> QED
  BY <1>7, <1>8, <1>9, <1>10, <1>11 DEF HandlesInv

\* A work that ends gives its handle back, and perhaps its source.
LEMMA EndKeeps ==
    ASSUME HandlesInv, NEW h \in DOMAIN open, NEW S,
           S = {h} \/ S = {h, table[h].source} \/ (S = {} /\ host = "task"),
           S = {h} => table[h].source = 0,
           table' = Without(table, S), open' = Without(open, {h}), fresh' = fresh \ S,
           next' = next, host' = host
    PROVE  HandlesInv'
<1>1. DOMAIN table' = DOMAIN table \ S /\ \A k \in DOMAIN table' : table'[k] = table[k]
  <2>1. table' = [k \in DOMAIN table \ S |-> table[k]]
    BY DEF Without
  <2> QED
    BY <2>1
<1>2. DOMAIN open' = DOMAIN open \ {h} /\ \A k \in DOMAIN open' : open'[k] = open[k]
  <2>1. open' = [k \in DOMAIN open \ {h} |-> open[k]]
    BY DEF Without
  <2> QED
    BY <2>1
<1>3. h \in DOMAIN table /\ table[h].source \notin DOMAIN open
  <2>1. \A k \in DOMAIN open : k \in DOMAIN table /\ table[k].type \notin Sources
    BY DEF HandlesInv, Readers, Sources
  <2> QED
    BY <2>1 DEF HandlesInv
<1>4. DOMAIN open' \subseteq DOMAIN table'
  BY <1>1, <1>2, <1>3 DEF HandlesInv
<1>5. fresh' \subseteq DOMAIN table' /\ \A k \in fresh' : table'[k].type \in Sources
  BY <1>1 DEF HandlesInv
<1>6. NothingElseIsKept'
  <2> SUFFICES ASSUME host # "task", NEW k \in DOMAIN table'
               PROVE  k \in DOMAIN open' \union fresh' \/ \E r \in DOMAIN open' : table'[r].source = k
    BY DEF NothingElseIsKept
  <2>1. k \in DOMAIN table /\ k \notin S /\ k # h /\ k # 0
    BY <1>1 DEF HandlesInv
  <2>2. k # table[h].source
    BY <2>1
  <2>3. k \in DOMAIN open \union fresh \/ \E r \in DOMAIN open : table[r].source = k
    BY <2>1 DEF HandlesInv, NothingElseIsKept
  <2>4. CASE k \in DOMAIN open \union fresh
    BY <1>2, <2>1, <2>4
  <2>5. ASSUME NEW r \in DOMAIN open, table[r].source = k
        PROVE  \E q \in DOMAIN open' : table'[q].source = k
    <3>1. r \in DOMAIN open' /\ r \in DOMAIN table'
      BY <1>2, <1>4, <2>2, <2>5
    <3> QED
      BY <1>1, <2>5, <3>1
  <2> QED
    BY <2>3, <2>4, <2>5
<1>7. ASSUME NEW k \in DOMAIN open'
      PROVE  /\ \/ table'[k].type \in Readers /\ IsReader(table'[k], open'[k])
                \/ table'[k].type = "builder" /\ IsBuilder(table'[k], open'[k])
             /\ table'[k].source \in Nat /\ table'[k].source < next'
             /\ table'[k].source \in DOMAIN table' => table'[table'[k].source].type \in Sources
  <2>1. k \in DOMAIN open /\ k \in DOMAIN table' /\ table'[k] = table[k] /\ open'[k] = open[k]
    BY <1>1, <1>2, <1>4
  <2> QED
    BY <1>1, <2>1 DEF HandlesInv
<1>8. \A k \in DOMAIN table' : /\ k \in Nat /\ 0 < k /\ k < next'
                               /\ table'[k].type = "extern-string" => table'[k].value \in Texts
                               /\ table'[k].type = "extern-string-array" => table'[k].value \in Arrays
  BY <1>1 DEF HandlesInv
<1> QED
  BY <1>4, <1>5, <1>6, <1>7, <1>8 DEF HandlesInv

\* A read that goes on and hands out a string under a handle of its own.
LEMMA GoOnAndOfferKeeps ==
    ASSUME HandlesInv, NEW h \in DOMAIN open, NEW r, NEW o, r.type = table[h].type, r.source = table[h].source,
           NEW t, t = With(table, h, r) \/ (t = table /\ r = table[h]), open' = With(open, h, o),
           r.type \in Readers /\ IsReader(r, o),
           NEW text, text.type = "extern-string", text.value \in Texts,
           table' = With(t, next, text), next' = next + 1, fresh' = fresh \union {next}, host' = host
    PROVE  HandlesInv'
<1>1. h \in DOMAIN table /\ next \notin DOMAIN table /\ next \in Nat \ {0} /\ next # h
  BY DEF HandlesInv
<1>2. DOMAIN t = DOMAIN table /\ t[h] = r /\ \A k \in DOMAIN table : k # h => t[k] = table[k]
  <2>1. CASE t = With(table, h, r)
    <3>1. t = [k \in DOMAIN table \union {h} |-> IF k = h THEN r ELSE table[k]]
      BY <2>1 DEF With
    <3>2. DOMAIN table \union {h} = DOMAIN table
      BY <1>1
    <3>3. t = [k \in DOMAIN table |-> IF k = h THEN r ELSE table[k]]
      BY <3>1, <3>2
    <3> QED
      BY <1>1, <3>3
  <2>2. CASE t = table /\ r = table[h]
    BY <2>2
  <2> QED
    BY <2>1, <2>2
<1>3. DOMAIN open' = DOMAIN open /\ open'[h] = o /\ \A k \in DOMAIN open : k # h => open'[k] = open[k]
  <2>1. open' = [k \in DOMAIN open \union {h} |-> IF k = h THEN o ELSE open[k]]
    BY DEF With
  <2> QED
    BY <2>1
<1>4. /\ DOMAIN table' = DOMAIN table \union {next} /\ table'[next] = text /\ table'[h] = r
      /\ \A k \in DOMAIN table : k # h => table'[k] = table[k]
  <2>1. table' = [k \in DOMAIN t \union {next} |-> IF k = next THEN text ELSE t[k]]
    BY DEF With
  <2> QED
    BY <1>1, <1>2, <2>1
<1>5. r.type \notin Sources
  BY DEF Sources, Readers
<1>6. \A k \in DOMAIN table : table'[k].type = table[k].type
  BY <1>1, <1>4
<1>7. \A k \in DOMAIN open : k \in DOMAIN table /\ table'[k].source = table[k].source
  BY <1>4 DEF HandlesInv
<1>8. NothingElseIsKept'
  BY <1>3, <1>4, <1>7 DEF HandlesInv, NothingElseIsKept
<1>9. ASSUME NEW k \in DOMAIN open'
      PROVE  /\ \/ table'[k].type \in Readers /\ IsReader(table'[k], open'[k])
                \/ table'[k].type = "builder" /\ IsBuilder(table'[k], open'[k])
             /\ table'[k].source \in Nat /\ table'[k].source < next'
             /\ table'[k].source \in DOMAIN table' => table'[table'[k].source].type \in Sources
  <2>1. k \in DOMAIN open /\ k \in DOMAIN table
    BY <1>3, <1>7
  <2>2. \/ table'[k].type \in Readers /\ IsReader(table'[k], open'[k])
        \/ table'[k].type = "builder" /\ IsBuilder(table'[k], open'[k])
    <3>1. CASE k = h
      BY <1>3, <1>4, <3>1
    <3>2. CASE k # h
      BY <1>3, <1>4, <2>1, <3>2 DEF HandlesInv
    <3> QED
      BY <3>1, <3>2
  <2>3. table[k].source \in Nat /\ table[k].source < next /\ (table[k].source \in DOMAIN table => table[table[k].source].type \in Sources)
    BY <2>1 DEF HandlesInv
  <2> QED
    BY <1>1, <1>4, <1>6, <1>7, <2>1, <2>2, <2>3
<1>10. \A k \in DOMAIN table' : /\ table'[k].type = "extern-string" => table'[k].value \in Texts
                                /\ table'[k].type = "extern-string-array" => table'[k].value \in Arrays
  BY <1>1, <1>4, <1>5 DEF HandlesInv, Sources
<1>11. /\ \A k \in DOMAIN table' : k \in Nat /\ 0 < k /\ k < next'
       /\ \A k \in fresh' : table'[k].type \in Sources
  BY <1>1, <1>4, <1>6 DEF HandlesInv, Sources
<1>12. next' \in Nat \ {0} /\ DOMAIN open' \subseteq DOMAIN table' /\ fresh' \subseteq DOMAIN table'
  BY <1>1, <1>3, <1>4 DEF HandlesInv
<1> QED
  BY <1>8, <1>9, <1>10, <1>11, <1>12 DEF HandlesInv

\* A read that has not ended got the items up to its index, and no end.
LEMMA NotEnded ==
    ASSUME NEW h, NEW r, IsReader(r, open[h]), ~ Ended(h)
    PROVE  ReadUpTo(open[h].got, open[h].want, r.index)
<1>1. ASSUME NEW s, NEW e, s = open[h].want, e \in {End, Sentinel}, open[h].got = Append(s, e)
      PROVE  FALSE
  <2>1. s \in Seq(Items)
    BY <1>1 DEF IsReader
  <2>2. PICK g : g = Append(s, e)
    OBVIOUS
  <2>3. g # <<>> /\ Len(g) = Len(s) + 1 /\ g[Len(g)] = e
    BY <2>1, <2>2
  <2> QED
    BY <1>1, <2>2, <2>3 DEF Ended, Last
<1> QED
  BY <1>1 DEF IsReader, ReadAll

\* What a read gets next: an item, or once it has all of them, the end.
LEMMA NextItem ==
    ASSUME NEW want \in Seq(Items), NEW got, NEW k \in 0..Len(want), ReadUpTo(got, want, k), NEW e \in {End, Sentinel}
    PROVE  /\ k >= Len(want) => ReadAll(Append(got, e), want)
           /\ ~ (k >= Len(want)) => ReadUpTo(Append(got, want[k + 1]), want, k + 1)
<1>1. got \in Seq(Items) /\ Len(got) = k /\ \A i \in 1..k : got[i] = want[i]
  BY DEF ReadUpTo
<1>2. CASE k >= Len(want)
  <2>1. k = Len(want)
    BY <1>2
  <2>2. got = want
    BY <1>1, <2>1
  <2> QED
    BY <1>2, <2>2 DEF ReadAll
<1>3. CASE ~ (k >= Len(want))
  <2>1. PICK g : g = Append(got, want[k + 1])
    OBVIOUS
  <2>2. want[k + 1] \in Items /\ k + 1 <= Len(want)
    BY <1>3
  <2>3. g \in Seq(Items) /\ Len(g) = k + 1 /\ \A i \in 1..(k + 1) : g[i] = want[i]
    BY <1>1, <2>1, <2>2
  <2> QED
    BY <1>3, <2>1, <2>2, <2>3 DEF ReadUpTo
<1> QED
  BY <1>2, <1>3

LEMMA ReadBegins ==
    ASSUME NEW want \in Seq(Items)
    PROVE  ReadUpTo(<<>>, want, 0)
BY DEF ReadUpTo

LEMMA OffersKeep ==
    ASSUME HandlesInv
    PROVE  /\ \A s \in Strings : OfferString(s) => HandlesInv'
           /\ \A a \in Arrays : OfferArray(a) => HandlesInv'
<1>1. ASSUME NEW s \in Strings, OfferString(s) PROVE HandlesInv'
  <2>1. PICK data : data = [type |-> "extern-string", value |-> s]
    OBVIOUS
  <2>2. data.type = "extern-string" /\ data.value \in Texts
    BY <2>1, StringsAreTexts
  <2>3. Alloc(data) /\ fresh' = fresh \union {next} /\ host' = host /\ open' = open
    BY <1>1, <2>1 DEF OfferString
  <2> QED
    BY <2>2, <2>3, OfferKeeps DEF Sources
<1>2. ASSUME NEW a \in Arrays, OfferArray(a) PROVE HandlesInv'
  <2>1. PICK data : data = [type |-> "extern-string-array", value |-> a]
    OBVIOUS
  <2>2. data.type = "extern-string-array" /\ data.value \in Arrays
    BY <2>1
  <2>3. Alloc(data) /\ fresh' = fresh \union {next} /\ host' = host /\ open' = open
    BY <1>2, <2>1 DEF OfferArray
  <2> QED
    BY <2>2, <2>3, OfferKeeps DEF Sources
<1> QED
  BY <1>1, <1>2

LEMMA BeginsKeep ==
    ASSUME HandlesInv
    PROVE  /\ \A h \in DOMAIN table, reader \in {"string-reader", "string-array-reader"} :
                BeginRead(h, reader) => HandlesInv'
           /\ \A s \in Strings, reader \in {"string-reader", "byte-array-reader"} :
                BeginReadValue(s, reader) => HandlesInv'
           /\ BeginBuild => HandlesInv'
<1>1. ASSUME NEW h \in DOMAIN table, NEW reader \in {"string-reader", "string-array-reader"}, BeginRead(h, reader)
      PROVE  HandlesInv'
  <2>1. PICK w : w = table[h].value
    OBVIOUS
  <2>2. PICK data : data = [type |-> reader, source |-> h, value |-> w, index |-> 0]
    OBVIOUS
  <2>3. PICK o : o = [want |-> w, got |-> <<>>]
    OBVIOUS
  <2>4. /\ Alloc(data) /\ open' = With(open, next, o) /\ fresh' = fresh \ {h} /\ host' = host
        /\ table[h].type = IF reader = "string-reader" THEN "extern-string" ELSE "extern-string-array"
    BY <1>1, <2>1, <2>2, <2>3 DEF BeginRead
  <2>5. w \in Seq(Items) /\ (reader = "string-array-reader" => w \in Arrays)
    BY <2>1, <2>4, ItemsOf DEF HandlesInv
  <2>6. IsReader(data, o) /\ data.type \in Readers
    BY <2>2, <2>3, <2>5, ReadBegins DEF IsReader, Readers
  <2>7. data.source = h /\ table[h].type \in Sources
    BY <2>2, <2>4 DEF Sources
  <2> QED
    BY <2>4, <2>6, <2>7, BeginKeeps
<1>2. ASSUME NEW w \in Strings, NEW reader \in {"string-reader", "byte-array-reader"}, BeginReadValue(w, reader)
      PROVE  HandlesInv'
  <2>2. PICK data : data = [type |-> reader, source |-> 0, value |-> w, index |-> 0]
    OBVIOUS
  <2>3. PICK o : o = [want |-> w, got |-> <<>>]
    OBVIOUS
  <2>4. Alloc(data) /\ open' = With(open, next, o) /\ fresh' = fresh /\ host' = host
    BY <1>2, <2>2, <2>3 DEF BeginReadValue
  <2>5. w \in Seq(Items)
    BY StringsAreTexts, ItemsOf
  <2>6. IsReader(data, o) /\ data.type \in Readers /\ data.source = 0
    BY <2>2, <2>3, <2>5, ReadBegins DEF IsReader, Readers
  <2> QED
    BY <2>4, <2>6, BeginKeeps
<1>3. ASSUME BeginBuild PROVE HandlesInv'
  <2>2. PICK data : data = [type |-> "builder", source |-> 0, value |-> <<>>]
    OBVIOUS
  <2>3. PICK o : o = [want |-> <<>>, got |-> <<>>]
    OBVIOUS
  <2>4. Alloc(data) /\ open' = With(open, next, o) /\ fresh' = fresh /\ host' = host
    BY <1>3, <2>2, <2>3 DEF BeginBuild
  <2>5. IsBuilder(data, o) /\ data.type = "builder" /\ data.source = 0
    BY <2>2, <2>3 DEF IsBuilder
  <2> QED
    BY <2>4, <2>5, BeginKeeps
<1> QED
  BY <1>1, <1>2, <1>3

\* A read of an item, and of a string of an array.
LEMMA ReadsKeep ==
    ASSUME HandlesInv, NEW h \in DOMAIN open, ~ Ended(h)
    PROVE  (ReadItem(h) => HandlesInv') /\ (ReadString(h) => HandlesInv')
<1> DEFINE k == table[h].index
           want == open[h].want
           got == open[h].got
           Moved(e) == [want |-> want, got |-> Append(got, e)]
<1>1. ASSUME table[h].type \in Readers
      PROVE  /\ IsReader(table[h], open[h]) /\ ReadUpTo(got, want, k)
             /\ want \in Seq(Items) /\ k \in 0..Len(want) /\ table[h].value = want
             /\ table[h].type = "string-array-reader" => want \in Arrays
  <2>1. IsReader(table[h], open[h])
    BY <1>1 DEF HandlesInv, Readers
  <2> QED
    BY <2>1, NotEnded DEF IsReader
<1>2. ASSUME table[h].type \in Readers, k >= Len(want), NEW e \in {End, Sentinel}
      PROVE  IsReader(table[h], Moved(e))
  <2>1. ReadAll(Append(got, e), want)
    BY <1>1, <1>2, NextItem
  <2> QED
    BY <1>1, <1>2, <2>1 DEF IsReader
<1>3. ASSUME table[h].type \in Readers, ~ (k >= Len(want)), NEW r,
             r = [type |-> table[h].type, source |-> table[h].source, value |-> table[h].value, index |-> table[h].index + 1]
      PROVE  IsReader(r, Moved(want[k + 1]))
  <2>1. ReadUpTo(Append(got, want[k + 1]), want, k + 1)
    BY <1>1, <1>3, NextItem
  <2>2. r.value = want /\ r.index = k + 1 /\ k + 1 \in 0..Len(want) /\ r.type = table[h].type
    BY <1>1, <1>3
  <2> QED
    BY <1>1, <1>3, <2>1, <2>2 DEF IsReader
<1>4. ASSUME ReadItem(h) PROVE HandlesInv'
  <2>1. table[h].type \in Readers /\ next' = next /\ fresh' = fresh /\ host' = host
    BY <1>4 DEF ReadItem, Valid, Readers
  <2>2. CASE k >= Len(want)
    <3>1. table' = table /\ Got(h, End)
      BY <1>1, <1>4, <2>1, <2>2 DEF ReadItem
    <3>2. PICK o : o = Moved(End)
      OBVIOUS
    <3>3. open' = With(open, h, o) /\ IsReader(table[h], o)
      BY <1>2, <2>1, <2>2, <3>1, <3>2 DEF Got
    <3> QED
      BY <2>1, <3>1, <3>3, GoOnKeeps
  <2>3. CASE ~ (k >= Len(want))
    <3>1. table' = Step(h) /\ Got(h, want[k + 1])
      BY <1>1, <1>4, <2>1, <2>3 DEF ReadItem
    <3>2. PICK o : o = Moved(want[k + 1])
      OBVIOUS
    <3>3. PICK r : r = [type |-> table[h].type, source |-> table[h].source, value |-> table[h].value, index |-> table[h].index + 1]
      OBVIOUS
    <3>4. open' = With(open, h, o) /\ table' = With(table, h, r)
      BY <3>1, <3>2, <3>3 DEF Got, Step
    <3>5. IsReader(r, o)
      BY <1>3, <2>1, <2>3, <3>2, <3>3
    <3>6. r.type = table[h].type /\ r.source = table[h].source
      BY <3>3
    <3> QED
      BY <2>1, <3>4, <3>5, <3>6, GoOnKeeps
  <2> QED
    BY <2>2, <2>3
<1>5. ASSUME ReadString(h) PROVE HandlesInv'
  <2>1. /\ table[h].type = "string-array-reader" /\ table[h].type \in Readers
        /\ next' = next + 1 /\ fresh' = fresh \union {next} /\ host' = host
    BY <1>5 DEF ReadString, Valid, Readers
  <2>2. want \in Arrays
    BY <1>1, <2>1
  <2>3. CASE k >= Len(want)
    <3>1. PICK text : text = [type |-> "extern-string", value |-> Sentinel]
      OBVIOUS
    <3>2. table' = With(table, next, text) /\ Got(h, Sentinel)
      BY <1>1, <1>5, <2>1, <2>3, <3>1 DEF ReadString
    <3>3. PICK o : o = Moved(Sentinel)
      OBVIOUS
    <3>4. open' = With(open, h, o) /\ IsReader(table[h], o)
      BY <1>2, <2>1, <2>3, <3>2, <3>3 DEF Got
    <3>5. text.type = "extern-string" /\ text.value \in Texts
      BY <3>1, StringsAreTexts
    <3> QED
      BY <2>1, <3>2, <3>4, <3>5, GoOnAndOfferKeeps
  <2>4. CASE ~ (k >= Len(want))
    <3>1. PICK text : text = [type |-> "extern-string", value |-> want[k + 1]]
      OBVIOUS
    <3>2. table' = With(Step(h), next, text) /\ Got(h, want[k + 1])
      BY <1>1, <1>5, <2>1, <2>4, <3>1 DEF ReadString
    <3>3. PICK o : o = Moved(want[k + 1])
      OBVIOUS
    <3>4. PICK r : r = [type |-> table[h].type, source |-> table[h].source, value |-> table[h].value, index |-> table[h].index + 1]
      OBVIOUS
    <3>5. PICK t : t = With(table, h, r)
      OBVIOUS
    <3>6. open' = With(open, h, o) /\ table' = With(t, next, text)
      BY <3>2, <3>3, <3>4, <3>5 DEF Got, Step
    <3>7. IsReader(r, o)
      BY <1>3, <2>1, <2>4, <3>3, <3>4
    <3>8. r.type = table[h].type /\ r.source = table[h].source
      BY <3>4
    <3>9. text.type = "extern-string" /\ text.value \in Texts
      <4>1. k + 1 \in 1..Len(want)
        BY <1>1, <2>1, <2>4
      <4> QED
        BY <2>2, <3>1, <4>1, StringsAreTexts
    <3> HIDE DEF k, want, got, Moved
    <3> QED
      BY <2>1, <3>5, <3>6, <3>7, <3>8, <3>9, GoOnAndOfferKeeps
  <2> QED
    BY <2>3, <2>4
<1> QED
  BY <1>4, <1>5

LEMMA BuildsKeep ==
    ASSUME HandlesInv, NEW h \in DOMAIN open
    PROVE  /\ \A s \in Strings : s # <<>> /\ AppendItem(h, s[1]) => HandlesInv'
           /\ FinishBuild(h) => HandlesInv'
           /\ FinishRead(h) => HandlesInv'
<1>1. ASSUME table[h].type = "builder" PROVE IsBuilder(table[h], open[h])
  BY <1>1 DEF HandlesInv, Readers
<1>2. ASSUME NEW s \in Strings, s # <<>>, AppendItem(h, s[1]) PROVE HandlesInv'
  <2>1. /\ table[h].type = "builder" /\ next' = next /\ fresh' = fresh /\ host' = host
    BY <1>2 DEF AppendItem, Valid
  <2>2. IsBuilder(table[h], open[h])
    BY <1>1, <2>1
  <2>3. PICK w : w = Append(open[h].want, s[1])
    OBVIOUS
  <2>4. PICK r : r = [type |-> "builder", source |-> 0, value |-> w]
    OBVIOUS
  <2>5. PICK o : o = [want |-> w, got |-> w]
    OBVIOUS
  <2>6. table[h].value = open[h].want
    BY <2>2 DEF IsBuilder
  <2>7. table' = With(table, h, r) /\ open' = With(open, h, o)
    BY <1>2, <2>3, <2>4, <2>5, <2>6 DEF AppendItem
  <2>8. w \in Seq(Items)
    <3>1. s \in Seq(Items) /\ s # <<>>
      BY <1>2, StringsAreTexts, ItemsOf
    <3>2. s[1] \in Items /\ open[h].want \in Seq(Items)
      BY <2>2, <3>1 DEF IsBuilder
    <3> QED
      BY <2>3, <3>2
  <2>9. IsBuilder(r, o) /\ r.type = "builder" /\ r.source = table[h].source
    BY <2>2, <2>4, <2>5, <2>8 DEF IsBuilder
  <2> QED
    BY <2>1, <2>7, <2>9, GoOnKeeps
<1>3. ASSUME FinishBuild(h) PROVE HandlesInv'
  <2>1. table[h].source = 0
    BY <1>1, <1>3 DEF FinishBuild, Valid, IsBuilder
  <2>2. /\ table' = Without(table, {h}) /\ open' = Without(open, {h}) /\ next' = next /\ fresh' = fresh /\ host' = host
        /\ table[h].type = "builder"
    BY <1>3 DEF FinishBuild, Valid
  <2>3. h \notin fresh
    BY <2>2 DEF HandlesInv, Sources
  <2>4. fresh' = fresh \ {h}
    BY <2>2, <2>3
  <2> QED
    BY <2>1, <2>2, <2>4, EndKeeps
<1>4. ASSUME FinishRead(h) PROVE HandlesInv'
  <2>1. PICK S : S = Released(h)
    OBVIOUS
  <2>2. /\ table' = Without(table, S) /\ open' = Without(open, {h}) /\ fresh' = fresh \ S /\ next' = next /\ host' = host
    BY <1>4, <2>1 DEF FinishRead
  <2>3. (S = {} /\ host = "task") \/ (S = {h, table[h].source} /\ host # "task")
    BY <2>1 DEF Released
  <2>4. h \in Nat /\ h > 0
    BY DEF HandlesInv
  <2>5. S # {h} \/ table[h].source = h
    BY <2>3
  <2>6. table[h].source # h
    BY <1>4 DEF FinishRead, HandlesInv, Sources
  <2>7. S = {h} => table[h].source = 0
    BY <2>5, <2>6
  <2> QED
    BY <2>2, <2>3, <2>7, EndKeeps
<1> QED
  BY <1>2, <1>3, <1>4

LEMMA HandlesKeep == HandlesInv /\ [HandlesNext]_handleVars => HandlesInv'
<1> SUFFICES ASSUME HandlesInv, [HandlesNext]_handleVars PROVE HandlesInv'
  OBVIOUS
<1>1. ASSUME NEW s \in Strings,
             OfferString(s) \/ BeginReadValue(s, "byte-array-reader") \/ BeginReadValue(s, "string-reader")
      PROVE  HandlesInv'
  BY <1>1, OffersKeep, BeginsKeep
<1>2. ASSUME NEW a \in Arrays, OfferArray(a) PROVE HandlesInv'
  BY <1>2, OffersKeep
<1>3. ASSUME NEW h \in DOMAIN table, BeginRead(h, "string-reader") \/ BeginRead(h, "string-array-reader")
      PROVE  HandlesInv'
  BY <1>3, BeginsKeep
<1>4. ASSUME NEW h \in DOMAIN open, ~ Ended(h) /\ (ReadItem(h) \/ ReadString(h))
      PROVE  HandlesInv'
  BY <1>4, ReadsKeep
<1>5. ASSUME NEW h \in DOMAIN open, FinishRead(h) \/ FinishBuild(h) \/ \E s \in Strings : s # <<>> /\ AppendItem(h, s[1])
      PROVE  HandlesInv'
  BY <1>5, BuildsKeep
<1>6. CASE BeginBuild
  BY <1>6, BeginsKeep
<1>7. CASE UNCHANGED handleVars
  <2>1. host' = host /\ table' = table /\ next' = next /\ fresh' = fresh /\ open' = open
    BY <1>7 DEF handleVars
  <2> QED
    BY <2>1 DEF HandlesInv, NothingElseIsKept
<1> QED
  BY <1>1, <1>2, <1>3, <1>4, <1>5, <1>6, <1>7 DEF HandlesNext

\* What a read got of its value.
LEMMA ReadsTheValue ==
    ASSUME HandlesInv, NEW h \in DOMAIN open
    PROVE  LET g == IF Ended(h) THEN Front(open[h].got) ELSE open[h].got IN
           IsPrefix(g, open[h].want) /\ (Ended(h) => g = open[h].want)
<1>1. PICK w : w = open[h].want
  OBVIOUS
<1>2. PICK s : s = open[h].got
  OBVIOUS
<1>3. w \in Seq(Items) /\ \/ s = w
                          \/ \E k \in 0..Len(w) : ReadUpTo(s, w, k)
                          \/ ReadAll(s, w)
  BY <1>1, <1>2 DEF HandlesInv, IsReader, IsBuilder
<1>4. ASSUME NEW k \in 0..Len(w), ReadUpTo(s, w, k)
      PROVE  ~ Ended(h) /\ IsPrefix(s, w)
  <2>1. s \in Seq(Items) /\ Len(s) <= Len(w) /\ \A i \in 1..Len(s) : s[i] = w[i]
    BY <1>3, <1>4 DEF ReadUpTo
  <2>2. s # <<>> => Last(s) \in Items
    BY <2>1 DEF Last
  <2>3. ~ Ended(h)
    BY <1>2, <2>2, HandlesAssumption DEF Ended
  <2>4. IsPrefix(s, w)
    BY <1>3, <2>1 DEF IsPrefix
  <2> QED
    BY <2>3, <2>4
<1>5. ASSUME s = w PROVE ~ Ended(h) /\ IsPrefix(s, w)
  <2>1. ReadUpTo(s, w, Len(w)) /\ Len(w) \in 0..Len(w)
    BY <1>3, <1>5 DEF ReadUpTo
  <2> QED
    BY <1>4, <2>1
<1>6. ASSUME NEW v, NEW e, v = w, e \in {End, Sentinel}, s = Append(v, e)
      PROVE  Ended(h) /\ Front(s) = w /\ IsPrefix(Front(s), w)
  <2>1. s # <<>> /\ Len(s) = Len(w) + 1 /\ s[Len(s)] = e
    BY <1>3, <1>6
  <2>2. Ended(h)
    BY <1>2, <1>6, <2>1 DEF Ended, Last
  <2>3. Front(s) = w
    BY <1>3, <1>6, <2>1 DEF Front
  <2>4. IsPrefix(w, w)
    BY <1>3 DEF IsPrefix
  <2> QED
    BY <2>2, <2>3, <2>4
<1> QED
  BY <1>1, <1>2, <1>3, <1>4, <1>5, <1>6 DEF ReadAll

\* Whatever strings, arrays and handles there are, and on each of the three hosts:
\* what a guest reads or builds and what it has not begun stays in the table, nothing
\* else does but on the host of the tasks, and a read gets its value and no other
\* (src/node/internal/runtime.js, wasi-runner.js, src/scripts/lib/moonbit-wasi-runner.ts).
THEOREM HandlesFollow == HandlesSpec => []HandlesFollowTheGuest
<1>1. HandlesInv => HandlesFollowTheGuest
  <2>1. HandlesInv => OpenWorkIsThere /\ NothingElseIsKept
    BY DEF HandlesInv, OpenWorkIsThere
  <2>2. HandlesInv => ReadersGetTheValue
    BY ReadsTheValue DEF ReadersGetTheValue
  <2> QED
    BY <2>1, <2>2 DEF HandlesFollowTheGuest
<1> QED
  BY <1>1, HandlesStart, HandlesKeep, PTL DEF HandlesSpec
=============================================================================
