------------------------------ MODULE HotArena ------------------------------
(***************************************************************************)
(* The arena of one HOT function (hot_core.mbt, hot_mutate.mbt,            *)
(* hot_region_edit.mbt, hot_labels.mbt): nodes whose children are spans of *)
(* one shared array, roots, labels with their owner, the tombstones of     *)
(* deleted nodes in a bitmap and in a free list, and the revision every    *)
(* cached analysis is stamped with.                                        *)
(*                                                                         *)
(* Passes edit the arena through these functions and in any order.  An     *)
(* argument the function aborts on is not a step of the model: the program *)
(* ends there.  Three kinds of node are told apart: "Control" (block,      *)
(* loop, if, try, try_table), which names its own label; "Branch" (every   *)
(* node with a branch target), which names another's; and "Plain".         *)
(***************************************************************************)
EXTENDS Integers, FiniteSets, Sequences, SequencesExt

CONSTANTS
    MaxNodes,   \* bound on the nodes ever allocated
    MaxSlots,   \* bound on the child array
    MaxLabels,  \* bound on the labels ever allocated
    MaxSpan     \* bound on the children given to one operation, and on the roots

ASSUME ArenaAssumption ==
    /\ MaxNodes \in Nat
    /\ MaxSlots \in Nat
    /\ MaxLabels \in Nat
    /\ MaxSpan \in Nat

VARIABLES
    nodes,       \* HotFunc.nodes: kind, imm0, child_base and child_count
    children,    \* HotFunc.children, the slots of every span
    roots,       \* HotFunc.roots
    labels,      \* HotFunc.labels: the owner of each
    freeNodes,   \* HotFunc.free_nodes
    deleted,     \* HotFunc.deleted_nodes: the ids whose bit is set
    funcRevision \* HotFunc.revision

arenaVars == <<nodes, children, roots, labels, freeNodes, deleted, funcRevision>>

\* HOT_NONE_NODE; ids count from one here and from zero in the code.
None == 0

NodeIds == 1..Len(nodes)
LabelIds == 1..Len(labels)

\* hot_node_is_live: while nothing was ever freed the bitmap is not read.
IsLive(n) == n \in NodeIds /\ (freeNodes = <<>> \/ n \notin deleted)

Live == {n \in NodeIds : IsLive(n)}

\* hot_mutate_child_ref_is_valid.
Refs == Live \cup {None}

\* hot_label_is_live: a retired label has no owner.
LabelIsLive(l) == l \in LabelIds /\ labels[l] # None

Slots(n) == (nodes[n].base + 1)..(nodes[n].base + nodes[n].count)

\* hot_child_get over a node's slots.
Children(n) == [k \in 1..nodes[n].count |-> children[nodes[n].base + k]]

Kids(n) == {children[s] : s \in Slots(n)} \ {None}

Spans == SeqOf(Refs, MaxSpan)

\* A node's contents before its children are attached.
NodeContents(kind, imm0) == [kind |-> kind, imm0 |-> imm0, base |-> 0, count |-> 0]

\* A node with another span.
WithSpan(node, base, count) ==
    [kind |-> node.kind, imm0 |-> node.imm0, base |-> base, count |-> count]

\* A node with no children keeps child_base zero.
Attached(node, kids) ==
    IF kids = <<>> THEN node
    ELSE WithSpan(node, Len(children), Len(kids))

ArenaInit ==
    /\ nodes = <<>> /\ children = <<>> /\ roots = <<>>
    /\ labels = <<>> /\ freeNodes = <<>> /\ deleted = {}
    /\ funcRevision = 0

-----------------------------------------------------------------------------
(* Building *)

\* hot_build_node: a new id always, free_nodes is never consulted.
Alloc(node, kids) ==
    /\ Len(nodes) < MaxNodes
    /\ Len(children) + Len(kids) <= MaxSlots
    /\ children' = children \o kids
    /\ nodes' = Append(nodes, Attached(node, kids))
    /\ UNCHANGED <<roots, freeNodes, deleted>>

BuildPlain(kids) ==
    /\ Alloc(NodeContents("Plain", 0), kids)
    /\ funcRevision' = funcRevision + 1
    /\ UNCHANGED labels

\* hot_build_br and its kin; the pass read the label off a control.
BuildBranch(target) ==
    /\ LabelIsLive(target)
    /\ Alloc(NodeContents("Branch", target), <<>>)
    /\ funcRevision' = funcRevision + 1
    /\ UNCHANGED labels

\* hot_build_block: the node, then its label, then the node again.
BuildControl(kids) ==
    /\ Len(labels) < MaxLabels
    /\ Alloc(NodeContents("Control", Len(labels) + 1), kids)
    /\ labels' = Append(labels, Len(nodes) + 1)
    /\ funcRevision' = funcRevision + 2

-----------------------------------------------------------------------------
(* Editing *)

\* What passes give hot_node_set and hot_replace_node: the contents of a
\* child, span included, or those of a childless node.
NewContents(n) == {nodes[m] : m \in Kids(n)} \cup {NodeContents("Plain", 0)}

NodeSet(n, contents) ==
    /\ IsLive(n)
    /\ nodes' = [nodes EXCEPT ![n] = contents]
    /\ funcRevision' = funcRevision + 1
    /\ UNCHANGED <<children, roots, labels, freeNodes, deleted>>

BranchTargetSet(n, target) ==
    /\ IsLive(n) /\ nodes[n].kind = "Branch"
    /\ LabelIsLive(target)
    /\ nodes' = [nodes EXCEPT ![n] =
           [kind |-> "Branch", imm0 |-> target, base |-> nodes[n].base, count |-> nodes[n].count]]
    /\ funcRevision' = funcRevision + 1
    /\ UNCHANGED <<children, roots, labels, freeNodes, deleted>>

ChildSet(n, k, child) ==
    /\ IsLive(n)
    /\ k \in 1..nodes[n].count
    /\ children' = [children EXCEPT ![nodes[n].base + k] = child]
    /\ funcRevision' = funcRevision + 1
    /\ UNCHANGED <<nodes, roots, labels, freeNodes, deleted>>

\* hot_replace_child_span: always a new span at the end of the array.
ReplaceChildSpan(n, kids) ==
    /\ IsLive(n)
    /\ Len(children) + Len(kids) <= MaxSlots
    /\ children' = children \o kids
    /\ nodes' = [nodes EXCEPT ![n] = WithSpan(nodes[n], Len(children), Len(kids))]
    /\ funcRevision' = funcRevision + 1
    /\ UNCHANGED <<roots, labels, freeNodes, deleted>>

\* hot_node_promote_to_block: a new span, then a new label.
PromoteToBlock(n, kids) ==
    /\ IsLive(n)
    /\ Len(children) + Len(kids) <= MaxSlots
    /\ Len(labels) < MaxLabels
    /\ children' = children \o kids
    /\ nodes' = [nodes EXCEPT ![n] =
           [kind |-> "Control", imm0 |-> Len(labels) + 1,
            base |-> Len(children), count |-> Len(kids)]]
    /\ labels' = Append(labels, n)
    /\ funcRevision' = funcRevision + 2
    /\ UNCHANGED <<roots, freeNodes, deleted>>

-----------------------------------------------------------------------------
(* Roots and regions *)

Spliced(seq, idx, count, new) ==
    SubSeq(seq, 1, idx) \o new \o SubSeq(seq, idx + count + 1, Len(seq))

\* hot_root_splice; _set, _append, _insert and _remove are cases of it.
RootSplice(idx, count, new) ==
    /\ idx + count <= Len(roots)
    /\ \A k \in 1..Len(new) : IsLive(new[k])
    /\ Len(roots) + Len(new) - count <= MaxSpan
    /\ roots' = Spliced(roots, idx, count, new)
    /\ funcRevision' = funcRevision + 1
    /\ UNCHANGED <<nodes, children, labels, freeNodes, deleted>>

\* The child array with a span written at a base, past the end if need be.
WrittenAt(base, span) ==
    [s \in 1..(IF base + Len(span) > Len(children) THEN base + Len(span)
               ELSE Len(children)) |->
        IF s - base \in 1..Len(span) THEN span[s - base] ELSE children[s]]

\* Mutant: off by one.
AlmostEndsArray(n) == nodes[n].base + nodes[n].count >= Len(children) - 1

EndsArray(n) == nodes[n].base + nodes[n].count = Len(children)

\* Where hot_region_splice puts a region of this length: in place if it fits
\* or ends the array, else at the end.
SpliceBase(n, length) ==
    IF length <= nodes[n].count \/ EndsArray(n) THEN nodes[n].base
    ELSE Len(children)

\* hot_region_splice of a block's body.
RegionSplice(n, idx, count, new) ==
    LET next == Spliced(Children(n), idx, count, new)
        base == SpliceBase(n, Len(next))
    IN  /\ IsLive(n) /\ nodes[n].kind = "Control"
        /\ idx + count <= nodes[n].count
        /\ count > 0 \/ new # <<>>
        /\ base + Len(next) <= MaxSlots
        /\ \A k \in 1..Len(next) : next[k] \in Refs
        /\ children' = WrittenAt(base, next)
        /\ nodes' = [nodes EXCEPT ![n] = WithSpan(nodes[n], base, Len(next))]
        /\ funcRevision' = funcRevision + 1
        /\ UNCHANGED <<roots, labels, freeNodes, deleted>>

\* hot_region_truncate_suffix of a block's body: the slots stay in the array.
RegionTruncate(n, keep) ==
    /\ IsLive(n) /\ nodes[n].kind = "Control"
    /\ keep < nodes[n].count
    /\ nodes' = [nodes EXCEPT ![n] = WithSpan(nodes[n], nodes[n].base, keep)]
    /\ funcRevision' = funcRevision + 1
    /\ UNCHANGED <<children, roots, labels, freeNodes, deleted>>

-----------------------------------------------------------------------------
(* Deleting *)

\* hot_delete_node_tombstone of each node, in this order.
Tombstoned(ids) ==
    /\ nodes' = [n \in NodeIds |->
           IF n \in ToSet(ids) THEN NodeContents("Plain", 0) ELSE nodes[n]]
    /\ deleted' = deleted \cup ToSet(ids)
    /\ freeNodes' = freeNodes \o ids

NoRootIn(set) == \A k \in 1..Len(roots) : roots[k] \notin set

\* Mutant: only the children of roots are looked at.
NoRootParent(set) == \A k \in 1..Len(roots) : Kids(roots[k]) \cap set = {}

\* No live node outside the set has a child in it.
NoOutsideParent(set) == \A m \in Live \ set : Kids(m) \cap set = {}

\* Mutant: an id may be listed twice.
AllLive(ids) == \A k \in 1..Len(ids) : IsLive(ids[k])

\* Every id live and listed once.
DistinctLive(ids) ==
    /\ \A k \in 1..Len(ids) : IsLive(ids[k])
    /\ \A j, k \in 1..Len(ids) : ids[j] = ids[k] => j = k

\* hot_delete_detached_nodes; hot_delete_node is the case of one node.
DeleteNodes(ids) ==
    /\ ids # <<>>
    /\ DistinctLive(ids)
    /\ NoRootIn(ToSet(ids))
    /\ NoOutsideParent(ToSet(ids))
    /\ Tombstoned(ids)
    /\ funcRevision' = funcRevision + 1
    /\ UNCHANGED <<children, roots, labels>>

\* The nodes the pending loop marks: the tops, their children, and so on, so
\* the least set of nodes with the tops and the children of its members.
Forest(tops) ==
    {n \in NodeIds : \A set \in SUBSET (NodeIds \ {n}) :
        tops \subseteq set => \E m \in set : ~(Kids(m) \cap NodeIds \subseteq set)}

\* The slots of marked nodes that hold this node.
Incoming(n, marks) ==
    {edge \in marks \X (1..Len(children)) :
        edge[2] \in Slots(edge[1]) /\ children[edge[2]] = n}

\* Mutant: edges into a top are not counted.
CountsBelowTops(tops, marks) ==
    \A n \in marks \ tops : Cardinality(Incoming(n, marks)) = 1

\* The counts that tell a forest: no edge into a top, one into any other.
CountsAForest(tops, marks) ==
    \A n \in marks :
        Cardinality(Incoming(n, marks)) = IF n \in tops THEN 0 ELSE 1

OwnedLabels(marks) == {l \in LabelIds : labels[l] \in marks}

\* Every marked control owns its own label and every label owned is such.
OwnershipIsComplete(marks) ==
    /\ \A n \in marks :
        nodes[n].kind = "Control" =>
            nodes[n].imm0 \in OwnedLabels(marks) /\ labels[nodes[n].imm0] = n
    /\ \A l \in OwnedLabels(marks) :
        nodes[labels[l]].kind = "Control" /\ nodes[labels[l]].imm0 = l

NoOutsideBranch(marks) ==
    \A n \in Live \ marks :
        nodes[n].kind = "Branch" => nodes[n].imm0 \notin OwnedLabels(marks)

\* hot_delete_detached_forest when it returns true; else it changes nothing.
\* The order of the tombstones is that of a traversal, left open here.
DeleteForest(tops) ==
    /\ tops # {} /\ tops \subseteq Live
    /\ \E marks \in {Forest(tops)} :
        /\ NoRootIn(marks)
        /\ marks \subseteq Live
        /\ CountsAForest(tops, marks)
        /\ NoOutsideParent(marks)
        /\ OwnershipIsComplete(marks)
        /\ NoOutsideBranch(marks)
        /\ labels' = [l \in LabelIds |-> IF l \in OwnedLabels(marks) THEN None ELSE labels[l]]
        /\ \E ids \in [1..Cardinality(marks) -> marks] :
            /\ ToSet(ids) = marks
            /\ DistinctLive(ids)
            /\ Tombstoned(ids)
    /\ funcRevision' = funcRevision + 1
    /\ UNCHANGED <<children, roots>>

\* tuple_optimization_replace_with_built and its like: a node takes over the
\* contents of one built for it, its label too; that one, referenced by
\* nobody, is deleted without a check.
ReplaceWithBuilt(target, built) ==
    /\ IsLive(target) /\ IsLive(built) /\ target # built
    /\ NoRootIn({built})
    /\ \A m \in Live : built \notin Kids(m)
    /\ nodes[built].kind = "Control" => LabelIsLive(nodes[built].imm0)
    /\ labels' = IF nodes[built].kind = "Control"
                 THEN [labels EXCEPT ![nodes[built].imm0] = target] ELSE labels
    /\ nodes' = [nodes EXCEPT ![built] = NodeContents("Plain", 0), ![target] = nodes[built]]
    /\ deleted' = deleted \cup {built}
    /\ freeNodes' = Append(freeNodes, built)
    /\ funcRevision' = funcRevision + IF nodes[built].kind = "Control" THEN 3 ELSE 2
    /\ UNCHANGED <<children, roots>>

-----------------------------------------------------------------------------
Build ==
    \/ \E kids \in Spans : BuildPlain(kids) \/ BuildControl(kids)
    \/ \E l \in LabelIds : BuildBranch(l)

Edit ==
    \/ \E n \in NodeIds :
        \/ \E contents \in NewContents(n) : NodeSet(n, contents)
        \/ \E l \in LabelIds : BranchTargetSet(n, l)
        \/ \E k \in 1..nodes[n].count, child \in Refs : ChildSet(n, k, child)
    \/ \E kids \in Spans, n \in NodeIds :
        ReplaceChildSpan(n, kids) \/ PromoteToBlock(n, kids)

Splice ==
    \/ \E idx, count \in 0..Len(roots), new \in Spans : RootSplice(idx, count, new)
    \/ \E new \in Spans, n \in NodeIds : \E idx, count \in 0..nodes[n].count :
        RegionSplice(n, idx, count, new)
    \/ \E n \in NodeIds : \E keep \in 0..nodes[n].count : RegionTruncate(n, keep)

Delete ==
    \/ \E ids \in SeqOf(Live, MaxSpan + 1) : DeleteNodes(ids)
    \/ \E tops \in SUBSET NodeIds : DeleteForest(tops)
    \/ \E target, built \in NodeIds : ReplaceWithBuilt(target, built)

ArenaNext == Build \/ Edit \/ Splice \/ Delete

ArenaSpec == ArenaInit /\ [][ArenaNext]_arenaVars

-----------------------------------------------------------------------------
(* Properties *)

\* The arena's parts have their types, and spans lie within the child array.
ArenaTypeOK ==
    /\ nodes \in Seq([kind : {"Plain", "Branch", "Control"}, imm0 : Nat,
                      base : Nat, count : Nat])
    /\ \A n \in NodeIds : nodes[n].base + nodes[n].count <= Len(children)
    /\ children \in Seq(NodeIds \cup {None})
    /\ roots \in Seq(NodeIds)
    /\ labels \in Seq(NodeIds \cup {None})
    /\ freeNodes \in Seq(NodeIds)
    /\ deleted \subseteq NodeIds
    /\ funcRevision \in Nat

\* No root and no child of a live node is a deleted node, whatever edits and
\* deletions came before: every walk from the roots reads live nodes only.
ReferencesAreLive ==
    /\ \A k \in 1..Len(roots) : IsLive(roots[k])
    /\ \A n \in Live : \A child \in Kids(n) : IsLive(child)

\* A live branch targets a label that is not retired: deleting a forest with
\* its labels never leaves a branch, detached or not, to one of them.
BranchesReachLiveLabels ==
    \A n \in Live : nodes[n].kind = "Branch" => LabelIsLive(nodes[n].imm0)

\* The two records of deletion agree: a node's bit is set exactly when it is
\* on the free list, where it is once.
FreeListMatchesBitmap ==
    /\ deleted = ToSet(freeNodes)
    /\ \A j, k \in 1..Len(freeNodes) : freeNodes[j] = freeNodes[k] => j = k

\* What the documentation of hot_delete_detached_forest refuses, said without
\* counts: tops that reach one another, a node under itself, a node in two
\* slots.
IsAForest(tops, marks) ==
    /\ \A n \in marks : Forest(Kids(n)) \cap (tops \cup {n}) = {}
    /\ \A m, n \in marks : \A s \in Slots(m), r \in Slots(n) :
           (children[s] = children[r] /\ children[s] # None) => <<m, s>> = <<n, r>>

\* The counts hot_delete_detached_forest keeps accept exactly the forests.
CountsFindForests ==
    \A tops \in SUBSET Live : \A marks \in {Forest(tops)} :
        CountsAForest(tops, marks) <=> IsAForest(tops, marks)

\* The children of two nodes change in one step only if the nodes shared a
\* slot before it: an edit of one region never writes into another.
EditsStayInTheirSpan ==
    [][LET Changes(n) ==
            /\ nodes'[n] # nodes[n] \/ children' # children
            /\ n \notin deleted'
            /\ Children(n)' # Children(n)
       IN  \A m \in Live : Changes(m) =>
               \A n \in Live \ {m} : Changes(n) => Slots(m) \cap Slots(n) # {}]_arenaVars

\* What an analysis may have read of the function changes only with the
\* revision that makes its cached result stale.
EditsMoveTheRevision ==
    [][\/ funcRevision' > funcRevision
       \/ /\ roots' = roots /\ labels' = labels /\ deleted' = deleted
          /\ \A n \in NodeIds : nodes'[n] = nodes[n] /\ Children(n)' = Children(n)]_arenaVars

\* What the arena's functions can tell apart: not the revision, not the order
\* of the free list, not a slot outside every span.
ArenaView ==
    <<nodes, roots, labels, deleted, Len(freeNodes),
      [s \in 1..Len(children) |->
          IF \E n \in NodeIds : s \in Slots(n) THEN children[s] ELSE None]>>
=============================================================================
