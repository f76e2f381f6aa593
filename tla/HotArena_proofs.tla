--------------------------- MODULE HotArena_proofs ---------------------------
(***************************************************************************)
(* For every size of the arena: deletion is safe, its count of edges tells *)
(* the forests, an edit stays in its span and moves the revision.          *)
(***************************************************************************)
EXTENDS HotArena, FiniteSetTheorems, SequenceTheorems, TLAPS

Node == [kind : {"Plain", "Branch", "Control"}, imm0 : Nat, base : Nat, count : Nat]

\* The bitmap alone tells the live nodes.
RootsAreLive ==
    \A k \in 1..Len(roots) : roots[k] \in NodeIds /\ roots[k] \notin deleted

\* A slot of a live node is empty or names a live node.
SlotsAreLive ==
    \A n \in NodeIds : n \notin deleted =>
        \A s \in (nodes[n].base + 1)..(nodes[n].base + nodes[n].count) :
            children[s] # None => children[s] \in NodeIds /\ children[s] \notin deleted

TargetsAreLive ==
    \A n \in NodeIds : (n \notin deleted /\ nodes[n].kind = "Branch") =>
        nodes[n].imm0 \in LabelIds /\ labels[nodes[n].imm0] # None

ArenaInv ==
    /\ ArenaTypeOK
    /\ FreeListMatchesBitmap
    /\ RootsAreLive
    /\ SlotsAreLive
    /\ TargetsAreLive

\* What the types say of one node.
LEMMA NodesAreTyped ==
    ASSUME ArenaTypeOK
    PROVE  /\ Len(nodes) \in Nat /\ Len(children) \in Nat
           /\ NodeIds = 1..Len(nodes) /\ None \notin NodeIds
           /\ DOMAIN nodes = NodeIds
           /\ DOMAIN children = 1..Len(children)
           /\ \A n \in NodeIds :
                /\ nodes[n] \in Node
                /\ nodes[n].kind \in {"Plain", "Branch", "Control"}
                /\ nodes[n].imm0 \in Nat /\ nodes[n].base \in Nat /\ nodes[n].count \in Nat
                /\ nodes[n].base + nodes[n].count <= Len(children)
           /\ \A s \in 1..Len(children) : children[s] \in NodeIds \cup {None}
<1>1. /\ nodes \in Seq(Node) /\ children \in Seq(NodeIds \cup {None})
    BY DEF ArenaTypeOK, Node
<1>2. /\ Len(nodes) \in Nat /\ Len(children) \in Nat
      /\ NodeIds = 1..Len(nodes) /\ None \notin NodeIds
      /\ DOMAIN nodes = NodeIds
      /\ DOMAIN children = 1..Len(children)
    BY <1>1 DEF NodeIds, None
<1>3. \A n \in NodeIds : nodes[n] \in Node
    BY <1>1, <1>2
<1>4. \A n \in NodeIds : nodes[n].base + nodes[n].count <= Len(children)
    BY DEF ArenaTypeOK
<1>5. QED BY <1>1, <1>2, <1>3, <1>4 DEF Node

\* hot_node_is_live reads the bitmap only once a node was freed; until then no
\* bit is set.
LEMMA LiveIsUnmarked ==
    ASSUME ArenaTypeOK, FreeListMatchesBitmap
    PROVE  \A n : IsLive(n) <=> n \in NodeIds /\ n \notin deleted
<1>1. freeNodes = <<>> => deleted = {}
    BY DEF FreeListMatchesBitmap, ToSet
<1>2. QED BY <1>1 DEF IsLive

\* The children given to an operation.
LEMMA SpansHoldRefs ==
    ASSUME ArenaInv, NEW kids \in Spans
    PROVE  /\ kids \in Seq(NodeIds \cup {None})
           /\ Len(kids) \in Nat
           /\ \A k \in 1..Len(kids) :
                kids[k] # None => kids[k] \in NodeIds /\ kids[k] \notin deleted
<1>1. PICK m \in 0..MaxSpan : kids \in [1..m -> Refs]
    BY DEF Spans, SeqOf
<1>2. m \in Nat
    BY ArenaAssumption
<1>3. kids \in Seq(Refs) /\ Len(kids) = m
    BY <1>1, <1>2
<1>4. \A r \in Refs : /\ r \in NodeIds \cup {None}
                      /\ r # None => r \in NodeIds /\ r \notin deleted
    BY LiveIsUnmarked DEF Refs, Live, ArenaInv
<1>5. QED BY <1>1, <1>2, <1>3, <1>4

LEMMA FunctionIsASeq ==
    ASSUME NEW S, NEW m \in Nat, NEW f \in [1..m -> S]
    PROVE  f \in Seq(S) /\ Len(f) = m
OBVIOUS

\* One sequence after another.
LEMMA JoinedSeqs ==
    ASSUME NEW S, NEW front \in Seq(S), NEW back \in Seq(S)
    PROVE  /\ front \o back \in Seq(S) /\ Len(front \o back) = Len(front) + Len(back)
           /\ \A k \in 1..Len(front) : (front \o back)[k] = front[k]
           /\ \A k \in Len(front) + 1..Len(front) + Len(back) :
                 k - Len(front) \in 1..Len(back) /\ (front \o back)[k] = back[k - Len(front)]
<1>1. Len(front) \in Nat /\ Len(back) \in Nat
    OBVIOUS
<1>2. /\ front \o back \in Seq(S) /\ Len(front \o back) = Len(front) + Len(back)
      /\ \A k \in 1..Len(front) + Len(back) : (front \o back)[k] =
            IF k <= Len(front) THEN front[k] ELSE back[k - Len(front)]
    BY ConcatProperties
<1> DEFINE whole == front \o back
<1>3. \A k \in 1..Len(front) + Len(back) : whole[k] =
            IF k <= Len(front) THEN front[k] ELSE back[k - Len(front)]
    BY <1>2
<1> HIDE DEF whole
<1>4. \A k \in 1..Len(front) : whole[k] = front[k]
    BY <1>1, <1>3
<1>5. \A k \in Len(front) + 1..Len(front) + Len(back) :
         k - Len(front) \in 1..Len(back) /\ whole[k] = back[k - Len(front)]
    BY <1>1, <1>3
<1>6. QED BY <1>2, <1>4, <1>5 DEF whole

LEMMA InitInv == ArenaInit => ArenaInv
BY DEF ArenaInit, ArenaInv, ArenaTypeOK, FreeListMatchesBitmap, RootsAreLive,
       SlotsAreLive, TargetsAreLive, NodeIds, ToSet

-----------------------------------------------------------------------------
(* Building *)

\* A new node with its children at the end of the child array; labels may be
\* added beside it.
LEMMA AllocKeepsInv ==
    ASSUME ArenaInv, NEW kind \in {"Plain", "Branch", "Control"}, NEW imm0 \in Nat,
           NEW kids \in Spans, Alloc(NodeContents(kind, imm0), kids),
           labels' \in Seq(1..(Len(nodes) + 1) \cup {None}),
           \A l \in LabelIds : labels[l] # None => l \in LabelIds' /\ labels'[l] # None,
           kind = "Branch" => LabelIsLive(imm0),
           funcRevision' \in Nat
    PROVE  ArenaInv'
<1> DEFINE node == Attached(NodeContents(kind, imm0), kids)
<1>1. /\ nodes \in Seq(Node) /\ children \in Seq(NodeIds \cup {None})
      /\ roots \in Seq(NodeIds) /\ freeNodes \in Seq(NodeIds)
    BY DEF ArenaInv, ArenaTypeOK, Node
<1>2. /\ kids \in Seq(NodeIds \cup {None}) /\ Len(kids) \in Nat
      /\ \A k \in 1..Len(kids) :
            kids[k] # None => kids[k] \in NodeIds /\ kids[k] \notin deleted
    BY SpansHoldRefs
<1>3. /\ Len(nodes) \in Nat /\ Len(children) \in Nat /\ NodeIds = 1..Len(nodes)
      /\ \A n \in NodeIds :
            /\ nodes[n].base \in Nat /\ nodes[n].count \in Nat
            /\ nodes[n].base + nodes[n].count <= Len(children)
    BY NodesAreTyped DEF ArenaInv
<1>k. Len(children) \in Nat /\ Len(kids) \in Nat
    BY <1>2, <1>3
<1>4. /\ node \in Node /\ node.kind = kind /\ node.imm0 = imm0
      /\ node.base \in Nat /\ node.count \in Nat
      /\ node.base + node.count <= Len(children) + Len(kids)
      /\ \A s \in (node.base + 1)..(node.base + node.count) :
            s \in Len(children) + 1..Len(children) + Len(kids)
    <2>1. CASE kids = <<>>
        BY <1>2, <1>3, <2>1 DEF Attached, NodeContents, Node
    <2>2. CASE kids # <<>>
        <3>1. node = [kind |-> kind, imm0 |-> imm0,
                      base |-> Len(children), count |-> Len(kids)]
            BY <2>2 DEF Attached, WithSpan, NodeContents
        <3> HIDE DEF node
        <3>2. node \in Node
            BY <1>2, <1>3, <3>1 DEF Node
        <3>3. /\ node.kind = kind /\ node.imm0 = imm0
              /\ node.base = Len(children) /\ node.count = Len(kids)
            BY <3>1
        <3>4. QED BY <1>2, <1>3, <3>2, <3>3
    <2>3. QED BY <2>1, <2>2
<1>5. /\ nodes' = Append(nodes, node) /\ children' = children \o kids
      /\ roots' = roots /\ freeNodes' = freeNodes
    BY DEF Alloc
<1> HIDE DEF node
<1>6. /\ nodes' \in Seq(Node) /\ Len(nodes') = Len(nodes) + 1
      /\ nodes'[Len(nodes) + 1] = node
      /\ \A n \in 1..Len(nodes) : nodes'[n] = nodes[n]
    BY <1>1, <1>4, <1>5
<1>7. deleted' = deleted /\ deleted \subseteq NodeIds
    BY DEF Alloc, ArenaInv, ArenaTypeOK
<1>8. /\ NodeIds' = 1..Len(nodes) + 1
      /\ \A n \in NodeIds : n \in NodeIds' /\ n # Len(nodes) + 1
      /\ \A n \in NodeIds' : n \in NodeIds \/ n = Len(nodes) + 1
    BY <1>3, <1>6 DEF NodeIds
<1>9. /\ Len(children') = Len(children) + Len(kids)
      /\ \A s \in 1..Len(children) : children'[s] = children[s]
      /\ \A s \in Len(children) + 1..Len(children) + Len(kids) :
            s - Len(children) \in 1..Len(kids) /\ children'[s] = kids[s - Len(children)]
    BY <1>1, <1>2, <1>5, JoinedSeqs
<1>10. ArenaTypeOK'
    <2>1. children' \in Seq(NodeIds' \cup {None})
        <3>1. children \in Seq(NodeIds' \cup {None}) /\ kids \in Seq(NodeIds' \cup {None})
            BY <1>1, <1>2, <1>8
        <3>2. QED BY <1>5, <3>1
    <2>2. roots' \in Seq(NodeIds') /\ freeNodes' \in Seq(NodeIds')
        BY <1>1, <1>5, <1>8
    <2>3. labels' \in Seq(NodeIds' \cup {None})
        BY <1>8
    <2>4. ASSUME NEW n \in NodeIds'
          PROVE  nodes'[n].base + nodes'[n].count <= Len(children')
        <3>1. CASE n \in NodeIds
            <4>1. nodes'[n] = nodes[n]
                BY <3>1, <1>3, <1>6
            <4>2. nodes[n].base + nodes[n].count <= Len(children)
                BY <3>1, <1>3
            <4>3. /\ nodes[n].base \in Nat /\ nodes[n].count \in Nat
                  /\ Len(children') = Len(children) + Len(kids)
                BY <3>1, <1>3, <1>9
            <4>4. Len(children') \in Nat /\ Len(children) <= Len(children')
                BY <4>3, <1>k
            <4>5. QED BY <4>1, <4>2, <4>3, <4>4, <1>k
        <3>2. CASE n = Len(nodes) + 1
            BY <3>2, <1>4, <1>6, <1>9
        <3>3. QED BY <3>1, <3>2, <1>8
    <2>5. deleted' \subseteq NodeIds'
        BY <1>7, <1>8
    <2>6. QED BY <1>6, <2>1, <2>2, <2>3, <2>4, <2>5 DEF ArenaTypeOK, Node
<1>11. RootsAreLive'
    BY <1>3, <1>5, <1>7, <1>8 DEF RootsAreLive, ArenaInv
<1>12. FreeListMatchesBitmap'
    BY <1>5, <1>7 DEF FreeListMatchesBitmap, ArenaInv
<1>13. SlotsAreLive'
    <2> SUFFICES ASSUME NEW n \in NodeIds', n \notin deleted',
                        NEW s \in (nodes'[n].base + 1)..(nodes'[n].base + nodes'[n].count),
                        children'[s] # None
                 PROVE  children'[s] \in NodeIds' /\ children'[s] \notin deleted'
        BY DEF SlotsAreLive
    <2>1. children'[s] \in NodeIds /\ children'[s] \notin deleted
        <3>1. CASE n = Len(nodes) + 1
            BY <3>1, <1>2, <1>4, <1>6, <1>9
        <3>2. CASE n \in NodeIds
            <4>a. nodes'[n] = nodes[n] /\ n \notin deleted
                BY <3>2, <1>3, <1>6, <1>7
            <4>b. /\ nodes[n].base \in Nat /\ nodes[n].count \in Nat
                  /\ nodes[n].base + nodes[n].count <= Len(children)
                  /\ s \in (nodes[n].base + 1)..(nodes[n].base + nodes[n].count)
                BY <3>2, <4>a, <1>3
            <4>c. s \in 1..Len(children)
                BY <4>b, <1>k
            <4>1. /\ nodes'[n] = nodes[n] /\ n \notin deleted /\ s \in 1..Len(children)
                BY <4>a, <4>c
            <4>2. children'[s] = children[s]
                BY <4>1, <1>9
            <4>3. QED BY <3>2, <4>1, <4>2 DEF SlotsAreLive, ArenaInv
        <3>3. QED BY <3>1, <3>2, <1>8
    <2>2. QED BY <2>1, <1>3, <1>7, <1>8
<1>14. TargetsAreLive'
    <2> SUFFICES ASSUME NEW n \in NodeIds', n \notin deleted', nodes'[n].kind = "Branch"
                 PROVE  nodes'[n].imm0 \in LabelIds' /\ labels'[nodes'[n].imm0] # None
        BY DEF TargetsAreLive
    <2>1. CASE n = Len(nodes) + 1
        BY <2>1, <1>4, <1>6 DEF LabelIsLive
    <2>2. CASE n \in NodeIds
        <3>1. nodes'[n] = nodes[n] /\ n \notin deleted
            BY <2>2, <1>3, <1>6, <1>7
        <3>2. QED BY <2>2, <3>1 DEF TargetsAreLive, ArenaInv
    <2>3. QED BY <2>1, <2>2, <1>8
<1>15. QED BY <1>10, <1>11, <1>12, <1>13, <1>14 DEF ArenaInv

-----------------------------------------------------------------------------
(* Editing *)

\* One live node gets other contents, and slots of the child array, old or
\* new, live nodes: what every edit amounts to.
LEMMA EditKeepsInv ==
    ASSUME ArenaInv, NEW n \in NodeIds, n \notin deleted, NEW node \in Node,
           nodes' = [nodes EXCEPT ![n] = node],
           children' \in Seq(NodeIds \cup {None}), Len(children') >= Len(children),
           node.base + node.count <= Len(children'),
           \A s \in (node.base + 1)..(node.base + node.count) : children'[s] # None =>
               children'[s] \in NodeIds /\ children'[s] \notin deleted,
           \A s \in 1..Len(children) :
               children'[s] = children[s] \/ (children'[s] # None =>
                   children'[s] \in NodeIds /\ children'[s] \notin deleted),
           labels' \in Seq(NodeIds \cup {None}),
           \A l \in LabelIds : labels[l] # None => l \in LabelIds' /\ labels'[l] # None,
           node.kind = "Branch" => LabelIsLive(node.imm0),
           roots' = roots, freeNodes' = freeNodes, deleted' = deleted, funcRevision' \in Nat
    PROVE  ArenaInv'
<1>1. /\ nodes \in Seq(Node) /\ Len(nodes) \in Nat /\ Len(children) \in Nat
      /\ NodeIds = 1..Len(nodes)
      /\ \A m \in NodeIds :
            /\ nodes[m].base \in Nat /\ nodes[m].count \in Nat
            /\ nodes[m].base + nodes[m].count <= Len(children)
    BY NodesAreTyped DEF ArenaInv, ArenaTypeOK, Node
<1>2. /\ nodes' \in Seq(Node) /\ Len(nodes') = Len(nodes) /\ nodes'[n] = node
      /\ \A m \in NodeIds : m # n => nodes'[m] = nodes[m]
    BY <1>1
<1>3. NodeIds' = NodeIds
    BY <1>2 DEF NodeIds
<1>4. Len(children') \in Nat /\ node.base \in Nat /\ node.count \in Nat
    BY DEF Node
<1>5. ArenaTypeOK'
    <2>1. ASSUME NEW m \in NodeIds
          PROVE  nodes'[m].base + nodes'[m].count <= Len(children')
        <3>1. CASE m = n
            BY <3>1, <1>2
        <3>2. CASE m # n
            BY <3>2, <1>1, <1>2, <1>4
        <3>3. QED BY <3>1, <3>2
    <2>2. roots \in Seq(NodeIds) /\ freeNodes \in Seq(NodeIds) /\ deleted \subseteq NodeIds
        BY DEF ArenaInv, ArenaTypeOK
    <2>3. QED BY <1>2, <1>3, <2>1, <2>2 DEF ArenaTypeOK, Node
<1>6. RootsAreLive' /\ FreeListMatchesBitmap'
    BY <1>3 DEF RootsAreLive, FreeListMatchesBitmap, ToSet, ArenaInv
<1>7. SlotsAreLive'
    <2> SUFFICES ASSUME NEW m \in NodeIds, m \notin deleted,
                        NEW s \in (nodes'[m].base + 1)..(nodes'[m].base + nodes'[m].count),
                        children'[s] # None
                 PROVE  children'[s] \in NodeIds /\ children'[s] \notin deleted
        BY <1>3 DEF SlotsAreLive
    <2>1. CASE m = n
        BY <2>1, <1>2
    <2>2. CASE m # n
        <3>1. s \in (nodes[m].base + 1)..(nodes[m].base + nodes[m].count)
            BY <2>2, <1>2
        <3>a. /\ nodes[m].base \in Nat /\ nodes[m].count \in Nat /\ Len(children) \in Nat
              /\ nodes[m].base + nodes[m].count <= Len(children)
            BY <1>1
        <3>b. s \in Int /\ s >= 1 /\ s <= nodes[m].base + nodes[m].count
            BY <3>1, <3>a
        <3>2. s \in 1..Len(children)
            BY <3>a, <3>b
        <3>3. children[s] # None => children[s] \in NodeIds /\ children[s] \notin deleted
            BY <3>1 DEF SlotsAreLive, ArenaInv
        <3>4. QED BY <3>2, <3>3
    <2>3. QED BY <2>1, <2>2
<1>8. TargetsAreLive'
    <2> SUFFICES ASSUME NEW m \in NodeIds, m \notin deleted, nodes'[m].kind = "Branch"
                 PROVE  nodes'[m].imm0 \in LabelIds' /\ labels'[nodes'[m].imm0] # None
        BY <1>3 DEF TargetsAreLive
    <2>1. CASE m = n
        BY <2>1, <1>2 DEF LabelIsLive
    <2>2. CASE m # n
        BY <2>2, <1>2 DEF TargetsAreLive, ArenaInv
    <2>3. QED BY <2>1, <2>2
<1>9. QED BY <1>5, <1>6, <1>7, <1>8 DEF ArenaInv

LEMMA NodeSetKeepsInv ==
    ASSUME ArenaInv, NEW n \in NodeIds, NEW contents \in NewContents(n),
           NodeSet(n, contents)
    PROVE  ArenaInv'
<1>1. /\ IsLive(n) /\ n \notin deleted
      /\ nodes' = [nodes EXCEPT ![n] = contents] /\ funcRevision' = funcRevision + 1
      /\ children' = children /\ roots' = roots /\ labels' = labels
      /\ freeNodes' = freeNodes /\ deleted' = deleted
    BY LiveIsUnmarked DEF NodeSet, ArenaInv
<1>2. /\ funcRevision \in Nat /\ children \in Seq(NodeIds \cup {None}) /\ Len(children) \in Nat
      /\ labels \in Seq(NodeIds \cup {None})
    BY NodesAreTyped DEF ArenaInv, ArenaTypeOK
<1>3. /\ contents \in Node /\ contents.base + contents.count <= Len(children)
      /\ \A s \in (contents.base + 1)..(contents.base + contents.count) :
            children[s] # None => children[s] \in NodeIds /\ children[s] \notin deleted
      /\ contents.kind = "Branch" => LabelIsLive(contents.imm0)
    <2>1. CASE contents = NodeContents("Plain", 0)
        BY <2>1, <1>2 DEF NodeContents, Node
    <2>2. CASE contents # NodeContents("Plain", 0)
        <3>1. PICK m \in Kids(n) : contents = nodes[m]
            BY <2>2 DEF NewContents
        <3>2. PICK s \in Slots(n) : m = children[s] /\ m # None
            BY DEF Kids
        <3>3. m \in NodeIds /\ m \notin deleted
            BY <3>2, <1>1 DEF Slots, SlotsAreLive, ArenaInv
        <3>4. nodes[m] \in Node /\ nodes[m].base + nodes[m].count <= Len(children)
            BY <3>3, NodesAreTyped DEF ArenaInv
        <3>5. nodes[m].kind = "Branch" => LabelIsLive(nodes[m].imm0)
            BY <3>3 DEF TargetsAreLive, LabelIsLive, ArenaInv
        <3>6. QED BY <3>1, <3>3, <3>4, <3>5 DEF SlotsAreLive, ArenaInv
    <2>3. QED BY <2>1, <2>2
<1>4. \A l \in LabelIds : labels[l] # None => l \in LabelIds' /\ labels'[l] # None
    BY <1>1 DEF LabelIds
<1>5. /\ children' \in Seq(NodeIds \cup {None}) /\ Len(children') >= Len(children)
      /\ contents.base + contents.count <= Len(children')
      /\ \A s \in (contents.base + 1)..(contents.base + contents.count) :
            children'[s] # None => children'[s] \in NodeIds /\ children'[s] \notin deleted
      /\ \A s \in 1..Len(children) : children'[s] = children[s]
      /\ labels' \in Seq(NodeIds \cup {None}) /\ funcRevision' \in Nat
    BY <1>1, <1>2, <1>3
<1>6. QED BY <1>1, <1>3, <1>4, <1>5, EditKeepsInv

LEMMA BranchTargetSetKeepsInv ==
    ASSUME ArenaInv, NEW n \in NodeIds, NEW target \in LabelIds, BranchTargetSet(n, target)
    PROVE  ArenaInv'
<1> DEFINE node == [kind |-> "Branch", imm0 |-> target,
                    base |-> nodes[n].base, count |-> nodes[n].count]
<1>1. /\ IsLive(n) /\ n \notin deleted /\ LabelIsLive(target)
      /\ nodes' = [nodes EXCEPT ![n] = node] /\ funcRevision' = funcRevision + 1
      /\ children' = children /\ roots' = roots /\ labels' = labels
      /\ freeNodes' = freeNodes /\ deleted' = deleted
    BY LiveIsUnmarked DEF BranchTargetSet, ArenaInv
<1>2. /\ funcRevision \in Nat /\ children \in Seq(NodeIds \cup {None}) /\ Len(children) \in Nat
      /\ labels \in Seq(NodeIds \cup {None})
      /\ nodes[n] \in Node /\ nodes[n].base + nodes[n].count <= Len(children)
    BY NodesAreTyped DEF ArenaInv, ArenaTypeOK
<1>3. target \in Nat
    BY <1>2 DEF LabelIds
<1>4. /\ node \in Node /\ node.base = nodes[n].base /\ node.count = nodes[n].count
      /\ node.imm0 = target
    BY <1>2, <1>3 DEF Node
<1> HIDE DEF node
<1>5. \A s \in (node.base + 1)..(node.base + node.count) :
        children[s] # None => children[s] \in NodeIds /\ children[s] \notin deleted
    BY <1>1, <1>4 DEF SlotsAreLive, ArenaInv
<1>6. \A l \in LabelIds : labels[l] # None => l \in LabelIds' /\ labels'[l] # None
    BY <1>1 DEF LabelIds
<1>7. /\ children' \in Seq(NodeIds \cup {None}) /\ Len(children') >= Len(children)
      /\ node.base + node.count <= Len(children')
      /\ \A s \in (node.base + 1)..(node.base + node.count) :
            children'[s] # None => children'[s] \in NodeIds /\ children'[s] \notin deleted
      /\ \A s \in 1..Len(children) : children'[s] = children[s]
      /\ labels' \in Seq(NodeIds \cup {None}) /\ funcRevision' \in Nat
    BY <1>1, <1>2, <1>4, <1>5
<1>8. QED BY <1>1, <1>4, <1>6, <1>7, EditKeepsInv

LEMMA ChildSetKeepsInv ==
    ASSUME ArenaInv, NEW n \in NodeIds, NEW k \in 1..nodes[n].count, NEW child \in Refs,
           ChildSet(n, k, child)
    PROVE  ArenaInv'
<1>1. /\ IsLive(n) /\ n \notin deleted /\ k \in 1..nodes[n].count
      /\ children' = [children EXCEPT ![nodes[n].base + k] = child]
      /\ funcRevision' = funcRevision + 1 /\ nodes' = nodes /\ roots' = roots /\ labels' = labels
      /\ freeNodes' = freeNodes /\ deleted' = deleted
    BY LiveIsUnmarked DEF ChildSet, ArenaInv
<1>2. /\ funcRevision \in Nat /\ children \in Seq(NodeIds \cup {None}) /\ Len(children) \in Nat
      /\ labels \in Seq(NodeIds \cup {None}) /\ nodes \in Seq(Node)
      /\ NodeIds = 1..Len(nodes) /\ Len(nodes) \in Nat
      /\ nodes[n] \in Node /\ nodes[n].base \in Nat /\ nodes[n].count \in Nat
      /\ nodes[n].base + nodes[n].count <= Len(children)
    BY NodesAreTyped DEF ArenaInv, ArenaTypeOK, Node
<1>3. /\ child \in NodeIds \cup {None}
      /\ child # None => child \in NodeIds /\ child \notin deleted
    BY LiveIsUnmarked DEF Refs, Live, ArenaInv
<1>a. /\ children \in [1..Len(children) -> NodeIds \cup {None}]
      /\ children' = [children EXCEPT ![nodes[n].base + k] = child]
    BY <1>1, <1>2
<1>b. children' \in [1..Len(children) -> NodeIds \cup {None}]
    BY <1>a, <1>3
<1>c. children' \in Seq(NodeIds \cup {None}) /\ Len(children') = Len(children)
    BY <1>b, <1>2, FunctionIsASeq
<1>4. /\ children' \in Seq(NodeIds \cup {None}) /\ Len(children') = Len(children)
      /\ \A s \in 1..Len(children) : children'[s] = children[s] \/ children'[s] = child
    BY <1>a, <1>c
<1>5. nodes' = [nodes EXCEPT ![n] = nodes[n]]
    BY <1>1, <1>2
<1>6. \A s \in (nodes[n].base + 1)..(nodes[n].base + nodes[n].count) :
        children'[s] # None => children'[s] \in NodeIds /\ children'[s] \notin deleted
    <2> TAKE s \in (nodes[n].base + 1)..(nodes[n].base + nodes[n].count)
    <2>1. s \in 1..Len(children)
        BY <1>2
    <2>2. children[s] # None => children[s] \in NodeIds /\ children[s] \notin deleted
        BY <1>1 DEF SlotsAreLive, ArenaInv
    <2>3. QED BY <2>1, <2>2, <1>3, <1>4
<1>7. /\ \A l \in LabelIds : labels[l] # None => l \in LabelIds' /\ labels'[l] # None
      /\ nodes[n].kind = "Branch" => LabelIsLive(nodes[n].imm0)
    BY <1>1 DEF LabelIds, LabelIsLive, TargetsAreLive, ArenaInv
<1>8. /\ \A s \in 1..Len(children) : children'[s] = children[s] \/ (children'[s] # None =>
                children'[s] \in NodeIds /\ children'[s] \notin deleted)
      /\ Len(children') >= Len(children) /\ funcRevision' \in Nat
      /\ nodes[n].base + nodes[n].count <= Len(children')
      /\ labels' \in Seq(NodeIds \cup {None})
    BY <1>1, <1>2, <1>3, <1>4
<1>9. QED BY <1>1, <1>2, <1>4, <1>5, <1>6, <1>7, <1>8, EditKeepsInv

\* A span added at the end of the child array.
LEMMA AddedSpan ==
    ASSUME ArenaInv, NEW kids \in Spans, children' = children \o kids
    PROVE  /\ Len(kids) \in Nat /\ Len(children) \in Nat
           /\ children' \in Seq(NodeIds \cup {None})
           /\ Len(children') = Len(children) + Len(kids)
           /\ \A s \in 1..Len(children) : children'[s] = children[s]
           /\ \A s \in (Len(children) + 1)..(Len(children) + Len(kids)) :
                children'[s] # None => children'[s] \in NodeIds /\ children'[s] \notin deleted
<1>1. children \in Seq(NodeIds \cup {None}) /\ Len(children) \in Nat
    BY DEF ArenaInv, ArenaTypeOK
<1>2. /\ kids \in Seq(NodeIds \cup {None}) /\ Len(kids) \in Nat
      /\ \A k \in 1..Len(kids) :
            kids[k] # None => kids[k] \in NodeIds /\ kids[k] \notin deleted
    BY SpansHoldRefs
<1>3. /\ children' \in Seq(NodeIds \cup {None})
      /\ Len(children') = Len(children) + Len(kids)
      /\ \A s \in 1..Len(children) : children'[s] = children[s]
    BY <1>1, <1>2
<1>4. \A s \in (Len(children) + 1)..(Len(children) + Len(kids)) :
        s - Len(children) \in 1..Len(kids) /\ children'[s] = kids[s - Len(children)]
    BY <1>1, <1>2
<1>5. QED BY <1>1, <1>2, <1>3, <1>4

LEMMA ReplaceChildSpanKeepsInv ==
    ASSUME ArenaInv, NEW n \in NodeIds, NEW kids \in Spans, ReplaceChildSpan(n, kids)
    PROVE  ArenaInv'
<1> DEFINE node == WithSpan(nodes[n], Len(children), Len(kids))
<1>1. /\ n \notin deleted /\ children' = children \o kids
      /\ nodes' = [nodes EXCEPT ![n] = node] /\ funcRevision' = funcRevision + 1
      /\ roots' = roots /\ labels' = labels /\ freeNodes' = freeNodes /\ deleted' = deleted
    BY LiveIsUnmarked DEF ReplaceChildSpan, ArenaInv
<1>2. /\ funcRevision \in Nat /\ labels \in Seq(NodeIds \cup {None})
      /\ nodes[n].kind \in {"Plain", "Branch", "Control"} /\ nodes[n].imm0 \in Nat
    BY NodesAreTyped DEF ArenaInv, ArenaTypeOK
<1>3. /\ node \in Node /\ node.base = Len(children) /\ node.count = Len(kids)
      /\ node.kind = nodes[n].kind /\ node.imm0 = nodes[n].imm0
    BY <1>1, <1>2, AddedSpan DEF WithSpan, Node
<1> HIDE DEF node
<1>4. /\ \A l \in LabelIds : labels[l] # None => l \in LabelIds' /\ labels'[l] # None
      /\ node.kind = "Branch" => LabelIsLive(node.imm0)
    BY <1>1, <1>3 DEF LabelIds, LabelIsLive, TargetsAreLive, ArenaInv
<1>5. /\ children' \in Seq(NodeIds \cup {None}) /\ Len(children') >= Len(children)
      /\ node.base + node.count <= Len(children')
      /\ \A s \in (node.base + 1)..(node.base + node.count) :
            children'[s] # None => children'[s] \in NodeIds /\ children'[s] \notin deleted
      /\ \A s \in 1..Len(children) : children'[s] = children[s]
    <2>1. /\ Len(kids) \in Nat /\ Len(children) \in Nat
          /\ children' \in Seq(NodeIds \cup {None})
          /\ Len(children') = Len(children) + Len(kids)
          /\ \A s \in 1..Len(children) : children'[s] = children[s]
          /\ \A s \in (Len(children) + 1)..(Len(children) + Len(kids)) :
                children'[s] # None => children'[s] \in NodeIds /\ children'[s] \notin deleted
        BY <1>1, AddedSpan
    <2>2. QED BY <2>1, <1>3
<1>6. labels' \in Seq(NodeIds \cup {None}) /\ funcRevision' \in Nat
    BY <1>1, <1>2
<1>7. QED BY <1>1, <1>3, <1>4, <1>5, <1>6, EditKeepsInv

LEMMA PromoteToBlockKeepsInv ==
    ASSUME ArenaInv, NEW n \in NodeIds, NEW kids \in Spans, PromoteToBlock(n, kids)
    PROVE  ArenaInv'
<1> DEFINE node == [kind |-> "Control", imm0 |-> Len(labels) + 1,
                    base |-> Len(children), count |-> Len(kids)]
<1>1. /\ n \notin deleted /\ children' = children \o kids
      /\ nodes' = [nodes EXCEPT ![n] = node] /\ funcRevision' = funcRevision + 2
      /\ labels' = Append(labels, n)
      /\ roots' = roots /\ freeNodes' = freeNodes /\ deleted' = deleted
    BY LiveIsUnmarked DEF PromoteToBlock, ArenaInv
<1>2. funcRevision \in Nat /\ labels \in Seq(NodeIds \cup {None})
    BY DEF ArenaInv, ArenaTypeOK
<1>3. /\ node \in Node /\ node.base = Len(children) /\ node.count = Len(kids)
      /\ node.kind = "Control"
    BY <1>1, <1>2, AddedSpan DEF Node
<1> HIDE DEF node
<1>4. /\ labels' \in Seq(NodeIds \cup {None}) /\ funcRevision' \in Nat
      /\ \A l \in LabelIds : labels[l] # None => l \in LabelIds' /\ labels'[l] # None
    BY <1>1, <1>2 DEF LabelIds
<1>5. /\ children' \in Seq(NodeIds \cup {None}) /\ Len(children') >= Len(children)
      /\ node.base + node.count <= Len(children')
      /\ \A s \in (node.base + 1)..(node.base + node.count) :
            children'[s] # None => children'[s] \in NodeIds /\ children'[s] \notin deleted
      /\ \A s \in 1..Len(children) : children'[s] = children[s]
    <2>1. /\ Len(kids) \in Nat /\ Len(children) \in Nat
          /\ children' \in Seq(NodeIds \cup {None})
          /\ Len(children') = Len(children) + Len(kids)
          /\ \A s \in 1..Len(children) : children'[s] = children[s]
          /\ \A s \in (Len(children) + 1)..(Len(children) + Len(kids)) :
                children'[s] # None => children'[s] \in NodeIds /\ children'[s] \notin deleted
        BY <1>1, AddedSpan
    <2>2. QED BY <2>1, <1>3
<1>6. QED BY <1>1, <1>3, <1>4, <1>5, EditKeepsInv

LEMMA RegionTruncateKeepsInv ==
    ASSUME ArenaInv, NEW n \in NodeIds, NEW keep \in Nat, RegionTruncate(n, keep)
    PROVE  ArenaInv'
<1> DEFINE node == WithSpan(nodes[n], nodes[n].base, keep)
<1>1. /\ n \notin deleted /\ nodes[n].kind = "Control" /\ keep < nodes[n].count
      /\ nodes' = [nodes EXCEPT ![n] = node] /\ funcRevision' = funcRevision + 1
      /\ children' = children /\ roots' = roots /\ labels' = labels
      /\ freeNodes' = freeNodes /\ deleted' = deleted
    BY LiveIsUnmarked DEF RegionTruncate, ArenaInv
<1>2. /\ funcRevision \in Nat /\ labels \in Seq(NodeIds \cup {None})
      /\ children \in Seq(NodeIds \cup {None}) /\ Len(children) \in Nat /\ keep \in Nat
      /\ nodes[n].imm0 \in Nat /\ nodes[n].base \in Nat /\ nodes[n].count \in Nat
      /\ nodes[n].base + nodes[n].count <= Len(children)
    BY NodesAreTyped, ArenaAssumption DEF ArenaInv, ArenaTypeOK
<1>3. /\ node \in Node /\ node.base = nodes[n].base /\ node.count = keep
      /\ node.kind = "Control"
    BY <1>1, <1>2 DEF WithSpan, Node
<1> HIDE DEF node
<1>4. \A s \in (node.base + 1)..(node.base + node.count) :
        children'[s] # None => children'[s] \in NodeIds /\ children'[s] \notin deleted
    <2> TAKE s \in (node.base + 1)..(node.base + node.count)
    <2>a. node.base = nodes[n].base /\ node.count < nodes[n].count
        BY <1>1, <1>3
    <2>b. nodes[n].base \in Nat /\ nodes[n].count \in Nat /\ node.count \in Nat
        BY <1>2, <1>3
    <2>1. s \in (nodes[n].base + 1)..(nodes[n].base + nodes[n].count)
        BY <2>a, <2>b
    <2>2. QED BY <2>1, <1>1 DEF SlotsAreLive, ArenaInv
<1>5. /\ children' \in Seq(NodeIds \cup {None}) /\ Len(children') >= Len(children)
      /\ node.base + node.count <= Len(children')
      /\ \A s \in 1..Len(children) : children'[s] = children[s]
      /\ labels' \in Seq(NodeIds \cup {None}) /\ funcRevision' \in Nat
      /\ \A l \in LabelIds : labels[l] # None => l \in LabelIds' /\ labels'[l] # None
    BY <1>1, <1>2, <1>3 DEF LabelIds
<1>6. QED BY <1>1, <1>3, <1>4, <1>5, EditKeepsInv

LEMMA BuildKeepsInv ==
    ASSUME ArenaInv, Build
    PROVE  ArenaInv'
<1>1. labels \in Seq(NodeIds \cup {None}) /\ funcRevision \in Nat /\ Len(nodes) \in Nat
    BY NodesAreTyped DEF ArenaInv, ArenaTypeOK
<1>2. labels \in Seq(1..(Len(nodes) + 1) \cup {None})
    BY <1>1 DEF NodeIds
<1>3. ASSUME NEW kids \in Spans, BuildPlain(kids)
      PROVE  ArenaInv'
    <2>1. /\ Alloc(NodeContents("Plain", 0), kids) /\ labels' = labels /\ funcRevision' \in Nat
          /\ \A l \in LabelIds : labels[l] # None => l \in LabelIds' /\ labels'[l] # None
        BY <1>1, <1>3 DEF BuildPlain, LabelIds
    <2>2. QED BY <2>1, <1>2, AllocKeepsInv
<1>4. ASSUME NEW kids \in Spans, BuildControl(kids)
      PROVE  ArenaInv'
    <2>1. /\ Alloc(NodeContents("Control", Len(labels) + 1), kids)
          /\ labels' = Append(labels, Len(nodes) + 1) /\ funcRevision' \in Nat
          /\ Len(labels) + 1 \in Nat
        BY <1>1, <1>4 DEF BuildControl
    <2>2. /\ labels' \in Seq(1..(Len(nodes) + 1) \cup {None})
          /\ \A l \in LabelIds : labels[l] # None => l \in LabelIds' /\ labels'[l] # None
        BY <1>1, <1>2, <2>1 DEF LabelIds
    <2>3. QED BY <2>1, <2>2, AllocKeepsInv
<1>5. ASSUME NEW l \in LabelIds, BuildBranch(l)
      PROVE  ArenaInv'
    <2>1. /\ Alloc(NodeContents("Branch", l), <<>>) /\ LabelIsLive(l) /\ l \in Nat
          /\ labels' = labels /\ funcRevision' \in Nat
          /\ \A m \in LabelIds : labels[m] # None => m \in LabelIds' /\ labels'[m] # None
        BY <1>1, <1>5 DEF BuildBranch, LabelIds
    <2>2. <<>> \in Spans
        <3>1. 0 \in 0..MaxSpan /\ <<>> \in [1..0 -> Refs]
            BY ArenaAssumption
        <3>2. QED BY <3>1 DEF Spans, SeqOf
    <2>3. QED BY <2>1, <2>2, <1>2, AllocKeepsInv
<1>6. QED BY <1>3, <1>4, <1>5 DEF Build

-----------------------------------------------------------------------------
(* Roots and regions *)

LEMMA SplicedIsASeq ==
    ASSUME NEW S, NEW seq \in Seq(S), NEW new \in Seq(S), NEW idx \in Nat, NEW count \in Nat,
           idx + count <= Len(seq)
    PROVE  /\ Spliced(seq, idx, count, new) \in Seq(S)
           /\ Len(Spliced(seq, idx, count, new)) \in Nat
           /\ \A k \in 1..Len(Spliced(seq, idx, count, new)) :
                \/ \E j \in 1..Len(seq) : Spliced(seq, idx, count, new)[k] = seq[j]
                \/ \E j \in 1..Len(new) : Spliced(seq, idx, count, new)[k] = new[j]
<1> DEFINE head == SubSeq(seq, 1, idx)
           tail == SubSeq(seq, idx + count + 1, Len(seq))
<1>1. /\ head \in Seq(S) /\ Len(head) = idx
      /\ \A k \in 1..idx : head[k] = seq[k]
    BY SubSeqProperties
<1>2. /\ tail \in Seq(S) /\ Len(tail) = Len(seq) - idx - count
      /\ \A k \in 1..Len(tail) : tail[k] = seq[idx + count + k]
    BY SubSeqProperties
<1> HIDE DEF head, tail
<1>a. Len(seq) \in Nat /\ Len(new) \in Nat /\ Len(tail) \in Nat
    BY <1>2
<1>4. /\ head \o new \in Seq(S) /\ Len(head \o new) = idx + Len(new)
      /\ \A k \in 1..idx : (head \o new)[k] = seq[k]
      /\ \A k \in idx + 1..idx + Len(new) : (head \o new)[k] = new[k - idx]
    <2>1. head \in Seq(S) /\ new \in Seq(S) /\ Len(head) = idx
        BY <1>1
    <2>2. /\ head \o new \in Seq(S) /\ Len(head \o new) = Len(head) + Len(new)
          /\ \A k \in 1..Len(head) : (head \o new)[k] = head[k]
          /\ \A k \in Len(head) + 1..Len(head) + Len(new) :
                k - Len(head) \in 1..Len(new) /\ (head \o new)[k] = new[k - Len(head)]
        BY <2>1, JoinedSeqs
    <2> DEFINE joined == head \o new
    <2> HIDE DEF joined
    <2>3. /\ joined \in Seq(S) /\ Len(joined) = idx + Len(new)
          /\ \A k \in 1..idx : joined[k] = head[k]
          /\ \A k \in idx + 1..idx + Len(new) : joined[k] = new[k - idx]
        BY <2>1, <2>2 DEF joined
    <2>4. QED BY <2>3, <1>1 DEF joined
<1> DEFINE front == head \o new
<1> HIDE DEF front
<1>b. /\ front \in Seq(S) /\ Len(front) = idx + Len(new)
      /\ \A k \in 1..idx : front[k] = seq[k]
      /\ \A k \in idx + 1..idx + Len(new) : front[k] = new[k - idx]
    BY <1>4 DEF front
<1>5. /\ front \o tail \in Seq(S)
      /\ Len(front \o tail) = idx + Len(new) + Len(tail)
      /\ \A k \in 1..idx + Len(new) : (front \o tail)[k] = front[k]
      /\ \A k \in idx + Len(new) + 1..idx + Len(new) + Len(tail) :
            (front \o tail)[k] = tail[k - (idx + Len(new))]
    <2>1. tail \in Seq(S)
        BY <1>2
    <2>2. /\ front \o tail \in Seq(S) /\ Len(front \o tail) = Len(front) + Len(tail)
          /\ \A k \in 1..Len(front) : (front \o tail)[k] = front[k]
          /\ \A k \in Len(front) + 1..Len(front) + Len(tail) :
                k - Len(front) \in 1..Len(tail) /\ (front \o tail)[k] = tail[k - Len(front)]
        BY <2>1, <1>b, JoinedSeqs
    <2>3. Len(front) = idx + Len(new)
        BY <1>b
    <2>4. QED BY <2>2, <2>3
<1>6. ASSUME NEW k \in 1..(idx + Len(new) + Len(tail))
      PROVE  \/ \E j \in 1..Len(seq) : (front \o tail)[k] = seq[j]
             \/ \E j \in 1..Len(new) : (front \o tail)[k] = new[j]
    <2>1. CASE k <= idx
        <3>1. k \in 1..Len(seq) /\ (front \o tail)[k] = seq[k]
            BY <2>1, <1>a, <1>b, <1>5
        <3>2. QED BY <3>1
    <2>2. CASE k > idx /\ k <= idx + Len(new)
        <3>1. k - idx \in 1..Len(new) /\ (front \o tail)[k] = new[k - idx]
            BY <2>2, <1>a, <1>b, <1>5
        <3>2. QED BY <3>1
    <2>3. CASE k > idx + Len(new)
        <3>1. k - (idx + Len(new)) \in 1..Len(tail)
            BY <2>3, <1>a
        <3>2. (front \o tail)[k] = tail[k - (idx + Len(new))]
            BY <2>3, <1>a, <1>5
        <3>3. PICK i \in 1..Len(tail) : (front \o tail)[k] = tail[i]
            BY <3>1, <3>2
        <3>4. idx + count + i \in 1..Len(seq) /\ tail[i] = seq[idx + count + i]
            BY <1>a, <1>2
        <3>5. QED BY <3>3, <3>4
    <2>4. k <= idx \/ (k > idx /\ k <= idx + Len(new)) \/ k > idx + Len(new)
        BY <1>a
    <2>5. QED BY <2>1, <2>2, <2>3, <2>4
<1>7. Spliced(seq, idx, count, new) = front \o tail
    BY DEF Spliced, front, head, tail
<1> DEFINE whole == front \o tail
<1> HIDE DEF whole
<1>8. /\ whole \in Seq(S) /\ Len(whole) = idx + Len(new) + Len(tail)
      /\ \A k \in 1..(idx + Len(new) + Len(tail)) :
            \/ \E j \in 1..Len(seq) : whole[k] = seq[j]
            \/ \E j \in 1..Len(new) : whole[k] = new[j]
    BY <1>5, <1>6 DEF whole
<1>9. Spliced(seq, idx, count, new) = whole
    BY <1>7 DEF whole
<1>10. Len(whole) \in Nat
    BY <1>8, <1>a
<1>11. QED BY <1>8, <1>9, <1>10

LEMMA RootSpliceKeepsInv ==
    ASSUME ArenaInv, NEW idx \in 0..Len(roots), NEW count \in 0..Len(roots), NEW new \in Spans,
           RootSplice(idx, count, new)
    PROVE  ArenaInv'
<1>1. /\ idx + count <= Len(roots) /\ roots' = Spliced(roots, idx, count, new)
      /\ funcRevision' = funcRevision + 1
      /\ nodes' = nodes /\ children' = children /\ labels' = labels
      /\ freeNodes' = freeNodes /\ deleted' = deleted
      /\ \A k \in 1..Len(new) : new[k] \in NodeIds /\ new[k] \notin deleted
    BY LiveIsUnmarked DEF RootSplice, ArenaInv
<1>2. roots \in Seq(NodeIds) /\ funcRevision \in Nat /\ idx \in Nat /\ count \in Nat
    BY ArenaAssumption DEF ArenaInv, ArenaTypeOK
<1>3. new \in Seq(NodeIds)
    BY <1>1, SpansHoldRefs
<1> DEFINE next == Spliced(roots, idx, count, new)
<1> HIDE DEF next
<1>a. /\ next \in Seq(NodeIds)
      /\ \A k \in 1..Len(next) : \/ \E j \in 1..Len(roots) : next[k] = roots[j]
                                 \/ \E j \in 1..Len(new) : next[k] = new[j]
    <2>1. idx + count <= Len(roots)
        BY <1>1
    <2>2. roots \in Seq(NodeIds) /\ idx \in Nat /\ count \in Nat
        BY <1>2
    <2>3. /\ Spliced(roots, idx, count, new) \in Seq(NodeIds)
          /\ Len(Spliced(roots, idx, count, new)) \in Nat
          /\ \A k \in 1..Len(Spliced(roots, idx, count, new)) :
                \/ \E j \in 1..Len(roots) : Spliced(roots, idx, count, new)[k] = roots[j]
                \/ \E j \in 1..Len(new) : Spliced(roots, idx, count, new)[k] = new[j]
        BY <2>1, <2>2, <1>3, SplicedIsASeq
    <2>4. QED BY <2>3 DEF next
<1>b. roots' = next
    BY <1>1 DEF next
<1>4. /\ roots' \in Seq(NodeIds)
      /\ \A k \in 1..Len(roots') : \/ \E j \in 1..Len(roots) : roots'[k] = roots[j]
                                   \/ \E j \in 1..Len(new) : roots'[k] = new[j]
    BY <1>a, <1>b
<1>5. NodeIds' = NodeIds /\ LabelIds' = LabelIds
    BY <1>1 DEF NodeIds, LabelIds
<1>6. RootsAreLive'
    BY <1>1, <1>4, <1>5 DEF RootsAreLive, ArenaInv
<1>7. ArenaTypeOK'
    BY <1>1, <1>2, <1>4, <1>5 DEF ArenaTypeOK, ArenaInv
<1>8. FreeListMatchesBitmap' /\ SlotsAreLive' /\ TargetsAreLive'
    BY <1>1, <1>5 DEF FreeListMatchesBitmap, ToSet, SlotsAreLive, TargetsAreLive, ArenaInv
<1>9. QED BY <1>6, <1>7, <1>8 DEF ArenaInv

\* In place, in place past the end, or at the end: what is written are the
\* region's new children, and the rest of the array stays.
LEMMA WrittenAtIsASeq ==
    ASSUME NEW S, children \in Seq(S), NEW span \in Seq(S), NEW base \in Nat,
           base <= Len(children)
    PROVE  /\ WrittenAt(base, span) \in Seq(S)
           /\ Len(WrittenAt(base, span)) >= Len(children)
           /\ Len(WrittenAt(base, span)) >= base + Len(span)
           /\ \A s \in (base + 1)..(base + Len(span)) :
                s - base \in 1..Len(span) /\ WrittenAt(base, span)[s] = span[s - base]
           /\ \A s \in 1..Len(children) :
                \/ WrittenAt(base, span)[s] = children[s]
                \/ \E k \in 1..Len(span) : WrittenAt(base, span)[s] = span[k]
<1> DEFINE size == IF base + Len(span) > Len(children) THEN base + Len(span)
                   ELSE Len(children)
           value(s) == IF s - base \in 1..Len(span) THEN span[s - base] ELSE children[s]
<1>1. size \in Nat /\ size >= Len(children) /\ size >= base + Len(span)
    OBVIOUS
<1>2. \A s \in 1..size : value(s) \in S
    OBVIOUS
<1>3. WrittenAt(base, span) = [s \in 1..size |-> value(s)]
    BY DEF WrittenAt
<1> HIDE DEF size
<1> DEFINE written == WrittenAt(base, span)
<1>a. written \in [1..size -> S]
    BY <1>2, <1>3
<1>b. size \in Nat
    BY <1>1
<1> HIDE DEF written
<1>c. written \in Seq(S) /\ Len(written) = size
    BY <1>a, <1>b, FunctionIsASeq
<1>4. WrittenAt(base, span) \in Seq(S) /\ Len(WrittenAt(base, span)) = size
    BY <1>c DEF written
<1>5. \A s \in (base + 1)..(base + Len(span)) : s \in 1..size /\ s - base \in 1..Len(span)
    BY <1>1
<1>6. \A s \in 1..size : written[s] = value(s)
    BY <1>3 DEF written
<1>7. \A s \in (base + 1)..(base + Len(span)) : written[s] = span[s - base]
    BY <1>5, <1>6
<1>8. ASSUME NEW s \in 1..Len(children)
      PROVE  \/ written[s] = children[s]
             \/ \E k \in 1..Len(span) : written[s] = span[k]
    <2>1. s \in 1..size
        BY <1>1
    <2>2. QED BY <2>1, <1>6
<1>9. QED BY <1>1, <1>c, <1>5, <1>7, <1>8 DEF written

LEMMA RegionSpliceKeepsInv ==
    ASSUME ArenaInv, NEW n \in NodeIds, NEW idx \in Nat, NEW count \in Nat, NEW new \in Spans,
           RegionSplice(n, idx, count, new)
    PROVE  ArenaInv'
<1> DEFINE next == Spliced(Children(n), idx, count, new)
           base == SpliceBase(n, Len(next))
           node == WithSpan(nodes[n], base, Len(next))
<1>1. /\ n \notin deleted /\ nodes[n].kind = "Control" /\ idx + count <= nodes[n].count
      /\ \A k \in 1..Len(next) : next[k] \in Refs
      /\ children' = WrittenAt(base, next)
      /\ nodes' = [nodes EXCEPT ![n] = node] /\ funcRevision' = funcRevision + 1
      /\ roots' = roots /\ labels' = labels /\ freeNodes' = freeNodes /\ deleted' = deleted
    BY LiveIsUnmarked DEF RegionSplice, ArenaInv
<1>2. /\ funcRevision \in Nat /\ labels \in Seq(NodeIds \cup {None})
      /\ children \in Seq(NodeIds \cup {None}) /\ Len(children) \in Nat
      /\ nodes[n].imm0 \in Nat /\ nodes[n].base \in Nat /\ nodes[n].count \in Nat
      /\ nodes[n].base + nodes[n].count <= Len(children)
      /\ \A s \in 1..Len(children) : children[s] \in NodeIds \cup {None}
    BY NodesAreTyped DEF ArenaInv, ArenaTypeOK
<1>3. Children(n) \in Seq(NodeIds \cup {None}) /\ Len(Children(n)) = nodes[n].count
    <2>1. ASSUME NEW k \in 1..nodes[n].count
          PROVE  children[nodes[n].base + k] \in NodeIds \cup {None}
        <3>a. /\ nodes[n].base \in Nat /\ nodes[n].count \in Nat /\ Len(children) \in Nat
              /\ nodes[n].base + nodes[n].count <= Len(children)
            BY <1>2
        <3>1. nodes[n].base + k \in 1..Len(children)
            BY <3>a
        <3>2. QED BY <3>1, <1>2
    <2>2. Children(n) \in [1..nodes[n].count -> NodeIds \cup {None}]
        BY <2>1 DEF Children
    <2>3. QED BY <1>2, <2>2, FunctionIsASeq
<1>4. next \in Seq(NodeIds \cup {None}) /\ Len(next) \in Nat
    BY <1>1, <1>3, SpansHoldRefs, SplicedIsASeq
<1>5. \A k \in 1..Len(next) : next[k] # None => next[k] \in NodeIds /\ next[k] \notin deleted
    BY <1>1, LiveIsUnmarked DEF Refs, Live, ArenaInv
<1> HIDE DEF next
<1>6. base \in Nat /\ base <= Len(children)
    BY <1>2 DEF SpliceBase
<1> HIDE DEF base
<1>7. /\ node \in Node /\ node.base = base /\ node.count = Len(next)
      /\ node.kind = "Control"
    BY <1>1, <1>2, <1>4, <1>6 DEF WithSpan, Node
<1> HIDE DEF node
<1> DEFINE array == WrittenAt(base, next)
<1>8. /\ array \in Seq(NodeIds \cup {None}) /\ Len(array) >= Len(children)
      /\ Len(array) >= base + Len(next)
      /\ \A s \in (base + 1)..(base + Len(next)) :
            s - base \in 1..Len(next) /\ array[s] = next[s - base]
      /\ \A s \in 1..Len(children) :
            array[s] = children[s] \/ \E k \in 1..Len(next) : array[s] = next[k]
    <2>1. /\ children \in Seq(NodeIds \cup {None}) /\ next \in Seq(NodeIds \cup {None})
          /\ base \in Nat /\ base <= Len(children)
        BY <1>2, <1>4, <1>6
    <2>2. array \in Seq(NodeIds \cup {None})
        BY <2>1, WrittenAtIsASeq
    <2>3. Len(array) >= Len(children)
        BY <2>1, WrittenAtIsASeq
    <2>4. Len(array) >= base + Len(next)
        BY <2>1, WrittenAtIsASeq
    <2>5. \A s \in (base + 1)..(base + Len(next)) :
            s - base \in 1..Len(next) /\ array[s] = next[s - base]
        BY <2>1, WrittenAtIsASeq
    <2>6. \A s \in 1..Len(children) :
            array[s] = children[s] \/ \E k \in 1..Len(next) : array[s] = next[k]
        BY <2>1, WrittenAtIsASeq
    <2>7. QED BY <2>2, <2>3, <2>4, <2>5, <2>6
<1> HIDE DEF array
<1>9. children' = array
    BY <1>1 DEF array
<1>10. \A s \in (node.base + 1)..(node.base + node.count) :
        children'[s] # None => children'[s] \in NodeIds /\ children'[s] \notin deleted
    BY <1>5, <1>7, <1>8, <1>9
<1>11. \A s \in 1..Len(children) :
        children'[s] = children[s] \/ (children'[s] # None =>
            children'[s] \in NodeIds /\ children'[s] \notin deleted)
    BY <1>5, <1>8, <1>9
<1>12. /\ children' \in Seq(NodeIds \cup {None}) /\ Len(children') >= Len(children)
       /\ node.base + node.count <= Len(children')
       /\ labels' \in Seq(NodeIds \cup {None}) /\ funcRevision' \in Nat
       /\ \A l \in LabelIds : labels[l] # None => l \in LabelIds' /\ labels'[l] # None
    <2>1. base + Len(next) <= Len(array)
        BY <1>4, <1>6, <1>8
    <2>2. QED BY <1>1, <1>2, <1>7, <1>8, <1>9, <2>1 DEF LabelIds
<1>13. QED BY <1>1, <1>7, <1>10, <1>11, <1>12, EditKeepsInv

-----------------------------------------------------------------------------
(* Deleting *)

LEMMA ConcatSet ==
    ASSUME NEW S, NEW s \in Seq(S), NEW t \in Seq(S)
    PROVE  /\ s \o t \in Seq(S)
           /\ ToSet(s \o t) = ToSet(s) \cup ToSet(t)
<1> DEFINE st == s \o t
<1>1. /\ Len(s) \in Nat /\ Len(t) \in Nat
      /\ st \in Seq(S) /\ Len(st) = Len(s) + Len(t)
      /\ \A k \in 1..Len(s) : st[k] = s[k]
      /\ \A k \in Len(s) + 1..Len(s) + Len(t) :
            k - Len(s) \in 1..Len(t) /\ st[k] = t[k - Len(s)]
      /\ \A k \in 1..Len(t) : Len(s) + k \in Len(s) + 1..Len(s) + Len(t) /\ st[Len(s) + k] = t[k]
    OBVIOUS
<1>a. DOMAIN s = 1..Len(s) /\ DOMAIN t = 1..Len(t) /\ DOMAIN st = 1..Len(st)
    BY <1>1
<1> HIDE DEF st
<1>2. /\ ToSet(s) = {s[k] : k \in 1..Len(s)} /\ ToSet(t) = {t[k] : k \in 1..Len(t)}
      /\ ToSet(st) = {st[k] : k \in 1..Len(st)}
    BY <1>a DEF ToSet
<1>3. ToSet(st) \subseteq ToSet(s) \cup ToSet(t)
    <2> SUFFICES ASSUME NEW k \in 1..Len(st)
                 PROVE  st[k] \in ToSet(s) \cup ToSet(t)
        BY <1>2
    <2>1. k \in 1..Len(s) \/ k \in Len(s) + 1..Len(s) + Len(t)
        BY <1>1
    <2>2. CASE k \in 1..Len(s)
        BY <2>2, <1>1, <1>2
    <2>3. CASE k \in Len(s) + 1..Len(s) + Len(t)
        <3>1. k - Len(s) \in 1..Len(t) /\ st[k] = t[k - Len(s)]
            BY <2>3, <1>1
        <3>2. QED BY <3>1, <1>2
    <2>4. QED BY <2>1, <2>2, <2>3
<1>4. ToSet(s) \cup ToSet(t) \subseteq ToSet(st)
    <2>1. \A k \in 1..Len(s) : k \in 1..Len(st) /\ st[k] = s[k]
        BY <1>1
    <2>2. \A k \in 1..Len(t) : Len(s) + k \in 1..Len(st) /\ st[Len(s) + k] = t[k]
        BY <1>1
    <2>3. QED BY <1>2, <2>1, <2>2
<1>5. QED BY <1>1, <1>3, <1>4 DEF st

\* A sequence with no element twice.
NoRepeats(s) == \A j, k \in 1..Len(s) : s[j] = s[k] => j = k

\* Two sequences of distinct elements with none in common, one after the other.
LEMMA ConcatDistinct ==
    ASSUME NEW S, NEW s \in Seq(S), NEW t \in Seq(S),
           NoRepeats(s), NoRepeats(t), ToSet(s) \cap ToSet(t) = {}
    PROVE  NoRepeats(s \o t)
<1> DEFINE st == s \o t
<1>1. /\ Len(s) \in Nat /\ Len(t) \in Nat
      /\ st \in Seq(S) /\ Len(st) = Len(s) + Len(t)
      /\ \A k \in 1..Len(s) : st[k] = s[k]
      /\ \A k \in Len(s) + 1..Len(s) + Len(t) :
            k - Len(s) \in 1..Len(t) /\ st[k] = t[k - Len(s)]
    BY JoinedSeqs
<1>a. DOMAIN s = 1..Len(s) /\ DOMAIN t = 1..Len(t)
    OBVIOUS
<1> HIDE DEF st
<1>2. /\ ToSet(s) = {s[k] : k \in 1..Len(s)} /\ ToSet(t) = {t[k] : k \in 1..Len(t)}
    BY <1>a DEF ToSet
<1>5. ASSUME NEW j \in 1..Len(st), NEW k \in 1..Len(st), st[j] = st[k]
      PROVE  j = k
    <2>1. CASE j <= Len(s) /\ k <= Len(s)
        <3>1. /\ j \in 1..Len(s) /\ st[j] = s[j]
              /\ k \in 1..Len(s) /\ st[k] = s[k]
            BY <2>1, <1>1
        <3>2. QED BY <3>1, <1>5 DEF NoRepeats
    <2>2. CASE j > Len(s) /\ k > Len(s)
        <3>1. /\ j - Len(s) \in 1..Len(t) /\ st[j] = t[j - Len(s)]
              /\ k - Len(s) \in 1..Len(t) /\ st[k] = t[k - Len(s)]
            BY <2>2, <1>1
        <3>2. j - Len(s) = k - Len(s)
            BY <3>1, <1>5 DEF NoRepeats
        <3>3. QED BY <3>2, <1>1
    <2>3. CASE j <= Len(s) /\ k > Len(s)
        <3>1. j \in 1..Len(s) /\ st[j] = s[j]
            BY <1>1, <2>3
        <3>2. k - Len(s) \in 1..Len(t) /\ st[k] = t[k - Len(s)]
            BY <1>1, <2>3
        <3>3. st[j] \in ToSet(s) /\ st[k] \in ToSet(t)
            BY <3>1, <3>2, <1>2
        <3>4. QED BY <3>3, <1>5
    <2>4. CASE j > Len(s) /\ k <= Len(s)
        <3>1. k \in 1..Len(s) /\ st[k] = s[k]
            BY <1>1, <2>4
        <3>2. j - Len(s) \in 1..Len(t) /\ st[j] = t[j - Len(s)]
            BY <1>1, <2>4
        <3>3. st[k] \in ToSet(s) /\ st[j] \in ToSet(t)
            BY <3>1, <3>2, <1>2
        <3>4. QED BY <3>3, <1>5
    <2>5. QED BY <2>1, <2>2, <2>3, <2>4, <1>1
<1>6. QED BY <1>5 DEF st, NoRepeats

\* Any deletion: the deleted nodes were live, each is listed once, nothing that
\* survives reaches them, and every survivor has the contents of a node that
\* was live.
LEMMA DeletionKeepsInv ==
    ASSUME ArenaInv, NEW ids \in Seq(NodeIds),
           \A k \in 1..Len(ids) : ids[k] \notin deleted,
           \A j, k \in 1..Len(ids) : ids[j] = ids[k] => j = k,
           NoRootIn(ToSet(ids)),
           nodes' \in Seq(Node), Len(nodes') = Len(nodes),
           \A n \in NodeIds : nodes'[n].base + nodes'[n].count <= Len(children),
           \A n \in NodeIds : (n \notin deleted /\ n \notin ToSet(ids)) =>
               \E m \in NodeIds :
                   /\ m \notin deleted /\ nodes'[n] = nodes[m]
                   /\ \A s \in (nodes[m].base + 1)..(nodes[m].base + nodes[m].count) :
                        children[s] # None => children[s] \notin ToSet(ids)
                   /\ nodes[m].kind = "Branch" =>
                        nodes[m].imm0 \in LabelIds' /\ labels'[nodes[m].imm0] # None,
           deleted' = deleted \cup ToSet(ids), freeNodes' = freeNodes \o ids,
           children' = children, roots' = roots,
           labels' \in Seq(NodeIds \cup {None}), funcRevision' \in Nat
    PROVE  ArenaInv'
<1>1. /\ freeNodes \in Seq(NodeIds) /\ deleted \subseteq NodeIds
      /\ deleted = ToSet(freeNodes)
      /\ \A j, k \in 1..Len(freeNodes) : freeNodes[j] = freeNodes[k] => j = k
      /\ roots \in Seq(NodeIds) /\ children \in Seq(NodeIds \cup {None})
    BY DEF ArenaInv, ArenaTypeOK, FreeListMatchesBitmap
<1>2. ToSet(ids) \subseteq NodeIds /\ ToSet(ids) \cap deleted = {}
    <2>1. DOMAIN ids = 1..Len(ids) /\ \A k \in 1..Len(ids) : ids[k] \in NodeIds
        OBVIOUS
    <2>2. QED BY <2>1 DEF ToSet
<1>3. /\ freeNodes \o ids \in Seq(NodeIds)
      /\ ToSet(freeNodes \o ids) = ToSet(freeNodes) \cup ToSet(ids)
      /\ \A j, k \in 1..Len(freeNodes \o ids) :
            (freeNodes \o ids)[j] = (freeNodes \o ids)[k] => j = k
    <2>1. /\ freeNodes \o ids \in Seq(NodeIds)
          /\ ToSet(freeNodes \o ids) = ToSet(freeNodes) \cup ToSet(ids)
        BY <1>1, ConcatSet
    <2>2. ToSet(freeNodes) \cap ToSet(ids) = {}
        BY <1>1, <1>2
    <2>3. \A j, k \in 1..Len(freeNodes \o ids) :
            (freeNodes \o ids)[j] = (freeNodes \o ids)[k] => j = k
        <3>1. NoRepeats(freeNodes) /\ NoRepeats(ids)
            BY <1>1 DEF NoRepeats
        <3>2. freeNodes \in Seq(NodeIds) /\ ids \in Seq(NodeIds)
            BY <1>1
        <3>3. NoRepeats(freeNodes \o ids)
            BY <3>1, <3>2, <2>2, ConcatDistinct
        <3>4. QED BY <3>3 DEF NoRepeats
    <2>4. QED BY <2>1, <2>3
<1>4. NodeIds' = NodeIds
    BY DEF NodeIds
<1>5. ArenaTypeOK'
    <2>1. labels' \in Seq(NodeIds \cup {None}) /\ funcRevision' \in Nat
        OBVIOUS
    <2>2. nodes' \in Seq([kind : {"Plain", "Branch", "Control"}, imm0 : Nat,
                          base : Nat, count : Nat])
        BY DEF Node
    <2>3. \A n \in NodeIds' : nodes'[n].base + nodes'[n].count <= Len(children')
        BY <1>4
    <2>4. freeNodes' \in Seq(NodeIds) /\ deleted' \subseteq NodeIds
        BY <1>1, <1>2, <1>3
    <2>5. roots' \in Seq(NodeIds) /\ children' \in Seq(NodeIds \cup {None})
        BY <1>1
    <2>6. QED BY <1>4, <2>1, <2>2, <2>3, <2>4, <2>5 DEF ArenaTypeOK
<1>6. FreeListMatchesBitmap'
    <2>1. ToSet(freeNodes)' = ToSet(freeNodes \o ids)
        BY DEF ToSet
    <2>2. QED BY <1>1, <1>3, <2>1 DEF FreeListMatchesBitmap
<1>7. RootsAreLive'
    BY <1>4 DEF RootsAreLive, NoRootIn, ArenaInv
<1>8. SlotsAreLive' /\ TargetsAreLive'
    <2> SUFFICES ASSUME NEW n \in NodeIds, n \notin deleted, n \notin ToSet(ids)
                 PROVE  /\ \A s \in (nodes'[n].base + 1)..(nodes'[n].base + nodes'[n].count) :
                             children[s] # None =>
                                 children[s] \in NodeIds /\ children[s] \notin deleted'
                        /\ nodes'[n].kind = "Branch" =>
                             nodes'[n].imm0 \in LabelIds' /\ labels'[nodes'[n].imm0] # None
        BY <1>4 DEF SlotsAreLive, TargetsAreLive
    <2>1. PICK m \in NodeIds :
            /\ m \notin deleted /\ nodes'[n] = nodes[m]
            /\ \A s \in (nodes[m].base + 1)..(nodes[m].base + nodes[m].count) :
                 children[s] # None => children[s] \notin ToSet(ids)
            /\ nodes[m].kind = "Branch" =>
                 nodes[m].imm0 \in LabelIds' /\ labels'[nodes[m].imm0] # None
        OBVIOUS
    <2>2. \A s \in (nodes[m].base + 1)..(nodes[m].base + nodes[m].count) :
            children[s] # None => children[s] \in NodeIds /\ children[s] \notin deleted
        BY <2>1 DEF ArenaInv, SlotsAreLive
    <2>3. QED BY <2>1, <2>2
<1>9. QED BY <1>5, <1>6, <1>7, <1>8 DEF ArenaInv

\* What the checks of a deletion say of a node that stays.
LEMMA SurvivorsReachNone ==
    ASSUME ArenaInv, NEW set, NoOutsideParent(set), NEW n \in NodeIds, n \notin deleted,
           n \notin set
    PROVE  \A s \in (nodes[n].base + 1)..(nodes[n].base + nodes[n].count) :
               children[s] # None => children[s] \notin set
<1>1. n \in Live \ set
    BY LiveIsUnmarked DEF Live, ArenaInv
<1>2. QED BY <1>1 DEF NoOutsideParent, Kids, Slots

\* The tombstones of some nodes.
LEMMA TombstonedNodes ==
    ASSUME ArenaInv, NEW ids, Tombstoned(ids)
    PROVE  /\ nodes' \in Seq(Node) /\ Len(nodes') = Len(nodes)
           /\ \A n \in NodeIds : nodes'[n].base + nodes'[n].count <= Len(children)
           /\ \A n \in NodeIds : n \notin ToSet(ids) => nodes'[n] = nodes[n]
<1> DEFINE node(n) == IF n \in ToSet(ids) THEN NodeContents("Plain", 0) ELSE nodes[n]
<1>1. /\ Len(nodes) \in Nat /\ Len(children) \in Nat /\ NodeIds = 1..Len(nodes)
      /\ \A n \in NodeIds : /\ nodes[n] \in Node
                            /\ nodes[n].base + nodes[n].count <= Len(children)
    BY NodesAreTyped DEF ArenaInv
<1>2. /\ NodeContents("Plain", 0) \in Node
      /\ NodeContents("Plain", 0).base = 0 /\ NodeContents("Plain", 0).count = 0
    BY DEF NodeContents, Node
<1>3. \A n \in NodeIds : node(n) \in Node /\ node(n).base + node(n).count <= Len(children)
    <2> SUFFICES ASSUME NEW n \in NodeIds
                 PROVE  node(n) \in Node /\ node(n).base + node(n).count <= Len(children)
        OBVIOUS
    <2>1. CASE n \in ToSet(ids)
        <3>1. node(n) = NodeContents("Plain", 0)
            BY <2>1
        <3>2. QED BY <1>1, <1>2, <3>1
    <2>2. CASE n \notin ToSet(ids)
        <3>1. node(n) = nodes[n]
            BY <2>2
        <3>2. QED BY <1>1, <3>1
    <2>3. QED BY <2>1, <2>2
<1>4. \A n \in NodeIds : n \notin ToSet(ids) => node(n) = nodes[n]
    OBVIOUS
<1>5. nodes' = [n \in 1..Len(nodes) |-> node(n)]
    BY <1>1 DEF Tombstoned
<1> HIDE DEF node
<1>6. nodes' \in [1..Len(nodes) -> Node] /\ \A n \in NodeIds : nodes'[n] = node(n)
    BY <1>1, <1>3, <1>5
<1>7. nodes' \in Seq(Node) /\ Len(nodes') = Len(nodes)
    BY <1>1, <1>6, FunctionIsASeq
<1>8. QED BY <1>3, <1>4, <1>6, <1>7

LEMMA DeleteNodesKeepsInv ==
    ASSUME ArenaInv, NEW ids \in SeqOf(Live, MaxSpan + 1), DeleteNodes(ids)
    PROVE  ArenaInv'
<1>1. ids \in Seq(NodeIds)
    <2>1. PICK m \in 0..(MaxSpan + 1) : ids \in [1..m -> Live]
        BY DEF SeqOf
    <2>2. m \in Nat /\ ids \in [1..m -> NodeIds]
        BY <2>1, ArenaAssumption DEF Live
    <2>3. QED BY <2>2, FunctionIsASeq
<1>2. /\ \A k \in 1..Len(ids) : ids[k] \notin deleted
      /\ \A j, k \in 1..Len(ids) : ids[j] = ids[k] => j = k
      /\ NoRootIn(ToSet(ids)) /\ NoOutsideParent(ToSet(ids))
      /\ Tombstoned(ids)
      /\ funcRevision' = funcRevision + 1 /\ children' = children /\ roots' = roots
      /\ labels' = labels
    BY LiveIsUnmarked DEF DeleteNodes, DistinctLive, ArenaInv
<1>3. /\ nodes' \in Seq(Node) /\ Len(nodes') = Len(nodes)
      /\ \A n \in NodeIds : nodes'[n].base + nodes'[n].count <= Len(children)
      /\ \A n \in NodeIds : n \notin ToSet(ids) => nodes'[n] = nodes[n]
    BY <1>2, TombstonedNodes
<1>4. deleted' = deleted \cup ToSet(ids) /\ freeNodes' = freeNodes \o ids
    BY <1>2 DEF Tombstoned
<1>5. labels' \in Seq(NodeIds \cup {None}) /\ funcRevision' \in Nat
    BY <1>2 DEF ArenaInv, ArenaTypeOK
<1>6. ASSUME NEW n \in NodeIds, n \notin deleted, n \notin ToSet(ids)
      PROVE  \E m \in NodeIds :
               /\ m \notin deleted /\ nodes'[n] = nodes[m]
               /\ \A s \in (nodes[m].base + 1)..(nodes[m].base + nodes[m].count) :
                    children[s] # None => children[s] \notin ToSet(ids)
               /\ nodes[m].kind = "Branch" =>
                    nodes[m].imm0 \in LabelIds' /\ labels'[nodes[m].imm0] # None
    <2>1. \A s \in (nodes[n].base + 1)..(nodes[n].base + nodes[n].count) :
            children[s] # None => children[s] \notin ToSet(ids)
        BY <1>2, <1>6, SurvivorsReachNone
    <2>2. nodes[n].kind = "Branch" =>
            nodes[n].imm0 \in LabelIds' /\ labels'[nodes[n].imm0] # None
        BY <1>2, <1>6 DEF ArenaInv, TargetsAreLive, LabelIds
    <2>3. nodes'[n] = nodes[n]
        BY <1>3, <1>6
    <2>4. QED BY <1>6, <2>1, <2>2, <2>3
<1>7. QED BY <1>1, <1>2, <1>3, <1>4, <1>5, <1>6, DeletionKeepsInv

\* A forest goes with the labels its controls own.
LEMMA DeleteForestKeepsInv ==
    ASSUME ArenaInv, NEW tops, DeleteForest(tops)
    PROVE  ArenaInv'
<1> DEFINE marks == Forest(tops)
<1>1. /\ NoRootIn(marks) /\ marks \subseteq Live /\ NoOutsideParent(marks)
      /\ NoOutsideBranch(marks)
      /\ labels' = [l \in LabelIds |-> IF l \in OwnedLabels(marks) THEN None ELSE labels[l]]
      /\ \E ids \in [1..Cardinality(marks) -> marks] :
            DistinctLive(ids) /\ ToSet(ids) = marks /\ Tombstoned(ids)
      /\ funcRevision' = funcRevision + 1 /\ children' = children /\ roots' = roots
    BY DEF DeleteForest
<1> HIDE DEF marks
<1>2. PICK ids \in [1..Cardinality(marks) -> marks] :
        DistinctLive(ids) /\ ToSet(ids) = marks /\ Tombstoned(ids)
    BY <1>1
<1>3. ids \in Seq(NodeIds)
    <2>1. marks \subseteq NodeIds /\ NodeIds = 1..Len(nodes) /\ Len(nodes) \in Nat
        BY <1>1, NodesAreTyped DEF Live, ArenaInv
    <2>2. Cardinality(marks) \in Nat
        <3>1. IsFiniteSet(NodeIds)
            BY <2>1, FS_Interval
        <3>2. QED BY <2>1, <3>1, FS_Subset, FS_CardinalityType
    <2>3. ids \in [1..Cardinality(marks) -> NodeIds]
        BY <2>1
    <2>4. QED BY <2>2, <2>3, FunctionIsASeq
<1>4. /\ \A k \in 1..Len(ids) : ids[k] \notin deleted
      /\ \A j, k \in 1..Len(ids) : ids[j] = ids[k] => j = k
    BY <1>2, LiveIsUnmarked DEF DistinctLive, ArenaInv
<1>5. /\ nodes' \in Seq(Node) /\ Len(nodes') = Len(nodes)
      /\ \A n \in NodeIds : nodes'[n].base + nodes'[n].count <= Len(children)
      /\ \A n \in NodeIds : n \notin ToSet(ids) => nodes'[n] = nodes[n]
    BY <1>2, TombstonedNodes
<1>6. deleted' = deleted \cup ToSet(ids) /\ freeNodes' = freeNodes \o ids
    BY <1>2 DEF Tombstoned
<1>7. labels \in Seq(NodeIds \cup {None}) /\ funcRevision \in Nat
    BY DEF ArenaInv, ArenaTypeOK
<1>8. labels' \in Seq(NodeIds \cup {None}) /\ LabelIds' = LabelIds
    <2>1. Len(labels) \in Nat /\ labels' \in [1..Len(labels) -> NodeIds \cup {None}]
        BY <1>1, <1>7 DEF LabelIds
    <2>2. labels' \in Seq(NodeIds \cup {None}) /\ Len(labels') = Len(labels)
        BY <2>1, FunctionIsASeq
    <2>3. QED BY <2>2 DEF LabelIds
<1>9. funcRevision' \in Nat
    BY <1>1, <1>7
<1>10. ASSUME NEW n \in NodeIds, n \notin deleted, n \notin ToSet(ids)
       PROVE  \E m \in NodeIds :
               /\ m \notin deleted /\ nodes'[n] = nodes[m]
               /\ \A s \in (nodes[m].base + 1)..(nodes[m].base + nodes[m].count) :
                    children[s] # None => children[s] \notin ToSet(ids)
               /\ nodes[m].kind = "Branch" =>
                    nodes[m].imm0 \in LabelIds' /\ labels'[nodes[m].imm0] # None
    <2>1. \A s \in (nodes[n].base + 1)..(nodes[n].base + nodes[n].count) :
            children[s] # None => children[s] \notin ToSet(ids)
        BY <1>1, <1>2, <1>10, SurvivorsReachNone
    <2>2. ASSUME nodes[n].kind = "Branch"
          PROVE  nodes[n].imm0 \in LabelIds' /\ labels'[nodes[n].imm0] # None
        <3>1. nodes[n].imm0 \in LabelIds /\ labels[nodes[n].imm0] # None
            BY <1>10, <2>2 DEF ArenaInv, TargetsAreLive
        <3>2. n \in Live \ marks
            BY <1>2, <1>10, LiveIsUnmarked DEF Live, ArenaInv
        <3>3. nodes[n].imm0 \notin OwnedLabels(marks)
            BY <1>1, <2>2, <3>2 DEF NoOutsideBranch
        <3>4. QED BY <1>1, <1>8, <3>1, <3>3
    <2>3. nodes'[n] = nodes[n]
        BY <1>5, <1>10
    <2>4. QED BY <1>10, <2>1, <2>2, <2>3
<1>11. NoRootIn(ToSet(ids))
    BY <1>1, <1>2
<1>12. QED
    BY <1>1, <1>3, <1>4, <1>5, <1>6, <1>8, <1>9, <1>10, <1>11, DeletionKeepsInv

\* The node built for a replacement is deleted without the checks; the pass
\* knows that nothing refers to it.
LEMMA ReplaceWithBuiltKeepsInv ==
    ASSUME ArenaInv, NEW target \in NodeIds, NEW built \in NodeIds,
           ReplaceWithBuilt(target, built)
    PROVE  ArenaInv'
<1>1. /\ target \notin deleted /\ built \notin deleted /\ target # built
      /\ NoRootIn({built})
      /\ nodes' = [nodes EXCEPT ![built] = NodeContents("Plain", 0), ![target] = nodes[built]]
      /\ deleted' = deleted \cup {built} /\ freeNodes' = Append(freeNodes, built)
      /\ children' = children /\ roots' = roots
    BY LiveIsUnmarked DEF ReplaceWithBuilt, ArenaInv
<1>2. /\ nodes \in Seq(Node) /\ funcRevision \in Nat /\ labels \in Seq(NodeIds \cup {None})
      /\ freeNodes \in Seq(NodeIds)
    BY DEF ArenaInv, ArenaTypeOK, Node
<1>3. /\ Len(nodes) \in Nat /\ Len(children) \in Nat /\ NodeIds = 1..Len(nodes)
      /\ None \notin NodeIds
      /\ \A n \in NodeIds : /\ nodes[n] \in Node
                            /\ nodes[n].base + nodes[n].count <= Len(children)
    BY NodesAreTyped DEF ArenaInv
<1> DEFINE ids == <<built>>
<1>4. /\ ids \in Seq(NodeIds) /\ Len(ids) = 1 /\ ids[1] = built
      /\ freeNodes' = freeNodes \o ids
    BY <1>1, <1>2
<1>5. ToSet(ids) = {built}
    BY <1>4 DEF ToSet
<1> HIDE DEF ids
<1>6. /\ \A k \in 1..Len(ids) : ids[k] \notin deleted
      /\ \A j, k \in 1..Len(ids) : ids[j] = ids[k] => j = k
    BY <1>1, <1>4
<1>7. /\ NodeContents("Plain", 0) \in Node
      /\ NodeContents("Plain", 0).base = 0 /\ NodeContents("Plain", 0).count = 0
    BY DEF NodeContents, Node
<1>8. /\ nodes' \in Seq(Node) /\ Len(nodes') = Len(nodes)
      /\ nodes'[built] = NodeContents("Plain", 0) /\ nodes'[target] = nodes[built]
      /\ \A n \in NodeIds : n # built /\ n # target => nodes'[n] = nodes[n]
    BY <1>1, <1>2, <1>3, <1>7
<1>9. \A n \in NodeIds : nodes'[n].base + nodes'[n].count <= Len(children)
    BY <1>3, <1>7, <1>8
<1>10. /\ labels' \in Seq(NodeIds \cup {None}) /\ funcRevision' \in Nat
       /\ \A l \in LabelIds : labels[l] # None => l \in LabelIds' /\ labels'[l] # None
    <2>1. CASE nodes[built].kind = "Control"
        <3>1. /\ labels' = [labels EXCEPT ![nodes[built].imm0] = target]
              /\ funcRevision' = funcRevision + 3
              /\ nodes[built].imm0 \in LabelIds
            BY <2>1 DEF ReplaceWithBuilt, LabelIsLive
        <3>2. QED BY <1>2, <1>3, <3>1 DEF LabelIds
    <2>2. CASE nodes[built].kind # "Control"
        BY <1>2, <2>2 DEF ReplaceWithBuilt, LabelIds
    <2>3. QED BY <2>1, <2>2
<1>11. ASSUME NEW n \in NodeIds, n \notin deleted, n \notin ToSet(ids)
       PROVE  \E m \in NodeIds :
               /\ m \notin deleted /\ nodes'[n] = nodes[m]
               /\ \A s \in (nodes[m].base + 1)..(nodes[m].base + nodes[m].count) :
                    children[s] # None => children[s] \notin ToSet(ids)
               /\ nodes[m].kind = "Branch" =>
                    nodes[m].imm0 \in LabelIds' /\ labels'[nodes[m].imm0] # None
    <2>1. \A m \in NodeIds : m \notin deleted =>
            \A s \in (nodes[m].base + 1)..(nodes[m].base + nodes[m].count) :
                children[s] # None => children[s] \notin ToSet(ids)
        BY <1>5, LiveIsUnmarked DEF ReplaceWithBuilt, Live, Kids, Slots, ArenaInv
    <2>2. \A m \in NodeIds : (m \notin deleted /\ nodes[m].kind = "Branch") =>
                nodes[m].imm0 \in LabelIds' /\ labels'[nodes[m].imm0] # None
        BY <1>10 DEF ArenaInv, TargetsAreLive
    <2>3. \E m \in {n, built} : nodes'[n] = nodes[m]
        BY <1>5, <1>8, <1>11
    <2>4. QED BY <1>1, <1>11, <2>1, <2>2, <2>3
<1>12. /\ NoRootIn(ToSet(ids)) /\ deleted' = deleted \cup ToSet(ids)
       /\ freeNodes' = freeNodes \o ids /\ ids \in Seq(NodeIds)
       /\ children' = children /\ roots' = roots
       /\ nodes' \in Seq(Node) /\ Len(nodes') = Len(nodes)
       /\ labels' \in Seq(NodeIds \cup {None}) /\ funcRevision' \in Nat
    BY <1>1, <1>4, <1>5, <1>8, <1>10
<1>13. QED
    BY <1>6, <1>9, <1>11, <1>12, DeletionKeepsInv

-----------------------------------------------------------------------------
LEMMA EditsKeepInv ==
    ASSUME ArenaInv, Edit
    PROVE  ArenaInv'
<1>1. PICK n \in NodeIds :
        \/ \E contents \in NewContents(n) : NodeSet(n, contents)
        \/ \E l \in LabelIds : BranchTargetSet(n, l)
        \/ \E k \in 1..nodes[n].count, child \in Refs : ChildSet(n, k, child)
        \/ \E kids \in Spans : ReplaceChildSpan(n, kids)
        \/ \E kids \in Spans : PromoteToBlock(n, kids)
    BY Zenon DEF Edit
<1>2. CASE \E contents \in NewContents(n) : NodeSet(n, contents)
    BY <1>2, NodeSetKeepsInv
<1>3. CASE \E l \in LabelIds : BranchTargetSet(n, l)
    BY <1>3, BranchTargetSetKeepsInv
<1>4. CASE \E k \in 1..nodes[n].count, child \in Refs : ChildSet(n, k, child)
    BY <1>4, ChildSetKeepsInv
<1>5. CASE \E kids \in Spans : ReplaceChildSpan(n, kids)
    BY <1>5, ReplaceChildSpanKeepsInv
<1>6. CASE \E kids \in Spans : PromoteToBlock(n, kids)
    BY <1>6, PromoteToBlockKeepsInv
<1>7. QED BY <1>1, <1>2, <1>3, <1>4, <1>5, <1>6

LEMMA SplicesKeepInv ==
    ASSUME ArenaInv, Splice
    PROVE  ArenaInv'
<1>1. CASE \E idx, count \in 0..Len(roots), new \in Spans : RootSplice(idx, count, new)
    BY <1>1, RootSpliceKeepsInv
<1>2. CASE \E new \in Spans, n \in NodeIds : \E idx, count \in 0..nodes[n].count :
            RegionSplice(n, idx, count, new)
    <2>1. PICK new \in Spans, n \in NodeIds : \E idx, count \in 0..nodes[n].count :
            RegionSplice(n, idx, count, new)
        BY <1>2
    <2>2. PICK idx \in 0..nodes[n].count, count \in 0..nodes[n].count :
            RegionSplice(n, idx, count, new)
        BY <2>1
    <2>3. nodes[n].count \in Nat
        BY NodesAreTyped DEF ArenaInv
    <2>4. idx \in Nat /\ count \in Nat
        BY <2>3
    <2>5. QED BY <2>2, <2>4, RegionSpliceKeepsInv
<1>3. CASE \E n \in NodeIds : \E keep \in 0..nodes[n].count : RegionTruncate(n, keep)
    <2>1. PICK n \in NodeIds : \E keep \in 0..nodes[n].count : RegionTruncate(n, keep)
        BY <1>3
    <2>2. PICK keep \in 0..nodes[n].count : RegionTruncate(n, keep)
        BY <2>1
    <2>3. nodes[n].count \in Nat
        BY NodesAreTyped DEF ArenaInv
    <2>4. QED BY <2>2, <2>3, RegionTruncateKeepsInv
<1>4. QED BY <1>1, <1>2, <1>3 DEF Splice

LEMMA DeletesKeepInv ==
    ASSUME ArenaInv, Delete
    PROVE  ArenaInv'
<1>1. CASE \E ids \in SeqOf(Live, MaxSpan + 1) : DeleteNodes(ids)
    BY <1>1, DeleteNodesKeepsInv
<1>2. CASE \E tops \in SUBSET NodeIds : DeleteForest(tops)
    BY <1>2, DeleteForestKeepsInv
<1>3. CASE \E target, built \in NodeIds : ReplaceWithBuilt(target, built)
    BY <1>3, ReplaceWithBuiltKeepsInv
<1>4. QED BY <1>1, <1>2, <1>3 DEF Delete

LEMMA StutterKeepsInv ==
    ASSUME ArenaInv, UNCHANGED arenaVars
    PROVE  ArenaInv'
<1>1. /\ nodes' = nodes /\ children' = children /\ roots' = roots /\ labels' = labels
      /\ freeNodes' = freeNodes /\ deleted' = deleted /\ funcRevision' = funcRevision
    BY DEF arenaVars
<1>2. NodeIds' = NodeIds /\ LabelIds' = LabelIds
    BY <1>1 DEF NodeIds, LabelIds
<1>3. ArenaTypeOK'
    BY <1>1, <1>2 DEF ArenaInv, ArenaTypeOK
<1>4. FreeListMatchesBitmap'
    BY <1>1 DEF ArenaInv, FreeListMatchesBitmap, ToSet
<1>5. RootsAreLive' /\ SlotsAreLive' /\ TargetsAreLive'
    BY <1>1, <1>2 DEF ArenaInv, RootsAreLive, SlotsAreLive, TargetsAreLive
<1>6. QED BY <1>3, <1>4, <1>5 DEF ArenaInv

\* The invariant is inductive.
LEMMA ArenaIsKept == ArenaSpec => []ArenaInv
<1>1. ArenaInv /\ [ArenaNext]_arenaVars => ArenaInv'
    BY BuildKeepsInv, EditsKeepInv, SplicesKeepInv, DeletesKeepInv, StutterKeepsInv
    DEF ArenaNext
<1>2. QED BY InitInv, <1>1, PTL DEF ArenaSpec

\* The invariant in the words of the runs.
LEMMA ArenaInvSays ==
    ASSUME ArenaInv
    PROVE  ReferencesAreLive /\ BranchesReachLiveLabels
<1>1. \A n : IsLive(n) <=> n \in NodeIds /\ n \notin deleted
    BY LiveIsUnmarked DEF ArenaInv
<1>2. \A k \in 1..Len(roots) : IsLive(roots[k])
    BY <1>1 DEF ArenaInv, RootsAreLive
<1>3. \A n \in Live : \A child \in Kids(n) : IsLive(child)
    BY <1>1 DEF ArenaInv, SlotsAreLive, Live, Kids, Slots
<1>4. BranchesReachLiveLabels
    BY <1>1 DEF ArenaInv, TargetsAreLive, BranchesReachLiveLabels, Live, LabelIsLive
<1>5. QED BY <1>2, <1>3, <1>4 DEF ReferencesAreLive

\* Spans stay within the child array through every build, edit, splice and
\* deletion (hot_mutate.mbt, hot_region_edit.mbt).
THEOREM ArenaTypeCorrect == ArenaSpec => []ArenaTypeOK
BY ArenaIsKept, PTL DEF ArenaInv

\* No sequence of edits and deletions leaves a root or a live node's child
\* deleted (the checks of hot_delete_detached_nodes and _forest).
THEOREM ReferencesStayLive == ArenaSpec => []ReferencesAreLive
BY ArenaIsKept, ArenaInvSays, PTL

\* No live branch is left with a label that went with a deleted forest.
THEOREM BranchesStayOnLiveLabels == ArenaSpec => []BranchesReachLiveLabels
BY ArenaIsKept, ArenaInvSays, PTL

\* The bitmap and the free list name the same nodes, each once.
THEOREM FreeListStaysExact == ArenaSpec => []FreeListMatchesBitmap
BY ArenaIsKept, PTL DEF ArenaInv

-----------------------------------------------------------------------------
(* Counting edges tells the forests *)

\* What a forest is made of: its tops and the children of its members.
LEMMA ForestIsReached ==
    ASSUME NEW tops \in SUBSET NodeIds
    PROVE  /\ Forest(tops) \in SUBSET NodeIds /\ tops \subseteq Forest(tops)
           /\ \A m \in Forest(tops) : Kids(m) \cap NodeIds \subseteq Forest(tops)
           /\ \A set \in SUBSET NodeIds :
                (tops \subseteq set /\ \A m \in set : Kids(m) \cap NodeIds \subseteq set)
                    => Forest(tops) \subseteq set
           /\ \A n \in Forest(tops) :
                n \in tops \/ \E m \in Forest(tops) : n \in Kids(m)
<1> DEFINE F == Forest(tops)
<1>1. F \in SUBSET NodeIds /\ tops \subseteq F
    BY DEF Forest
<1>2. ASSUME NEW m \in F PROVE Kids(m) \cap NodeIds \subseteq F
    BY DEF Forest
<1>3. ASSUME NEW set \in SUBSET NodeIds, tops \subseteq set,
             \A m \in set : Kids(m) \cap NodeIds \subseteq set
      PROVE  F \subseteq set
    BY <1>3 DEF Forest
<1> HIDE DEF F
<1>4. ASSUME NEW n \in F, n \notin tops, \A m \in F : n \notin Kids(m) PROVE FALSE
    <2>1. F \ {n} \in SUBSET NodeIds /\ tops \subseteq F \ {n}
        BY <1>1, <1>4
    <2>2. \A m \in F \ {n} : Kids(m) \cap NodeIds \subseteq F \ {n}
        BY <1>2, <1>4
    <2>3. F \subseteq F \ {n}
        BY <1>3, <2>1, <2>2
    <2>4. QED BY <1>4, <2>3
<1>5. QED BY <1>1, <1>2, <1>3, <1>4 DEF F

\* What the forest below some nodes of a forest has, the forest has.
LEMMA ForestBelow ==
    ASSUME NEW tops \in SUBSET NodeIds, NEW part \in SUBSET Forest(tops)
    PROVE  Forest(part) \subseteq Forest(tops)
<1>1. /\ Forest(tops) \in SUBSET NodeIds
      /\ \A m \in Forest(tops) : Kids(m) \cap NodeIds \subseteq Forest(tops)
    BY ForestIsReached
<1>2. part \in SUBSET NodeIds
    BY <1>1
<1>3. QED BY <1>1, <1>2, ForestIsReached

\* A child is at the end of an edge.
LEMMA EdgeOfChild ==
    ASSUME ArenaTypeOK, NEW marks \in SUBSET NodeIds, NEW n, NEW m \in marks, n \in Kids(m)
    PROVE  \E s : s \in Slots(m) /\ <<m, s>> \in Incoming(n, marks)
<1>1. /\ m \in NodeIds /\ Len(children) \in Nat
      /\ nodes[m].base \in Nat /\ nodes[m].count \in Nat
      /\ nodes[m].base + nodes[m].count <= Len(children)
    BY NodesAreTyped DEF ArenaTypeOK
<1>2. PICK s \in Slots(m) : children[s] = n
    BY DEF Kids
<1>3. s \in 1..Len(children)
    BY <1>1 DEF Slots
<1>4. QED BY <1>2, <1>3 DEF Incoming

\* A count of edges is zero where there is none, and one where there is one.
LEMMA EdgesCounted ==
    ASSUME ArenaTypeOK, NEW marks \in SUBSET NodeIds, NEW n \in NodeIds
    PROVE  /\ Cardinality(Incoming(n, marks)) = 0 <=> \A m \in marks : n \notin Kids(m)
           /\ Cardinality(Incoming(n, marks)) = 1 <=>
                /\ \E m \in marks : n \in Kids(m)
                /\ \A e, d \in Incoming(n, marks) : e = d
<1> DEFINE I == Incoming(n, marks)
<1>0. /\ Len(nodes) \in Nat /\ Len(children) \in Nat
      /\ NodeIds = 1..Len(nodes) /\ None \notin NodeIds
      /\ \A m \in NodeIds : nodes[m].base \in Nat /\ nodes[m].count \in Nat
                            /\ nodes[m].base + nodes[m].count <= Len(children)
    BY NodesAreTyped DEF ArenaTypeOK
<1>1. IsFiniteSet(marks) /\ IsFiniteSet(1..Len(children))
    <2>1. marks \in SUBSET Nat /\ \A m \in marks : m <= Len(nodes)
        BY <1>0
    <2>2. (1..Len(children)) \in SUBSET Nat /\ \A s \in 1..Len(children) : s <= Len(children)
        BY <1>0
    <2>3. QED BY <1>0, <2>1, <2>2, FS_BoundedSetOfNaturals
<1>2. IsFiniteSet(I)
    <2>1. IsFiniteSet(marks \X (1..Len(children)))
        BY <1>1, FS_Product
    <2>2. I \in SUBSET (marks \X (1..Len(children)))
        BY DEF Incoming
    <2>3. QED BY <2>1, <2>2, FS_Subset
<1>3. ASSUME NEW m \in marks, n \in Kids(m) PROVE I # {}
    BY <1>3, EdgeOfChild
<1>4. ASSUME NEW e \in I PROVE \E m \in marks : n \in Kids(m)
    <2>1. e[1] \in marks /\ e[2] \in Slots(e[1]) /\ children[e[2]] = n
        BY DEF Incoming
    <2>2. n # None
        BY <1>0
    <2>3. QED BY <2>1, <2>2 DEF Kids
<1> HIDE DEF I
<1>5. Cardinality(I) = 0 <=> I = {}
    BY <1>2, FS_EmptySet
<1>6. Cardinality(I) = 1 <=> \E e : I = {e}
    BY <1>2, FS_Singleton
<1>7. (\E e : I = {e}) <=> (I # {} /\ \A e, d \in I : e = d)
    OBVIOUS
<1>8. I # {} <=> \E m \in marks : n \in Kids(m)
    BY <1>3, <1>4
<1>9. QED BY <1>5, <1>6, <1>7, <1>8 DEF I

\* One edge into every node but the tops: then no node is under itself.  What
\* is below a node that is under itself is entered from there alone, so the
\* rest of the marks is closed, has the tops, and is all of the marks.
LEMMA CountedIsForest ==
    ASSUME ArenaTypeOK, NEW tops \in SUBSET NodeIds, CountsAForest(tops, Forest(tops))
    PROVE  IsAForest(tops, Forest(tops))
<1> DEFINE marks == Forest(tops)
<1>1. /\ marks \in SUBSET NodeIds /\ tops \subseteq marks
      /\ \A m \in marks : Kids(m) \cap NodeIds \subseteq marks
      /\ \A set \in SUBSET NodeIds :
            (tops \subseteq set /\ \A m \in set : Kids(m) \cap NodeIds \subseteq set)
                => marks \subseteq set
    BY ForestIsReached
<1>2. \A m \in marks : Kids(m) \subseteq NodeIds /\ Kids(m) \in SUBSET marks
    <2>1. ASSUME NEW m \in marks PROVE Kids(m) \subseteq NodeIds
        <3>1. /\ m \in NodeIds /\ Len(children) \in Nat
              /\ nodes[m].base \in Nat /\ nodes[m].count \in Nat
              /\ nodes[m].base + nodes[m].count <= Len(children)
            BY <1>1, NodesAreTyped DEF ArenaTypeOK
        <3>2. \A s \in Slots(m) : s \in 1..Len(children)
            BY <3>1 DEF Slots
        <3>3. \A s \in Slots(m) : children[s] \in NodeIds \cup {None}
            BY <3>2, ElementOfSeq DEF ArenaTypeOK
        <3>4. QED BY <3>3 DEF Kids
    <2>2. QED BY <1>1, <2>1
<1>3. \A n \in marks : IF n \in tops THEN Cardinality(Incoming(n, marks)) = 0
                        ELSE Cardinality(Incoming(n, marks)) = 1
    BY DEF CountsAForest
<1> HIDE DEF marks
<1>4. ASSUME NEW n \in marks, NEW m \in marks, n \in Kids(m)
      PROVE  n \notin tops /\ \A e, d \in Incoming(n, marks) : e = d
    <2>1. Cardinality(Incoming(n, marks)) # 0
        BY <1>1, <1>4, EdgesCounted
    <2>2. n \notin tops /\ Cardinality(Incoming(n, marks)) = 1
        BY <1>3, <2>1
    <2>3. QED BY <1>1, <2>2, EdgesCounted
<1>5. ASSUME NEW n \in marks PROVE Forest(Kids(n)) \cap (tops \cup {n}) = {}
    <2> DEFINE P == Forest(Kids(n))
    <2>1. Kids(n) \in SUBSET NodeIds /\ Kids(n) \in SUBSET marks
        BY <1>2
    <2>2. /\ P \in SUBSET NodeIds
          /\ \A x \in P : x \in Kids(n) \/ \E m \in P : x \in Kids(m)
        BY <2>1, ForestIsReached
    <2>3. P \subseteq marks
        BY <2>1, ForestBelow DEF marks
    <2> HIDE DEF P
    <2>4. \A x \in P : x \notin tops
        BY <1>4, <2>2, <2>3
    <2>5. ASSUME n \in P PROVE FALSE
        <3>1. \A x \in P : \E m \in P : x \in Kids(m)
            BY <2>2, <2>5
        <3>2. ASSUME NEW y \in marks \ P, NEW x \in Kids(y) \cap NodeIds, x \in P
              PROVE  FALSE
            <4>1. PICK m \in P : x \in Kids(m)
                BY <3>1, <3>2
            <4>2. PICK s : <<m, s>> \in Incoming(x, marks)
                BY <1>1, <2>3, <4>1, EdgeOfChild
            <4>3. PICK r : <<y, r>> \in Incoming(x, marks)
                BY <1>1, <3>2, EdgeOfChild
            <4>4. <<m, s>> = <<y, r>>
                BY <1>4, <2>3, <3>2, <4>1, <4>2, <4>3
            <4>5. QED BY <4>1, <4>4
        <3>3. marks \ P \in SUBSET NodeIds /\ tops \subseteq marks \ P
            BY <1>1, <2>4
        <3>4. \A y \in marks \ P : Kids(y) \cap NodeIds \subseteq marks \ P
            BY <1>1, <3>2
        <3>5. marks \subseteq marks \ P
            BY <1>1, <3>3, <3>4
        <3>6. QED BY <2>5, <3>5
    <2>6. QED BY <2>4, <2>5 DEF P
<1>6. ASSUME NEW m \in marks, NEW n \in marks, NEW s \in Slots(m), NEW r \in Slots(n),
             children[s] = children[r], children[s] # None
      PROVE  <<m, s>> = <<n, r>>
    <2> DEFINE x == children[s]
    <2>1. x \in Kids(m) /\ x \in Kids(n) /\ x \in marks
        BY <1>2, <1>6 DEF Kids
    <2>2. ASSUME NEW k \in marks, NEW t \in Slots(k) PROVE t \in 1..Len(children)
        <3>1. /\ k \in NodeIds /\ Len(children) \in Nat
              /\ nodes[k].base \in Nat /\ nodes[k].count \in Nat
              /\ nodes[k].base + nodes[k].count <= Len(children)
            BY <1>1, NodesAreTyped DEF ArenaTypeOK
        <3>2. t \in (nodes[k].base + 1)..(nodes[k].base + nodes[k].count)
            BY DEF Slots
        <3> HIDE DEF marks
        <3>3. QED BY <3>1, <3>2
    <2>3. <<m, s>> \in Incoming(x, marks) /\ <<n, r>> \in Incoming(x, marks)
        BY <1>6, <2>2 DEF Incoming
    <2>4. QED BY <1>4, <2>1, <2>3
<1>7. QED BY <1>5, <1>6 DEF IsAForest, marks

\* And a forest has these counts.
LEMMA ForestIsCounted ==
    ASSUME ArenaTypeOK, NEW tops \in SUBSET NodeIds, IsAForest(tops, Forest(tops))
    PROVE  CountsAForest(tops, Forest(tops))
<1> DEFINE marks == Forest(tops)
<1>1. /\ marks \in SUBSET NodeIds
      /\ \A n \in marks : n \in tops \/ \E m \in marks : n \in Kids(m)
    BY ForestIsReached
<1>2. /\ \A n \in marks : Forest(Kids(n)) \cap (tops \cup {n}) = {}
      /\ \A m, n \in marks : \A s \in Slots(m), r \in Slots(n) :
            (children[s] = children[r] /\ children[s] # None) => <<m, s>> = <<n, r>>
    BY DEF IsAForest
<1> HIDE DEF marks
<1>3. ASSUME NEW n \in marks, n \in tops PROVE Cardinality(Incoming(n, marks)) = 0
    <2>1. ASSUME NEW m \in marks, n \in Kids(m) PROVE FALSE
        <3>1. n \in Forest(Kids(m))
            BY <1>1, <2>1 DEF Forest
        <3>2. QED BY <1>2, <1>3, <3>1
    <2>2. QED BY <1>1, <2>1, EdgesCounted
<1>4. ASSUME NEW n \in marks, n \notin tops PROVE Cardinality(Incoming(n, marks)) = 1
    <2>1. \E m \in marks : n \in Kids(m)
        BY <1>1, <1>4
    <2>2. ASSUME NEW e \in Incoming(n, marks), NEW d \in Incoming(n, marks) PROVE e = d
        <3>1. /\ e = <<e[1], e[2]>> /\ d = <<d[1], d[2]>>
              /\ e[1] \in marks /\ e[2] \in Slots(e[1]) /\ children[e[2]] = n
              /\ d[1] \in marks /\ d[2] \in Slots(d[1]) /\ children[d[2]] = n
            BY DEF Incoming
        <3>2. n # None
            BY <1>1, NodesAreTyped
        <3>3. <<e[1], e[2]>> = <<d[1], d[2]>>
            BY <1>2, <3>1, <3>2
        <3>4. QED BY <3>1, <3>3
    <2>3. QED BY <1>1, <2>1, <2>2, EdgesCounted
<1>5. QED BY <1>3, <1>4 DEF CountsAForest, marks

\* The counts hot_delete_detached_forest keeps accept the forests and no other
\* graph (CountsFindForests): no shared node, no cycle, no top below a top.
THEOREM CountsTellForests == ArenaSpec => []CountsFindForests
<1>1. ArenaInv => CountsFindForests
    BY CountedIsForest, ForestIsCounted DEF ArenaInv, CountsFindForests, Live
<1>2. QED BY <1>1, ArenaIsKept, PTL

-----------------------------------------------------------------------------
(* Edits of one region and the spans of the others *)

\* Two spans that are not empty start at the same slot or have none in common:
\* a span is shared by nodes that took over the contents of one another, and
\* then cut or grown from its end.
SpansNest ==
    \A m, n \in NodeIds : (nodes[m].count > 0 /\ nodes[n].count > 0) =>
        \/ nodes[m].base = nodes[n].base
        \/ nodes[m].base + nodes[m].count <= nodes[n].base
        \/ nodes[n].base + nodes[n].count <= nodes[m].base

\* Where the new span of a node may lie: behind the array, within the span of
\* a node, or over the end of one that ends the array.
SpanHasAPlace(span) ==
    \/ span.base >= Len(children)
    \/ \E m \in NodeIds : nodes[m].base = span.base /\ span.count <= nodes[m].count
    \/ \E m \in NodeIds : nodes[m].base = span.base /\ EndsArray(m)

\* What every step does: it gives one node a span, keeps the others' or
\* empties them with their deletion, and writes, if at all, where this node
\* had its children.
OnlyEdits(n0) ==
    /\ \A m \in NodeIds' : (m # n0 /\ nodes'[m].count > 0) =>
        m \in NodeIds /\ nodes'[m].base = nodes[m].base /\ nodes'[m].count = nodes[m].count
    /\ \A m \in NodeIds : (m # n0 /\ m \notin deleted') => nodes'[m] = nodes[m]
    /\ (n0 \in NodeIds' /\ nodes'[n0].count > 0) => SpanHasAPlace(nodes'[n0])
    /\ \A s \in 1..Len(children) :
        children'[s] # children[s] => (n0 \in NodeIds /\ s \in Slots(n0))

\* A span given a place starts where another does, or has no slot of it.
LEMMA PlacedSpan ==
    ASSUME ArenaTypeOK, SpansNest, NEW span \in Node, span.count > 0, SpanHasAPlace(span),
           NEW m \in NodeIds, nodes[m].count > 0
    PROVE  \/ nodes[m].base = span.base
           \/ nodes[m].base + nodes[m].count <= span.base
           \/ span.base + span.count <= nodes[m].base
<1>0. /\ Len(children) \in Nat /\ span.base \in Nat /\ span.count \in Nat
      /\ \A k \in NodeIds : /\ nodes[k].base \in Nat /\ nodes[k].count \in Nat
                            /\ nodes[k].base + nodes[k].count <= Len(children)
    BY NodesAreTyped DEF Node
<1>1. CASE span.base >= Len(children)
    BY <1>0, <1>1
<1>2. CASE \E k \in NodeIds : nodes[k].base = span.base /\ span.count <= nodes[k].count
    <2>1. PICK k \in NodeIds : nodes[k].base = span.base /\ span.count <= nodes[k].count
        BY <1>2
    <2>2. nodes[k].count > 0
        BY <1>0, <2>1
    <2>3. \/ nodes[m].base = nodes[k].base
          \/ nodes[m].base + nodes[m].count <= nodes[k].base
          \/ nodes[k].base + nodes[k].count <= nodes[m].base
        BY <2>2 DEF SpansNest
    <2>4. QED BY <1>0, <2>1, <2>3
<1>3. CASE \E k \in NodeIds : nodes[k].base = span.base /\ EndsArray(k)
    <2>1. PICK k \in NodeIds : nodes[k].base = span.base
                              /\ nodes[k].base + nodes[k].count = Len(children)
        BY <1>3 DEF EndsArray
    <2>2. CASE nodes[k].count = 0
        BY <1>0, <2>1, <2>2
    <2>3. CASE nodes[k].count > 0
        <3>1. \/ nodes[m].base = nodes[k].base
              \/ nodes[m].base + nodes[m].count <= nodes[k].base
              \/ nodes[k].base + nodes[k].count <= nodes[m].base
            BY <2>3 DEF SpansNest
        <3>2. ~ (nodes[k].base + nodes[k].count <= nodes[m].base)
            BY <1>0, <2>1
        <3>3. QED BY <2>1, <3>1, <3>2
    <2>4. QED BY <1>0, <2>2, <2>3
<1>4. QED BY <1>1, <1>2, <1>3 DEF SpanHasAPlace

LEMMA EditsKeepNests ==
    ASSUME ArenaTypeOK, ArenaTypeOK', SpansNest, NEW n0, OnlyEdits(n0)
    PROVE  SpansNest'
<1>1. \A m \in NodeIds' : /\ nodes'[m] \in Node
                          /\ nodes'[m].base \in Nat /\ nodes'[m].count \in Nat
    <2>1. nodes' \in Seq(Node)
        BY DEF ArenaTypeOK, Node
    <2>2. \A m \in NodeIds' : nodes'[m] \in Node
        BY <2>1 DEF NodeIds
    <2>3. QED BY <2>2 DEF Node
<1> SUFFICES ASSUME NEW m \in NodeIds', NEW n \in NodeIds',
                    nodes'[m].count > 0, nodes'[n].count > 0
             PROVE  \/ nodes'[m].base = nodes'[n].base
                    \/ nodes'[m].base + nodes'[m].count <= nodes'[n].base
                    \/ nodes'[n].base + nodes'[n].count <= nodes'[m].base
    BY DEF SpansNest
<1>2. \A k \in {m, n} : k # n0 =>
        /\ k \in NodeIds /\ nodes'[k].base = nodes[k].base
        /\ nodes'[k].count = nodes[k].count /\ nodes[k].count > 0
    BY DEF OnlyEdits
<1>3. \A k \in {m, n} : k = n0 => SpanHasAPlace(nodes'[k])
    BY DEF OnlyEdits
<1>4. CASE m # n0 /\ n # n0
    BY <1>2, <1>4 DEF SpansNest
<1>5. CASE m = n0 /\ n # n0
    <2>1. \/ nodes[n].base = nodes'[m].base
          \/ nodes[n].base + nodes[n].count <= nodes'[m].base
          \/ nodes'[m].base + nodes'[m].count <= nodes[n].base
        BY <1>1, <1>2, <1>3, <1>5, PlacedSpan
    <2>2. QED BY <1>2, <1>5, <2>1
<1>6. CASE m # n0 /\ n = n0
    <2>1. \/ nodes[m].base = nodes'[n].base
          \/ nodes[m].base + nodes[m].count <= nodes'[n].base
          \/ nodes'[n].base + nodes'[n].count <= nodes[m].base
        BY <1>1, <1>2, <1>3, <1>6, PlacedSpan
    <2>2. QED BY <1>2, <1>6, <2>1
<1>7. CASE m = n0 /\ n = n0
    BY <1>7
<1>8. QED BY <1>4, <1>5, <1>6, <1>7

\* The nodes whose children EditsStayInTheirSpan sees changed.
ChildrenChange(n) ==
    /\ nodes'[n] # nodes[n] \/ children' # children
    /\ n \notin deleted'
    /\ Children(n)' # Children(n)

Changed == {n \in Live : ChildrenChange(n)}

LEMMA EditsStay ==
    ASSUME ArenaTypeOK, SpansNest, NEW n0, OnlyEdits(n0)
    PROVE  \A m, n \in Changed : m # n => Slots(m) \cap Slots(n) # {}
<1>0. /\ Len(children) \in Nat
      /\ \A k \in NodeIds : /\ nodes[k].base \in Nat /\ nodes[k].count \in Nat
                            /\ nodes[k].base + nodes[k].count <= Len(children)
    BY NodesAreTyped
\* Another node's children change only in a slot it shares with this one.
<1>1. ASSUME NEW m \in Changed, m # n0
      PROVE  /\ n0 \in NodeIds /\ m \in NodeIds
             /\ Slots(m) \cap Slots(n0) # {}
             /\ nodes[m].base = nodes[n0].base /\ nodes[m].count > 0
    <2>1. m \in NodeIds /\ nodes'[m] = nodes[m] /\ Children(m)' # Children(m)
        BY <1>1 DEF Changed, ChildrenChange, Live, OnlyEdits
    <2>2. PICK k \in 1..nodes[m].count :
            children'[nodes[m].base + k] # children[nodes[m].base + k]
        BY <2>1 DEF Children
    <2> DEFINE s == nodes[m].base + k
    <2>3. s \in 1..Len(children) /\ s \in Slots(m)
        BY <1>0, <2>1, <2>2 DEF Slots
    <2> HIDE DEF s
    <2>4. n0 \in NodeIds /\ s \in Slots(n0)
        BY <2>2, <2>3 DEF OnlyEdits, s
    <2>5. /\ nodes[m].count > 0 /\ nodes[n0].count > 0
          /\ ~ (nodes[m].base + nodes[m].count <= nodes[n0].base)
          /\ ~ (nodes[n0].base + nodes[n0].count <= nodes[m].base)
        <3>1. s \in Nat /\ nodes[m].base + 1 <= s /\ s <= nodes[m].base + nodes[m].count
            BY <1>0, <2>1, <2>3 DEF Slots
        <3>2. nodes[n0].base + 1 <= s /\ s <= nodes[n0].base + nodes[n0].count
            BY <1>0, <2>4, <3>1 DEF Slots
        <3>3. /\ nodes[m].base \in Nat /\ nodes[m].count \in Nat
              /\ nodes[n0].base \in Nat /\ nodes[n0].count \in Nat
            BY <1>0, <2>1, <2>4
        <3>4. QED BY <3>1, <3>2, <3>3
    <2>6. nodes[m].base = nodes[n0].base
        BY <2>1, <2>4, <2>5 DEF SpansNest
    <2>7. QED BY <2>1, <2>3, <2>4, <2>5, <2>6
<1> SUFFICES ASSUME NEW m \in Changed, NEW n \in Changed, m # n
             PROVE  Slots(m) \cap Slots(n) # {}
    OBVIOUS
<1>2. CASE m = n0
    BY <1>1, <1>2
<1>3. CASE n = n0
    BY <1>1, <1>3
<1>4. CASE m # n0 /\ n # n0
    <2>1. /\ m \in NodeIds /\ n \in NodeIds /\ nodes[m].base = nodes[n].base
          /\ nodes[m].count > 0 /\ nodes[n].count > 0
        BY <1>1, <1>4
    <2>2. nodes[m].base + 1 \in Slots(m) /\ nodes[m].base + 1 \in Slots(n)
        BY <1>0, <2>1 DEF Slots
    <2>3. QED BY <2>2
<1>5. QED BY <1>2, <1>3, <1>4

\* A node gets a span, the others keep theirs.
LEMMA OneNodeSet ==
    ASSUME ArenaTypeOK, NEW n \in NodeIds, NEW node,
           nodes' = [nodes EXCEPT ![n] = node],
           node.count > 0 => SpanHasAPlace(node),
           \A s \in 1..Len(children) : children'[s] # children[s] => s \in Slots(n)
    PROVE  OnlyEdits(n)
<1>1. NodeIds' = NodeIds /\ nodes'[n] = node /\ \A m \in NodeIds : m # n => nodes'[m] = nodes[m]
    <2>1. nodes \in Seq(Node) /\ Len(nodes) \in Nat /\ NodeIds = 1..Len(nodes)
        BY NodesAreTyped DEF ArenaTypeOK, Node
    <2>2. Len(nodes') = Len(nodes)
        BY <2>1
    <2>3. QED BY <2>1, <2>2 DEF NodeIds
<1>2. QED BY <1>1 DEF OnlyEdits

LEMMA BuildsEditOnly ==
    ASSUME ArenaInv, NEW kind, NEW imm0, NEW kids \in Spans, Alloc(NodeContents(kind, imm0), kids)
    PROVE  OnlyEdits(Len(nodes) + 1)
<1> DEFINE node == Attached(NodeContents(kind, imm0), kids)
           n0 == Len(nodes) + 1
<1>1. nodes' = Append(nodes, node) /\ children' = children \o kids
    BY DEF Alloc
<1>2. \A s \in 1..Len(children) : children'[s] = children[s]
    BY <1>1, AddedSpan
<1>3. node.count > 0 => node.base = Len(children)
    <2>1. CASE kids = <<>>
        BY <2>1 DEF Attached, NodeContents
    <2>2. CASE kids # <<>>
        BY <2>2 DEF Attached, WithSpan
    <2>3. QED BY <2>1, <2>2
<1>4. Len(nodes) \in Nat /\ Len(children) \in Nat /\ nodes \in Seq(Node)
    BY NodesAreTyped DEF ArenaInv, ArenaTypeOK, Node
<1> HIDE DEF node
<1>5. /\ NodeIds = 1..Len(nodes) /\ NodeIds' = 1..n0 /\ n0 \notin NodeIds
      /\ nodes'[n0] = node /\ \A m \in NodeIds : nodes'[m] = nodes[m]
    <2>1. Len(nodes') = n0 /\ nodes'[n0] = node /\ \A m \in 1..Len(nodes) : nodes'[m] = nodes[m]
        BY <1>1, <1>4
    <2>2. QED BY <1>4, <2>1 DEF NodeIds
<1>6. \A m \in NodeIds' : m # n0 => m \in NodeIds
    BY <1>4, <1>5
<1>7. nodes'[n0].count > 0 => SpanHasAPlace(nodes'[n0])
    BY <1>3, <1>4, <1>5 DEF SpanHasAPlace
<1> HIDE DEF n0
<1>8. OnlyEdits(n0)
    BY <1>2, <1>5, <1>6, <1>7 DEF OnlyEdits
<1>9. QED BY <1>8 DEF n0

LEMMA EditsEditOnly ==
    ASSUME ArenaInv, Edit
    PROVE  \E n0 : OnlyEdits(n0)
<1>0. /\ ArenaTypeOK /\ Len(children) \in Nat
      /\ \A k \in NodeIds : /\ nodes[k].base \in Nat /\ nodes[k].count \in Nat
                            /\ nodes[k].base + nodes[k].count <= Len(children)
    BY NodesAreTyped DEF ArenaInv
<1>1. PICK n \in NodeIds :
        \/ \E contents \in NewContents(n) : NodeSet(n, contents)
        \/ \E l \in LabelIds : BranchTargetSet(n, l)
        \/ \E k \in 1..nodes[n].count, child \in Refs : ChildSet(n, k, child)
        \/ \E kids \in Spans : ReplaceChildSpan(n, kids)
        \/ \E kids \in Spans : PromoteToBlock(n, kids)
    BY Zenon DEF Edit
<1>2. ASSUME NEW contents \in NewContents(n), NodeSet(n, contents) PROVE OnlyEdits(n)
    <2>1. nodes' = [nodes EXCEPT ![n] = contents] /\ children' = children
        BY <1>2 DEF NodeSet
    <2>2. ASSUME contents.count > 0 PROVE SpanHasAPlace(contents)
        <3>1. contents # NodeContents("Plain", 0)
            BY <2>2 DEF NodeContents
        <3>2. PICK m \in Kids(n) : contents = nodes[m]
            BY <3>1 DEF NewContents
        <3>3. m \in NodeIds
            <4>1. PICK s \in Slots(n) : children[s] = m /\ m # None
                BY DEF Kids
            <4>2. s \in 1..Len(children)
                BY <1>0 DEF Slots
            <4>3. QED BY <1>0, <4>1, <4>2, NodesAreTyped
        <3>4. QED BY <1>0, <3>2, <3>3 DEF SpanHasAPlace
    <2>3. QED BY <1>0, <2>1, <2>2, OneNodeSet
<1>3. ASSUME NEW l \in LabelIds, BranchTargetSet(n, l) PROVE OnlyEdits(n)
    <2> DEFINE node == [kind |-> "Branch", imm0 |-> l, base |-> nodes[n].base,
                        count |-> nodes[n].count]
    <2>1. nodes' = [nodes EXCEPT ![n] = node] /\ children' = children
        BY <1>3 DEF BranchTargetSet
    <2>2. SpanHasAPlace(node)
        BY <1>0 DEF SpanHasAPlace
    <2> HIDE DEF node
    <2>3. QED BY <1>0, <2>1, <2>2, OneNodeSet
<1>4. ASSUME NEW k \in 1..nodes[n].count, NEW child \in Refs, ChildSet(n, k, child)
      PROVE  OnlyEdits(n)
    <2>1. /\ children' = [children EXCEPT ![nodes[n].base + k] = child] /\ nodes' = nodes
          /\ NodeIds' = NodeIds
        BY <1>4 DEF ChildSet, NodeIds
    <2>2. nodes[n].base + k \in Slots(n)
        BY <1>0 DEF Slots
    <2>3. \A s \in 1..Len(children) : children'[s] # children[s] => s \in Slots(n)
        <3>1. children \in Seq(NodeIds \cup {None})
            BY <1>0 DEF ArenaTypeOK
        <3>2. QED BY <2>1, <2>2, <3>1
    <2>4. SpanHasAPlace(nodes[n])
        BY <1>0 DEF SpanHasAPlace
    <2>5. QED BY <2>1, <2>3, <2>4 DEF OnlyEdits
<1>5. ASSUME NEW kids \in Spans, NEW node, children' = children \o kids,
             nodes' = [nodes EXCEPT ![n] = node], node.base = Len(children)
      PROVE  OnlyEdits(n)
    <2>1. \A s \in 1..Len(children) : children'[s] = children[s]
        BY <1>5, AddedSpan
    <2>2. SpanHasAPlace(node)
        BY <1>0, <1>5 DEF SpanHasAPlace
    <2>3. QED BY <1>0, <1>5, <2>1, <2>2, OneNodeSet
<1>6. ASSUME NEW kids \in Spans, ReplaceChildSpan(n, kids) PROVE OnlyEdits(n)
    <2> DEFINE node == WithSpan(nodes[n], Len(children), Len(kids))
    <2>1. children' = children \o kids /\ nodes' = [nodes EXCEPT ![n] = node]
        BY <1>6 DEF ReplaceChildSpan
    <2>2. node.base = Len(children)
        BY DEF WithSpan
    <2> HIDE DEF node
    <2>3. QED BY <2>1, <2>2, <1>5
<1>7. ASSUME NEW kids \in Spans, PromoteToBlock(n, kids) PROVE OnlyEdits(n)
    <2> DEFINE node == [kind |-> "Control", imm0 |-> Len(labels) + 1,
                        base |-> Len(children), count |-> Len(kids)]
    <2>1. children' = children \o kids /\ nodes' = [nodes EXCEPT ![n] = node]
        BY <1>7 DEF PromoteToBlock
    <2>2. node.base = Len(children)
        OBVIOUS
    <2> HIDE DEF node
    <2>3. QED BY <2>1, <2>2, <1>5
<1>8. QED BY <1>1, <1>2, <1>3, <1>4, <1>6, <1>7

\* A region goes where its old slots are, over the end of the array, or behind it.
LEMMA SplicesEditOnly ==
    ASSUME ArenaInv, Splice
    PROVE  \E n0 : OnlyEdits(n0)
<1>0. /\ ArenaTypeOK /\ Len(children) \in Nat
      /\ \A k \in NodeIds : /\ nodes[k].base \in Nat /\ nodes[k].count \in Nat
                            /\ nodes[k].base + nodes[k].count <= Len(children)
    BY NodesAreTyped DEF ArenaInv
<1>1. ASSUME NEW idx \in 0..Len(roots), NEW count \in 0..Len(roots), NEW new \in Spans,
             RootSplice(idx, count, new)
      PROVE  OnlyEdits(0)
    <2>1. nodes' = nodes /\ children' = children /\ NodeIds' = NodeIds /\ 0 \notin NodeIds
        BY <1>1 DEF RootSplice, NodeIds
    <2>2. QED BY <2>1 DEF OnlyEdits
<1>2. ASSUME NEW n \in NodeIds, NEW idx \in 0..nodes[n].count, NEW count \in 0..nodes[n].count,
             NEW new \in Spans, RegionSplice(n, idx, count, new)
      PROVE  OnlyEdits(n)
    <2> DEFINE next == Spliced(Children(n), idx, count, new)
               base == SpliceBase(n, Len(next))
               node == WithSpan(nodes[n], base, Len(next))
    <2>1. children' = WrittenAt(base, next) /\ nodes' = [nodes EXCEPT ![n] = node]
        BY <1>2 DEF RegionSplice
    <2>2. Len(next) \in Nat
        <3>1. next \in Seq(NodeIds \cup {None})
            <4>1. /\ idx \in Nat /\ count \in Nat /\ idx + count <= nodes[n].count
                BY <1>0, <1>2 DEF RegionSplice
            <4>2. Children(n) \in Seq(NodeIds \cup {None}) /\ Len(Children(n)) = nodes[n].count
                <5>1. ASSUME NEW k \in 1..nodes[n].count
                      PROVE  children[nodes[n].base + k] \in NodeIds \cup {None}
                    <6>1. nodes[n].base + k \in 1..Len(children)
                        BY <1>0
                    <6>2. QED BY <1>0, <6>1, NodesAreTyped
                <5>2. Children(n) \in [1..nodes[n].count -> NodeIds \cup {None}]
                    BY <5>1 DEF Children
                <5>3. QED BY <1>0, <5>2, FunctionIsASeq
            <4>3. QED BY <4>1, <4>2, SpansHoldRefs, SplicedIsASeq
        <3> HIDE DEF next
        <3>2. QED BY <3>1
    <2> HIDE DEF next
    <2>3. /\ node.base = base /\ node.count = Len(next)
          /\ base \in Nat /\ base <= Len(children)
          /\ \/ base = Len(children)
             \/ base = nodes[n].base /\ (Len(next) <= nodes[n].count \/ EndsArray(n))
        BY <1>0 DEF WithSpan, SpliceBase
    <2>4. SpanHasAPlace(node)
        <3> HIDE DEF node, base
        <3>1. QED BY <1>0, <2>3 DEF SpanHasAPlace
    <2>5. ASSUME NEW s \in 1..Len(children), children'[s] # children[s] PROVE s \in Slots(n)
        <3> HIDE DEF base
        <3>1. children'[s] = IF s - base \in 1..Len(next) THEN next[s - base] ELSE children[s]
            <4>1. s \in 1..(IF base + Len(next) > Len(children) THEN base + Len(next)
                            ELSE Len(children))
                BY <1>0, <2>2, <2>3
            <4>2. QED BY <2>1, <4>1 DEF WrittenAt
        <3>2. s - base \in 1..Len(next)
            BY <2>5, <3>1
        <3>3. base = nodes[n].base /\ (Len(next) <= nodes[n].count \/ EndsArray(n))
            BY <1>0, <2>2, <2>3, <3>2
        <3>4. s <= nodes[n].base + nodes[n].count /\ nodes[n].base + 1 <= s
            <4>1. nodes[n].base \in Nat /\ nodes[n].count \in Nat
                BY <1>0
            <4>2. CASE Len(next) <= nodes[n].count
                BY <1>0, <2>2, <3>2, <3>3, <4>1, <4>2, SMTT(40)
            <4>3. CASE nodes[n].base + nodes[n].count = Len(children)
                BY <1>0, <2>2, <3>2, <3>3, <4>1, <4>3
            <4>4. QED BY <3>3, <4>2, <4>3 DEF EndsArray
        <3>5. QED BY <1>0, <3>4 DEF Slots
    <2> HIDE DEF node
    <2>6. QED BY <1>0, <2>1, <2>4, <2>5, OneNodeSet
<1>3. ASSUME NEW n \in NodeIds, NEW keep \in 0..nodes[n].count, RegionTruncate(n, keep)
      PROVE  OnlyEdits(n)
    <2> DEFINE node == WithSpan(nodes[n], nodes[n].base, keep)
    <2>1. nodes' = [nodes EXCEPT ![n] = node] /\ children' = children
        BY <1>3 DEF RegionTruncate
    <2>2. SpanHasAPlace(node)
        BY <1>0 DEF SpanHasAPlace, WithSpan
    <2> HIDE DEF node
    <2>3. QED BY <1>0, <2>1, <2>2, OneNodeSet
<1>4. QED BY <1>1, <1>2, <1>3 DEF Splice

LEMMA DeletesEditOnly ==
    ASSUME ArenaInv, Delete
    PROVE  \E n0 : OnlyEdits(n0)
<1>0. ArenaTypeOK /\ Len(nodes) \in Nat /\ NodeIds = 1..Len(nodes) /\ nodes \in Seq(Node)
    BY NodesAreTyped DEF ArenaInv, ArenaTypeOK, Node
<1>1. ASSUME NEW ids, Tombstoned(ids), children' = children PROVE OnlyEdits(0)
    <2>1. nodes' = [n \in NodeIds |->
            IF n \in ToSet(ids) THEN NodeContents("Plain", 0) ELSE nodes[n]]
          /\ deleted' = deleted \cup ToSet(ids)
        BY <1>1 DEF Tombstoned
    <2>2. NodeIds' = NodeIds /\ 0 \notin NodeIds
        BY <1>0, <1>1, TombstonedNodes DEF NodeIds
    <2>3. NodeContents("Plain", 0).count = 0 /\ ~ (0 > 0)
        BY DEF NodeContents
    <2>4. \A m \in NodeIds : IF m \in ToSet(ids) THEN nodes'[m].count = 0
                             ELSE nodes'[m] = nodes[m]
        BY <2>1, <2>3
    <2>5. QED BY <1>1, <2>1, <2>2, <2>3, <2>4 DEF OnlyEdits
<1>2. ASSUME NEW ids, DeleteNodes(ids) PROVE OnlyEdits(0)
    BY <1>1, <1>2 DEF DeleteNodes
<1>3. ASSUME NEW tops, DeleteForest(tops) PROVE OnlyEdits(0)
    <2>1. children' = children /\ \E ids : Tombstoned(ids)
        BY <1>3 DEF DeleteForest
    <2>2. QED BY <1>1, <2>1
<1>4. ASSUME NEW target \in NodeIds, NEW built \in NodeIds, ReplaceWithBuilt(target, built)
      PROVE  OnlyEdits(target)
    <2>1. /\ nodes' = [nodes EXCEPT ![built] = NodeContents("Plain", 0), ![target] = nodes[built]]
          /\ children' = children /\ deleted' = deleted \cup {built} /\ target # built
        BY <1>4 DEF ReplaceWithBuilt
    <2>2. /\ NodeIds' = NodeIds
          /\ nodes'[target] = nodes[built] /\ nodes'[built] = NodeContents("Plain", 0)
          /\ \A m \in NodeIds : m \notin {target, built} => nodes'[m] = nodes[m]
        <3>1. Len(nodes') = Len(nodes)
            BY <1>0, <2>1
        <3>2. QED BY <1>0, <2>1, <3>1 DEF NodeIds
    <2>3. SpanHasAPlace(nodes[built])
        <3>1. nodes[built].count \in Nat
            BY <1>0, NodesAreTyped
        <3>2. QED BY <3>1 DEF SpanHasAPlace
    <2>4. NodeContents("Plain", 0).count = 0 /\ ~ (0 > 0)
        BY DEF NodeContents
    <2>5. QED BY <2>1, <2>2, <2>3, <2>4 DEF OnlyEdits
<1>5. QED BY <1>2, <1>3, <1>4 DEF Delete

LEMMA StepsEditOnly ==
    ASSUME ArenaInv, ArenaNext
    PROVE  \E n0 : OnlyEdits(n0)
<1>1. CASE Build
    <2>1. ASSUME NEW kids \in Spans, BuildPlain(kids) \/ BuildControl(kids)
          PROVE  \E n0 : OnlyEdits(n0)
        <3>1. \/ Alloc(NodeContents("Plain", 0), kids)
              \/ Alloc(NodeContents("Control", Len(labels) + 1), kids)
            BY <2>1 DEF BuildPlain, BuildControl
        <3>2. QED BY <3>1, BuildsEditOnly
    <2>2. ASSUME NEW l \in LabelIds, BuildBranch(l)
          PROVE  \E n0 : OnlyEdits(n0)
        <3>1. Alloc(NodeContents("Branch", l), <<>>)
            BY <2>2 DEF BuildBranch
        <3>2. <<>> \in Spans
            <4>1. 0 \in 0..MaxSpan /\ <<>> \in [1..0 -> Refs]
                BY ArenaAssumption
            <4>2. QED BY <4>1 DEF Spans, SeqOf
        <3>3. QED BY <3>1, <3>2, BuildsEditOnly
    <2>3. QED BY <1>1, <2>1, <2>2 DEF Build
<1>2. QED BY <1>1, EditsEditOnly, SplicesEditOnly, DeletesEditOnly DEF ArenaNext

LEMMA NestsAreKept == ArenaSpec => [](ArenaInv /\ SpansNest)
<1>1. ArenaInit => SpansNest
    BY DEF ArenaInit, SpansNest, NodeIds
<1>2. ArenaInv /\ ArenaInv' /\ SpansNest /\ [ArenaNext]_arenaVars => SpansNest'
    <2> SUFFICES ASSUME ArenaInv, ArenaInv', SpansNest, [ArenaNext]_arenaVars PROVE SpansNest'
        OBVIOUS
    <2>1. CASE UNCHANGED arenaVars
        BY <2>1 DEF arenaVars, SpansNest, NodeIds
    <2>2. CASE ArenaNext
        BY <2>2, StepsEditOnly, EditsKeepNests DEF ArenaInv
    <2>3. QED BY <2>1, <2>2
<1>3. QED BY <1>1, <1>2, ArenaIsKept, PTL DEF ArenaSpec

\* An edit of one region never writes into another (EditsStayInTheirSpan), for
\* any arena: the children of two nodes change in one step only if these shared
\* a slot before it.
THEOREM EditsKeepToTheirSpan == ArenaSpec => EditsStayInTheirSpan
<1>1. ArenaInv /\ SpansNest /\ [ArenaNext]_arenaVars =>
        [\A m \in Live : ChildrenChange(m) =>
             \A n \in Live \ {m} : ChildrenChange(n) => Slots(m) \cap Slots(n) # {}]_arenaVars
    <2> SUFFICES ASSUME ArenaInv, SpansNest, ArenaNext
                 PROVE  \A m, n \in Changed : m # n => Slots(m) \cap Slots(n) # {}
        BY DEF Changed
    <2>1. PICK n0 : OnlyEdits(n0)
        BY StepsEditOnly
    <2>2. QED BY <2>1, EditsStay DEF ArenaInv
<1>2. QED BY <1>1, NestsAreKept, PTL DEF ArenaSpec, EditsStayInTheirSpan, ChildrenChange

\* An edit moves the revision a cached analysis is stamped with
\* (hot_bump_revision at the end of every function that edits).
THEOREM EditsMoveRevision == ArenaSpec => EditsMoveTheRevision
<1>1. ArenaInv /\ [ArenaNext]_arenaVars =>
        [\/ funcRevision' > funcRevision
         \/ /\ roots' = roots /\ labels' = labels /\ deleted' = deleted
            /\ \A n \in NodeIds : nodes'[n] = nodes[n] /\ Children(n)' = Children(n)]_arenaVars
    <2> SUFFICES ASSUME ArenaInv, ArenaNext PROVE funcRevision' > funcRevision
        OBVIOUS
    <2>0. funcRevision \in Nat
        BY DEF ArenaInv, ArenaTypeOK
    <2>1. CASE Build
        BY <2>0, <2>1 DEF Build, BuildPlain, BuildControl, BuildBranch
    <2>2. CASE Edit
        BY <2>0, <2>2
           DEF Edit, NodeSet, BranchTargetSet, ChildSet, ReplaceChildSpan, PromoteToBlock
    <2>3. CASE Splice
        BY <2>0, <2>3 DEF Splice, RootSplice, RegionSplice, RegionTruncate
    <2>4. CASE Delete
        <3>1. ASSUME NEW ids, DeleteNodes(ids) PROVE funcRevision' > funcRevision
            BY <2>0, <3>1 DEF DeleteNodes
        <3>2. ASSUME NEW tops, DeleteForest(tops) PROVE funcRevision' > funcRevision
            BY <2>0, <3>2 DEF DeleteForest
        <3>3. ASSUME NEW target, NEW built, ReplaceWithBuilt(target, built)
              PROVE  funcRevision' > funcRevision
            <4>1. funcRevision' = funcRevision + 3 \/ funcRevision' = funcRevision + 2
                BY <3>3 DEF ReplaceWithBuilt
            <4>2. QED BY <2>0, <4>1
        <3>4. QED BY <2>4, <3>1, <3>2, <3>3 DEF Delete
    <2>5. QED BY <2>1, <2>2, <2>3, <2>4 DEF ArenaNext
<1>2. QED BY <1>1, ArenaIsKept, PTL DEF ArenaSpec, EditsMoveTheRevision
=============================================================================
