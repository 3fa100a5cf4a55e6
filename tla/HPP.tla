-------------------------------- MODULE HPP --------------------------------
(***************************************************************************)
(* The hierarchy-aware proof planner, the proof builder and the verifier   *)
(* (internal/hpp), and the Cassandra reader they use, as operators over    *)
(* the trees of HMFTrees.                                                  *)
(*                                                                         *)
(* An address is <<region, shard, segment, leaf>>.  A tree reference is    *)
(* <<layer, region, shard, segment>> with 0 in the fields its layer does   *)
(* not use.  A list that the code keeps deduplicated and in canonical      *)
(* order is a set; a list that may hold the same reference twice is a set  *)
(* of pairs.  An operation that can fail gives the set of its results:     *)
(* one, or none when the code returns an error.                            *)
(*                                                                         *)
(* A store is what queries can see:                                        *)
(*   count   leaf count, per tree that has a metadata or state row         *)
(*   index   index of the tree's leaf in its parent, from the same row     *)
(*   sealed  segments whose row says sealed                                *)
(*   nodes   per tree, <<level, index>> -> hash                            *)
(***************************************************************************)
EXTENDS HMFTrees

CONSTANT BucketLevel  \* shardBucketLevel, 15: a bucket is a subtree of this height

ASSUME BucketAssumption == BucketLevel \in Nat

Segment == 1
Shard == 2
Region == 3
Global == 4
GlobalTreeRef == <<Global, -1, 0, 0>>

SegmentTreeRef(a) == <<Segment, a[1], a[2], a[3]>>

\* The tree that holds a tree's root as a leaf.
ParentTree(t) ==
    CASE t[1] = Segment -> <<Shard, t[2], t[3], 0>>
      [] t[1] = Shard -> <<Region, t[2], 0, 0>>
      [] t[1] = Region -> GlobalTreeRef

\* The trees on the way from the addresses to the global root.
TreesAbove(addresses) ==
    LET segments == {SegmentTreeRef(a) : a \in addresses}
        shards == {ParentTree(t) : t \in segments}
        regions == {ParentTree(t) : t \in shards}
    IN segments \cup shards \cup regions \cup {GlobalTreeRef}

-----------------------------------------------------------------------------
(* Planning *)

\* planTree, one level: the siblings of active nodes that are not active themselves.
RequiredNodes(active, width, level) ==
    LET Sibling(i) == IF i % 2 = 0 THEN i + 1 ELSE i - 1
    IN {<<level, s>> : s \in {Sibling(i) : i \in active} \cap ((0..(width - 1)) \ active)}

\* planTree, one level up: a level has half the nodes of the one below, rounded up.
PlanUp(below, level) ==
    [active |-> {i \div 2 : i \in below.active},
     width |-> (below.width + 1) \div 2,
     required |-> below.required \cup RequiredNodes(below.active, below.width, level)]

\* planTree, level by level until one node is left.
RequiredAbove(targets, leafCount) ==
    LET above[level \in 0..BitsLen[leafCount - 1]] ==
            IF level = 0 THEN [active |-> targets, width |-> leafCount, required |-> {}]
                         ELSE PlanUp(above[level - 1], level - 1)
    IN above[BitsLen[leafCount - 1]].required

\* planTree
PlanTree(tree, leafCount, targets) ==
    IF leafCount > 0 /\ targets # {} /\ targets \subseteq 0..(leafCount - 1)
    THEN {[tree |-> tree, leafCount |-> leafCount, targets |-> targets,
           required |-> RequiredAbove(targets, leafCount)]}
    ELSE {}

\* LoadHierarchyMetadata and the checks of Plan: every tree has its row, segments
\* are sealed and contain the leaves asked for, no two children share a leaf.
MetadataSuffices(addresses, store) ==
    /\ addresses # {}
    /\ TreesAbove(addresses) \subseteq DOMAIN store.count
    /\ \A a \in addresses : /\ SegmentTreeRef(a) \in store.sealed
                            /\ a[4] \in 0..(store.count[SegmentTreeRef(a)] - 1)
    /\ \A t, u \in TreesAbove(addresses) \ {GlobalTreeRef} :
          ParentTree(t) = ParentTree(u) /\ store.index[t] = store.index[u] => t = u

\* The leaves of a tree that the proof starts from.
Targets(addresses, store, tree) ==
    IF tree[1] = Segment
    THEN {a[4] : a \in {b \in addresses : SegmentTreeRef(b) = tree}}
    ELSE {store.index[t] : t \in {u \in TreesAbove(addresses) \ {GlobalTreeRef} : ParentTree(u) = tree}}

\* Planner.Plan
Plan(addresses, store) ==
    LET trees == TreesAbove(addresses)
        planned == UNION {PlanTree(t, store.count[t], Targets(addresses, store, t)) : t \in trees}
        links == {[child |-> t, parent |-> ParentTree(t), index |-> store.index[t]] :
                     t \in trees \ {GlobalTreeRef}}
    IN IF MetadataSuffices(addresses, store) /\ {p.tree : p \in planned} = trees
       THEN {[addresses |-> addresses, trees |-> planned, links |-> links]}
       ELSE {}

\* Mutant: the border is one level too low.
ShardBucketIDOffByOne(level, index) ==
    IF level < BucketLevel THEN index \div 2^(BucketLevel - level - 1)
                           ELSE index * 2^(level - BucketLevel)

\* shardBucketID
ShardBucketID(level, index) ==
    IF level < BucketLevel THEN index \div 2^(BucketLevel - level)
                           ELSE index * 2^(level - BucketLevel)

\* upperScope: the partition of a node; a segment is one partition.
UpperScope(tree, position) ==
    <<tree, IF tree[1] = Shard THEN ShardBucketID(position[1], position[2]) ELSE 0>>

\* buildRequests: the nodes to read, with their partition; target leaves of a
\* segment are read as well, since an address carries no hash.
BuildRequests(trees) ==
    UNION {{[partition |-> UpperScope(p.tree, n), position |-> n] :
               n \in p.required \cup {<<0, i>> : i \in IF p.tree[1] = Segment THEN p.targets ELSE {}}} :
           p \in trees}

-----------------------------------------------------------------------------
(* Reading and building *)

\* hmfBucketID: the partition the writer chose for a node.
HmfBucketID(tree, position) ==
    IF tree[1] # Shard THEN 0
    ELSE IF position[1] < BucketLevel THEN position[2] \div 2^(BucketLevel - position[1])
         ELSE position[2] * 2^(position[1] - BucketLevel)

\* fetchPartition finds a node only in the partition that it was written to.
Found(store, request) ==
    LET tree == request.partition[1]
    IN /\ tree \in DOMAIN store.nodes
       /\ request.position \in DOMAIN store.nodes[tree]
       /\ request.partition[2] = HmfBucketID(tree, request.position)

\* FetchProofNodes: all nodes, or an error when one is missing.
FetchProofNodes(store, requests) ==
    IF \A q \in requests : Found(store, q)
    THEN {{<<q.partition[1], q.position, store.nodes[q.partition[1]][q.position]>> : q \in requests}}
    ELSE {}

\* splitTargetLeaves
TargetRef(a) == <<SegmentTreeRef(a), <<0, a[4]>>>>
SplitTargetLeaves(plan, nodes) ==
    LET At(a) == {n \in nodes : <<n[1], n[2]>> = TargetRef(a)}
    IN [plan |-> plan,
        leaves |-> UNION {{<<a, n[3]>> : n \in At(a)} : a \in plan.addresses},
        nodes |-> nodes \ UNION {At(a) : a \in plan.addresses}]

\* Service.BuildProof
BuildProof(store, addresses) ==
    UNION {{SplitTargetLeaves(plan, nodes) : nodes \in FetchProofNodes(store, BuildRequests(plan.trees))} :
           plan \in Plan(addresses, store)}

-----------------------------------------------------------------------------
(* Verification *)

\* A map is a set of pairs <<key, value>> while it is built.
Value(pairs, key) == (CHOOSE p \in pairs : p[1] = key)[2]
AsFunction(pairs) == [key \in {p[1] : p \in pairs} |-> Value(pairs, key)]

\* committedRoot: the commitments of HMFTrees.
CommittedRoot(tree, leafCount, raw) ==
    CASE tree[1] = Segment -> CommitSegmentRoot(<<tree[2], tree[3]>>, tree[4], leafCount, raw)
      [] tree[1] = Shard -> CommitShardRoot(<<tree[2], tree[3]>>, [count |-> leafCount, root |-> raw])
      [] tree[1] = Region -> <<"REGION", tree[2], leafCount, raw>>
      [] tree[1] = Global -> <<"GLOBAL", -1, leafCount, raw>>

\* validateProofLeaves
ValidProofLeaves(proof, addresses) ==
    /\ addresses = proof.plan.addresses
    /\ \A l, k \in proof.leaves : l[1] = k[1] => l = k
    /\ {l[1] : l \in proof.leaves} = addresses

\* validateTreePlanShape: the plan is the one that planTree makes of its targets.
ValidTreePlanShape(p) == p \in PlanTree(p.tree, p.leafCount, p.targets)

\* One plan per tree; exactly the required nodes, each once.
ValidPlansAndNodes(proof) ==
    /\ \A p, q \in proof.plan.trees : p.tree = q.tree => p = q
    /\ \A p \in proof.plan.trees : ValidTreePlanShape(p)
    /\ \A n, k \in proof.nodes : <<n[1], n[2]>> = <<k[1], k[2]>> => n = k
    /\ {<<n[1], n[2]>> : n \in proof.nodes}
         = UNION {{<<p.tree, r>> : r \in p.required} : p \in proof.plan.trees}

\* The parent links lead every tree to the one global tree (validParentLink).
ValidLinks(proof) ==
    LET trees == {p.tree : p \in proof.plan.trees}
    IN /\ \A l \in proof.plan.links :
             /\ {l.child, l.parent} \subseteq trees
             /\ l.child[1] \in Segment..Region /\ l.parent = ParentTree(l.child)
       /\ \A l, k \in proof.plan.links :
             l # k => l.child # k.child /\ <<l.parent, l.index>> # <<k.parent, k.index>>
       /\ \A t \in trees : IF t[1] = Global THEN t = GlobalTreeRef
                           ELSE \E l \in proof.plan.links : l.child = t
       /\ GlobalTreeRef \in trees

\* validateTargets: what is known of a tree are exactly the targets of its plan.
ValidTargets(proof) ==
    \A p \in proof.plan.trees :
        p.targets = IF p.tree[1] = Segment
                    THEN {l[1][4] : l \in {k \in proof.leaves : SegmentTreeRef(k[1]) = p.tree}}
                    ELSE {l.index : l \in {k \in proof.plan.links : k.parent = p.tree}}

WellFormed(proof, addresses) ==
    /\ ValidProofLeaves(proof, addresses)
    /\ ValidPlansAndNodes(proof)
    /\ ValidLinks(proof)
    /\ ValidTargets(proof)

\* reconstructTreeTrace, one level up: the parents of the nodes on the way, from their
\* children, which are on the way themselves or supplied.
ReconstructUp(below, level) ==
    LET Child(i) == Value(below.known, <<level, i>>)
        Hash(i) == IF 2 * i + 1 < below.width THEN HashPair(Child(2 * i), Child(2 * i + 1))
                                              ELSE Child(2 * i)
        active == {i \div 2 : i \in below.active}
    IN [active |-> active,
        width |-> (below.width + 1) \div 2,
        known |-> below.known \cup {<<<<level + 1, i>>, Hash(i)>> : i \in active}]

\* reconstructTreeTrace, level by level: leaves are the leaves to start from with their
\* hashes, supplied the proof nodes of the tree; every node is recorded.
ReconstructAbove(leafCount, leaves, supplied) ==
    LET above[level \in 0..BitsLen[leafCount - 1]] ==
            IF level = 0
            THEN [active |-> {l[1][2] : l \in leaves}, width |-> leafCount, known |-> leaves \cup supplied]
            ELSE ReconstructUp(above[level - 1], level - 1)
    IN AsFunction(above[BitsLen[leafCount - 1]].known)

\* The nodes of one tree, from the requested leaves or from the committed roots of
\* the trees below it.
TreeTrace(proof, plan, committed) ==
    ReconstructAbove(plan.leafCount,
        IF plan.tree[1] = Segment
        THEN {<<<<0, l[1][4]>>, l[2]>> : l \in {k \in proof.leaves : SegmentTreeRef(k[1]) = plan.tree}}
        ELSE {<<<<0, l.index>>, Value(committed, l.child)>> :
                 l \in {k \in proof.plan.links : k.parent = plan.tree}},
        {<<n[2], n[3]>> : n \in {k \in proof.nodes : k[1] = plan.tree}})

\* The loop of evaluateHMFProof over the layers, one layer.
TraceLayer(proof, trace, layer) ==
    LET plans == {p \in proof.plan.trees : p.tree[1] = layer}
        Commit(p, nodes) == CommittedRoot(p.tree, p.leafCount, nodes[<<BitsLen[p.leafCount - 1], 0>>])
        traced == {<<p, TreeTrace(proof, p, trace.committed)>> : p \in plans}
    IN [nodes |-> trace.nodes \cup {<<t[1].tree, t[2]>> : t \in traced},
        committed |-> trace.committed \cup {<<t[1].tree, Commit(t[1], t[2])>> : t \in traced}]

\* The loop of evaluateHMFProof: from the segments to the global tree.
TraceLayers(proof) ==
    LET segments == TraceLayer(proof, [nodes |-> {}, committed |-> {}], Segment)
        shards == TraceLayer(proof, segments, Shard)
        regions == TraceLayer(proof, shards, Region)
    IN TraceLayer(proof, regions, Global)

\* The result of evaluateHMFProof: the nodes and the committed root of every tree.
HMFTrace(proof) ==
    LET trace == TraceLayers(proof)
    IN [nodes |-> AsFunction(trace.nodes), committed |-> AsFunction(trace.committed)]

\* TraceHMFProof: evaluated only when the proof is well formed.
TraceHMFProof(proof, addresses) == IF WellFormed(proof, addresses) THEN {HMFTrace(proof)} ELSE {}

GlobalRoot(trace) == trace.committed[GlobalTreeRef]

\* VerifyHMFProofAgainstRoot, BuildAndVerify
Verified(proof, addresses, trusted) ==
    \E trace \in TraceHMFProof(proof, addresses) : GlobalRoot(trace) = trusted

BuildAndVerify(store, addresses, trusted) ==
    {proof \in BuildProof(store, addresses) : Verified(proof, addresses, trusted)}

\* Mutant: the rebuilt proof is not compared with the trusted root.
ReferenceFromProofUnverified(store, failed, addresses, trusted) ==
    LET leafTrees == {[p EXCEPT !.required = {}] : p \in {q \in failed.plan.trees : q.tree[1] = Segment}}
        Rebuilt(fetched) == [SplitTargetLeaves(failed.plan, fetched) EXCEPT !.nodes = failed.nodes]
    IN {Rebuilt(fetched) : fetched \in FetchProofNodes(store, BuildRequests(leafTrees))}

\* ReferenceFromProof: the plan and the nodes of the failed proof around the stored
\* leaves, if that gives the trusted root.
ReferenceFromProof(store, failed, addresses, trusted) ==
    LET leafTrees == {[p EXCEPT !.required = {}] : p \in {q \in failed.plan.trees : q.tree[1] = Segment}}
        Rebuilt(fetched) == [SplitTargetLeaves(failed.plan, fetched) EXCEPT !.nodes = failed.nodes]
    IN {reference \in {Rebuilt(fetched) : fetched \in FetchProofNodes(store, BuildRequests(leafTrees))} :
           Verified(reference, addresses, trusted)}
=============================================================================
