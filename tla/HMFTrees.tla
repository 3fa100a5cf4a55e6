------------------------------ MODULE HMFTrees ------------------------------
(***************************************************************************)
(* The hierarchical Merkle forest (internal/hmf): segment, shard, region   *)
(* and global trees, and AppendSealedSegment, which carries one sealed     *)
(* segment from its shard tree up to the global root and returns the nodes *)
(* to persist.                                                             *)
(*                                                                         *)
(* Hashes are terms, so they do not collide: HashPair(l, r) is <<l, r>>, a *)
(* commitment is a longer tuple, the zero hash is <<>>.  A tree is the     *)
(* sequence of its levels; a set of nodes to persist is a function from    *)
(* <<level, index>>, counted from 0, to hashes.                            *)
(***************************************************************************)
EXTENDS Integers, Sequences, SequencesExt

CONSTANTS NumRegions, NumShards  \* NumShards per region

ASSUME SizesAssumption == {NumRegions, NumShards} \subseteq Nat \ {0}

Regions == 0..(NumRegions - 1)
Shards == Regions \X (0..(NumShards - 1))

ZeroHash == <<>>
HashPair(l, r) == <<l, r>>
Node(level, index, hash) == [level |-> level, index |-> index, hash |-> hash]

\* 1 << n
Pow2[n \in Nat] == IF n = 0 THEN 1 ELSE 2 * Pow2[n - 1]

\* bits.Len
BitsLen[n \in Nat] == IF n = 0 THEN 0 ELSE 1 + BitsLen[n \div 2]

\* Mutant: an unpaired child is paired with itself.
ParentHashDuplicates(children, i) ==
    IF 2 * i + 1 < Len(children) THEN HashPair(children[2 * i + 1], children[2 * i + 2])
                                 ELSE HashPair(children[2 * i + 1], children[2 * i + 1])

\* Parent i of a level; an unpaired child is promoted unchanged.
ParentHash(children, i) ==
    IF 2 * i + 1 < Len(children) THEN HashPair(children[2 * i + 1], children[2 * i + 2])
                                 ELSE children[2 * i + 1]

NextLevel(children) ==
    [i \in 1..((Len(children) + 1) \div 2) |-> ParentHash(children, i - 1)]

\* All the nodes of a tree, as nodes to persist.
NodesOf(levels) ==
    [k \in UNION {{l - 1} \X (0..(Len(levels[l]) - 1)) : l \in DOMAIN levels} |->
        levels[k[1] + 1][k[2] + 1]]

Root(levels) == Last(levels)[1]

-----------------------------------------------------------------------------
(* The leaves and the levels above them. *)
Build(leaves, height) ==
    LET level[h \in 1..(height + 1)] == IF h = 1 THEN leaves ELSE NextLevel(level[h - 1])
    IN level

(* Segment tree: buildInternalNode adds levels until one node is left. *)
BuildInternalNode(leaves) ==
    LET level == Build(leaves, Len(leaves))
    IN SubSeq(level, 1, Min({h \in DOMAIN level : Len(level[h]) = 1}))

SealedTree(leaves) == BuildInternalNode(leaves)

(* Region and global tree: a fixed number of leaves, height bits.Len(n - 1). *)
RegionTree(leaves) == Build(leaves, BitsLen[Len(leaves) - 1])
GlobalTree(leaves) == RegionTree(leaves)

\* recomputePath, one level: the parent on the path and the sibling beside its child.
PathUp(path, level) ==
    LET child == path.index
        parent == child \div 2
        children == path.levels[level]
        hash == ParentHash(children, parent)
        sibling == IF child % 2 = 0 THEN child + 1 ELSE child - 1
        siblings == {s \in {sibling} : s < Len(children)}
    IN [index |-> parent,
        levels |-> [path.levels EXCEPT ![level + 1][parent + 1] = hash],
        nodes |-> path.nodes \cup {<<level - 1, s, children[s + 1]>> : s \in siblings}
                    \cup {<<level, parent, hash>>}]

\* recomputePath
RecomputePath(levels, index, nodes) ==
    LET path[level \in 0..(Len(levels) - 1)] ==
            IF level = 0 THEN [index |-> index, levels |-> levels, nodes |-> nodes]
                         ELSE PathUp(path[level - 1], level)
    IN path[Len(levels) - 1]

\* Mutant: only the path is persisted.
UpdateShardRootNoSiblings(levels, index, hash) ==
    LET path == RecomputePath([levels EXCEPT ![1][index + 1] = hash], index, {<<0, index, hash>>})
    IN [path EXCEPT !.nodes = {n \in @ : n[2] = index \div 2^n[1]}]

\* updateShardRoot: set a leaf of the region tree, recompute its path.
UpdateShardRoot(levels, index, hash) ==
    RecomputePath([levels EXCEPT ![1][index + 1] = hash], index, {<<0, index, hash>>})

\* UpdateRegionRoot: the global tree has the same algorithm.
UpdateRegionRoot(levels, index, hash) == UpdateShardRoot(levels, index, hash)

-----------------------------------------------------------------------------
(* Shard tree: an append frontier. *)
EmptyShard == [count |-> 0, height |-> 0, root |-> ZeroHash, frontiers |-> <<>>]

\* mergeFrontier, one round: pop the frontier's last node if it has the level of the
\* node to merge; kept is the number of nodes that were not popped.
MergeStep(frontiers, m) ==
    LET left == frontiers[m.kept]
        up == Node(m.node.level + 1, m.node.index \div 2, HashPair(left.hash, m.node.hash))
    IN IF m.kept > 0 /\ left.level = m.node.level
       THEN [kept |-> m.kept - 1, node |-> up, nodes |-> m.nodes \cup {up}]
       ELSE m

\* mergeFrontier
MergeFrontier(frontiers, leaf) ==
    LET merge[n \in 0..Len(frontiers)] ==
            IF n = 0 THEN [kept |-> Len(frontiers), node |-> leaf, nodes |-> {leaf}]
                     ELSE MergeStep(frontiers, merge[n - 1])
        merged == merge[Len(frontiers)]
    IN [frontiers |-> Append(SubSeq(frontiers, 1, merged.kept), merged.node), nodes |-> merged.nodes]

\* materializeRootPath, one round: promote the right node to the level of the frontier
\* node on its left, pair them.
PairStep(left, path) ==
    LET right == path.root
        promoted == {Node(l, right.index \div Pow2[l - right.level], right.hash) :
                        l \in (right.level + 1)..left.level}
        up == Node(left.level + 1, left.index \div 2, HashPair(left.hash, right.hash))
    IN [root |-> up, nodes |-> path.nodes \cup promoted \cup {up}]

\* materializeRootPath: from the frontier's last node to the left.
MaterializeRootPath(frontiers, nodes) ==
    LET last == Len(frontiers)
        path[n \in 0..(last - 1)] ==
            IF n = 0 THEN [root |-> frontiers[last], nodes |-> nodes]
                     ELSE PairStep(frontiers[last - n], path[n - 1])
    IN path[last - 1]

\* Mutant: the leaf count is incremented before the leaf takes its index.
ShardAppendCountsFirst(tree, hash) ==
    LET merged == MergeFrontier(tree.frontiers, Node(0, tree.count + 1, hash))
        path == MaterializeRootPath(merged.frontiers, merged.nodes)
    IN [tree |-> [count |-> tree.count + 1, height |-> path.root.level,
                  root |-> path.root.hash, frontiers |-> merged.frontiers],
        nodes |-> {<<n.level, n.index, n.hash>> : n \in path.nodes}]

\* ShardTree.Append
ShardAppend(tree, hash) ==
    LET merged == MergeFrontier(tree.frontiers, Node(0, tree.count, hash))
        path == MaterializeRootPath(merged.frontiers, merged.nodes)
    IN [tree |-> [count |-> tree.count + 1, height |-> path.root.level,
                  root |-> path.root.hash, frontiers |-> merged.frontiers],
        nodes |-> {<<n.level, n.index, n.hash>> : n \in path.nodes}]

-----------------------------------------------------------------------------
(* Commitments bind a raw root to the identity and size of its tree. *)
CommitSegmentRootNoCount(sh, segment, count, raw) == <<"SEGMENT", sh, segment, raw>>  \* mutant
CommitSegmentRoot(sh, segment, count, raw) == <<"SEGMENT", sh, segment, count, raw>>
CommitShardRoot(sh, tree) == <<"SHARD", sh, tree.count, tree.root>>
CommitRegionRoot(r, levels) == <<"REGION", r, Len(levels[1]), Root(levels)>>
CommitGlobalRoot(levels) == <<"GLOBAL", -1, Len(levels[1]), Root(levels)>>

\* NewHMF
NewRegion(r) == RegionTree([s \in 1..NumShards |-> CommitShardRoot(<<r, s - 1>>, EmptyShard)])
NewHMF ==
    [shard  |-> [sh \in Shards |-> EmptyShard],
     region |-> [r \in Regions |-> NewRegion(r)],
     global |-> GlobalTree([r \in 1..NumRegions |-> CommitRegionRoot(r - 1, NewRegion(r - 1))])]

\* AppendSealedSegment: the new forest, and the update it returns.
AppendSegment(forest, sh, segment, count, raw) ==
    LET shard == ShardAppend(forest.shard[sh], CommitSegmentRoot(sh, segment, count, raw))
        region == UpdateShardRoot(forest.region[sh[1]], sh[2], CommitShardRoot(sh, shard.tree))
        global == UpdateRegionRoot(forest.global, sh[1], CommitRegionRoot(sh[1], region.levels))
    IN [forest |-> [shard  |-> [forest.shard EXCEPT ![sh] = shard.tree],
                    region |-> [forest.region EXCEPT ![sh[1]] = region.levels],
                    global |-> global.levels],
        update |-> [sh |-> sh, segment |-> segment, leaves |-> count, segmentRoot |-> raw,
                    index |-> forest.shard[sh].count, tree |-> shard.tree,
                    shardRoot |-> CommitShardRoot(sh, shard.tree), shardNodes |-> shard.nodes,
                    regionRoot |-> CommitRegionRoot(sh[1], region.levels), regionNodes |-> region.nodes,
                    globalRoot |-> CommitGlobalRoot(global.levels), globalNodes |-> global.nodes]]

-----------------------------------------------------------------------------
\* The digests of the logs of a segment.
Digests(sh, segment, count) == [i \in 1..count |-> <<sh, segment, i>>]

\* Upserts of nodes <<level, index, hash>> into a table keyed by <<level, index>>.
Upsert(table, nodes) ==
    LET keys == {<<n[1], n[2]>> : n \in nodes}
    IN [k \in DOMAIN table \cup keys |->
           IF k \in keys THEN (CHOOSE n \in nodes : <<n[1], n[2]>> = k)[3] ELSE table[k]]
=============================================================================
