-------------------------------- MODULE HMF --------------------------------
(***************************************************************************)
(* A forest that takes one sealed segment after the other.  What its       *)
(* updates carried is kept as the node tables would keep it: the last      *)
(* write of a node wins.                                                   *)
(***************************************************************************)
EXTENDS Merkle

CONSTANTS SegmentSizes,  \* leaf counts a sealed segment may have
          MaxSegments    \* bound: sealed segments in the forest

ASSUME BoundsAssumption == SegmentSizes \subseteq Nat \ {0} /\ MaxSegments \in Nat

VARIABLES forest,        \* the trees in memory
          emitted,       \* per tree, the nodes its updates carried
          segmentTrees   \* per shard, the nodes of its sealed segments

vars == <<forest, emitted, segmentTrees>>

Init ==
    /\ forest = NewHMF
    /\ emitted = [shard |-> [sh \in Shards |-> <<>>], region |-> [r \in Regions |-> <<>>],
                  global |-> <<>>]
    /\ segmentTrees = [sh \in Shards |-> <<>>]

AppendSealedSegment(sh, count) ==
    LET segment == forest.shard[sh].count
        tree == SealedTree(Digests(sh, segment, count))
        result == AppendSegment(forest, sh, segment, count, Root(tree))
        u == result.update
    IN /\ MapThenSumSet(LAMBDA s : forest.shard[s].count, Shards) < MaxSegments
       /\ forest' = result.forest
       /\ emitted' = [shard  |-> [emitted.shard EXCEPT ![sh] = Upsert(@, u.shardNodes)],
                      region |-> [emitted.region EXCEPT ![sh[1]] = Upsert(@, u.regionNodes)],
                      global |-> Upsert(emitted.global, u.globalNodes)]
       /\ segmentTrees' = [segmentTrees EXCEPT ![sh] = Append(@, NodesOf(tree))]

Next == \E sh \in Shards, count \in SegmentSizes : AppendSealedSegment(sh, count)

Spec == Init /\ [][Next]_vars
-----------------------------------------------------------------------------
\* The leaves that each tree should have, from the segments alone.
ShardLeaves(sh) ==
    [i \in 1..Len(segmentTrees[sh]) |->
        LET tree == segmentTrees[sh][i]
            count == CHOOSE n \in SegmentSizes : <<0, n - 1>> \in DOMAIN tree
                                                        /\ <<0, n>> \notin DOMAIN tree
        IN CommitSegmentRoot(sh, i - 1, count, MerkleRoot(Digests(sh, i - 1, count)))]
RegionLeaves(r) ==
    [s \in 1..NumShards |->
        LET sh == <<r, s - 1>>
            n == Len(segmentTrees[sh])
        IN <<"SHARD", sh, n, IF n = 0 THEN ZeroHash ELSE MerkleRoot(ShardLeaves(sh))>>]
GlobalLeaves ==
    [r \in 1..NumRegions |-> <<"REGION", r - 1, NumShards, MerkleRoot(RegionLeaves(r - 1))>>]

\* The incremental algorithms (frontier merging, path recomputation) compute the
\* trees that the definition over all leaves gives: roots, heights, every node in
\* memory; and a sealed segment's nodes are those of its reference tree.
MatchesReference ==
    /\ \A sh \in Shards :
         LET tree == forest.shard[sh]
         IN /\ tree.count = Len(segmentTrees[sh])
            /\ tree.count > 0 => /\ tree.root = MerkleRoot(ShardLeaves(sh))
                                 /\ tree.height = RefHeight(tree.count)
            /\ \A i \in 1..tree.count : \E count \in SegmentSizes :
                  segmentTrees[sh][i] = RefNodes(Digests(sh, i - 1, count))
    /\ \A r \in Regions : NodesOf(forest.region[r]) = RefNodes(RegionLeaves(r))
    /\ NodesOf(forest.global) = RefNodes(GlobalLeaves)

\* The frontier is what it takes to go on: one node per bit of the leaf count,
\* the largest first, each the root of a complete subtree.
FrontierIsBinary ==
    \A sh \in Shards :
        LET fs == forest.shard[sh].frontiers
            Start(i) == fs[i].index * Pow2[fs[i].level]
            End(i) == Start(i) + Pow2[fs[i].level]
        IN /\ \A i \in DOMAIN fs :
                /\ Start(i) = IF i = 1 THEN 0 ELSE End(i - 1)
                /\ i > 1 => fs[i].level < fs[i - 1].level
                /\ fs[i].hash = RootOver(ShardLeaves(sh), Start(i), Pow2[fs[i].level])
           /\ forest.shard[sh].count = IF fs = <<>> THEN 0 ELSE End(Len(fs))

\* Persisting nothing but the nodes of the updates is enough for every proof: a
\* shard's table holds its whole tree, and for every shard that has a segment the
\* region and global tables hold the current path and the siblings beside it,
\* although the initial trees were never persisted.
StoredPath(table, ref, index) ==
    \A k \in DOMAIN ref :
        LET ancestor == index \div Pow2[k[1]]
            sibling == IF ancestor % 2 = 0 THEN ancestor + 1 ELSE ancestor - 1
        IN k[2] \in {ancestor, sibling} => k \in DOMAIN table /\ table[k] = ref[k]

ProofNodesStored ==
    \A sh \in Shards :
        forest.shard[sh].count > 0 =>
            /\ emitted.shard[sh] = RefNodes(ShardLeaves(sh))
            /\ StoredPath(emitted.region[sh[1]], RefNodes(RegionLeaves(sh[1])), sh[2])
            /\ StoredPath(emitted.global, RefNodes(GlobalLeaves), sh[1])
=============================================================================
