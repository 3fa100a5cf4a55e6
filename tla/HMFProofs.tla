------------------------------ MODULE HMFProofs ------------------------------
(***************************************************************************)
(* What the forest promises, for any numbers of regions, shards and        *)
(* segments and any segment sizes: the incremental algorithms compute the  *)
(* reference trees, the frontiers are what it takes to go on, the nodes    *)
(* that the updates carry serve every proof, and a proof verifies exactly  *)
(* when it is genuine wherever it has a plan.                              *)
(***************************************************************************)
EXTENDS ForestAudit, LocalizationProofs, FiniteSetTheorems

\* The number of leaves of a sealed segment, from its nodes.
LeafCount(tree) ==
    CHOOSE n \in SegmentSizes : <<0, n - 1>> \in DOMAIN tree /\ <<0, n>> \notin DOMAIN tree

\* The leaf of segment i (from 1) in its shard tree.
Leaf(sh, i, tree) ==
    CommitSegmentRoot(sh, i - 1, LeafCount(tree), MerkleRoot(Digests(sh, i - 1, LeafCount(tree))))

ShardLeavesOf(sh, trees) == [i \in 1..Len(trees) |-> Leaf(sh, i, trees[i])]

Sealed(sh, trees) ==
    /\ IsList(trees)
    /\ \A i \in 1..Len(trees) : \E count \in SegmentSizes : trees[i] = RefNodes(Digests(sh, i - 1, count))

ForestLeaves == [sh \in Shards |-> ShardLeaves(sh)]

\* The inductive invariant: the trees are those over the leaves that the segments
\* give, and the tables hold the whole of a shard's tree, and the path of every shard
\* that has a segment.
SegmentsSealed ==
    DOMAIN segmentTrees = Shards /\ \A sh \in Shards : Sealed(sh, segmentTrees[sh])

TablesHold ==
    /\ DOMAIN emitted.shard = Shards /\ DOMAIN emitted.region = Regions
    /\ \A sh \in Shards :
          IF Len(segmentTrees[sh]) = 0
          THEN DOMAIN emitted.shard[sh] = {}
          ELSE /\ emitted.shard[sh] = RefNodes(ForestLeaves[sh])
               /\ StoredPath(emitted.region[sh[1]], RefNodes(RegionLeavesOf(ForestLeaves, sh[1])), sh[2])
               /\ StoredPath(emitted.global, RefNodes(GlobalLeavesOf(ForestLeaves)), sh[1])

IndInv == SegmentsSealed /\ ForestOver(forest, ForestLeaves) /\ TablesHold

-----------------------------------------------------------------------------
(* The tables of a region or global tree *)

\* The reference nodes are those of the tree's levels.
LEMMA RefIsTree ==
    ASSUME NEW leaves, IsList(leaves), Len(leaves) > 0
    PROVE  LET tree == RegionTree(leaves)
               H == BitsLen[Len(leaves) - 1]
           IN /\ H \in Nat
              /\ \A k \in DOMAIN RefNodes(leaves) :
                    \E l \in 0..H, i \in Nat : k = <<l, i>> /\ i < Len(tree[l + 1])
              /\ \A l \in 0..H, i \in Nat : i < Len(tree[l + 1]) =>
                    <<l, i>> \in DOMAIN RefNodes(leaves) /\ RefNodes(leaves)[<<l, i>>] = tree[l + 1][i + 1]
  <1> DEFINE n == Len(leaves)
             H == BitsLen[n - 1]
             tree == RegionTree(leaves)
             ref == RefNodes(leaves)
             Positions == UNION {{l - 1} \X (0..(Len(tree[l]) - 1)) : l \in DOMAIN tree}
  <1>1. n \in Nat /\ H \in Nat /\ ref = NodesOf(tree) /\ tree = Build(leaves, H)
    BY RegionTreeNodes, RefHeightIs DEF IsList, RegionTree
  <1>2. DOMAIN tree = 1..(H + 1) /\ \A l \in 1..(H + 1) : Len(tree[l]) \in Nat
    <2> DEFINE h == H
    <2> HIDE DEF h
    <2>1. IsList(Build(leaves, h)) /\ Len(Build(leaves, h)) = h + 1
      BY <1>1, BuildLevels DEF h
    <2>2. \A l \in 1..(h + 1) : IsList(Build(leaves, h)[l])
      BY <1>1, BuildWidths DEF h
    <2> HIDE DEF tree
    <2>3. IsList(tree) /\ Len(tree) = h + 1 /\ \A l \in 1..(h + 1) : IsList(tree[l])
      BY <1>1, <2>1, <2>2 DEF h
    <2>4. h + 1 \in Nat /\ tree = [i \in 1..(h + 1) |-> tree[i]] /\ \A l \in 1..(h + 1) : Len(tree[l]) \in Nat
      BY <2>3 DEF IsList
    <2>5. DOMAIN tree = 1..(h + 1)
      BY <2>4
    <2> QED
      BY <2>4, <2>5 DEF h
  <1>3. ref = [k \in Positions |-> tree[k[1] + 1][k[2] + 1]]
    BY <1>1 DEF NodesOf
  <1> HIDE DEF H, tree, ref
  <1>4. ASSUME NEW k \in Positions
        PROVE  \E l \in 0..H, i \in Nat : k = <<l, i>> /\ i < Len(tree[l + 1])
    <2>1. PICK l \in 1..(H + 1) : k \in {l - 1} \X (0..(Len(tree[l]) - 1))
      BY <1>2
    <2>2. PICK i \in 0..(Len(tree[l]) - 1) : k = <<l - 1, i>>
      BY <2>1
    <2>3. Len(tree[l]) \in Nat
      BY <1>2
    <2>4. l - 1 \in 0..H /\ i \in Nat /\ i < Len(tree[(l - 1) + 1]) /\ (l - 1) + 1 = l
      BY <1>1, <2>3
    <2> QED
      BY <2>2, <2>4
  <1>5. ASSUME NEW l \in 0..H, NEW i \in Nat, i < Len(tree[l + 1])
        PROVE  <<l, i>> \in Positions
    <2>1. l + 1 \in 1..(H + 1) /\ (l + 1) - 1 = l /\ l + 1 \in DOMAIN tree
      BY <1>1, <1>2
    <2>2. Len(tree[l + 1]) \in Nat
      BY <1>2, <2>1
    <2>3. i \in 0..(Len(tree[l + 1]) - 1)
      BY <1>5, <2>2
    <2>4. <<l, i>> \in {(l + 1) - 1} \X (0..(Len(tree[l + 1]) - 1))
      BY <2>1, <2>3
    <2> QED
      BY <2>1, <2>4
  <1> HIDE DEF Positions
  <1>6. ASSUME NEW l \in 0..H, NEW i \in Nat, i < Len(tree[l + 1])
        PROVE  <<l, i>> \in DOMAIN ref /\ ref[<<l, i>>] = tree[l + 1][i + 1]
    BY <1>3, <1>5, <1>6
  <1>7. DOMAIN ref = Positions
    BY <1>3
  <1> QED
    BY <1>1, <1>4, <1>6, <1>7 DEF H, tree, ref

KeysUpTo(ref, H) == \A k \in DOMAIN ref : \E l \in 0..H, i \in Nat : k = <<l, i>>

HoldsPath(table, ref, index, H) ==
    \A l \in 0..H, i \in Nat :
       <<l, i>> \in DOMAIN ref /\ i \in {Ancestor(index, l), Sib(Ancestor(index, l))} =>
          <<l, i>> \in DOMAIN table /\ table[<<l, i>>] = ref[<<l, i>>]

LEMMA StoredPathDef ==
    ASSUME NEW table, NEW ref, NEW index, NEW H, KeysUpTo(ref, H)
    PROVE  StoredPath(table, ref, index) <=> HoldsPath(table, ref, index, H)
  <1> DEFINE Hit(k) == k[2] \in {Ancestor(index, k[1]), Sib(Ancestor(index, k[1]))}
             Held(k) == k \in DOMAIN table /\ table[k] = ref[k]
  <1>1. StoredPath(table, ref, index) <=> \A k \in DOMAIN ref : Hit(k) => Held(k)
    BY DEF StoredPath, Ancestor, Sib
  <1>2. \A l, i : Hit(<<l, i>>) <=> i \in {Ancestor(index, l), Sib(Ancestor(index, l))}
    OBVIOUS
  <1> HIDE DEF Hit
  <1>3. (\A k \in DOMAIN ref : Hit(k) => Held(k)) <=>
           (\A l \in 0..H, i \in Nat : <<l, i>> \in DOMAIN ref /\ Hit(<<l, i>>) => Held(<<l, i>>))
    <2> HIDE DEF Held
    <2> QED
      BY DEF KeysUpTo
  <1> QED
    BY <1>1, <1>2, <1>3 DEF HoldsPath

\* An update leaves the table with the current path of its leaf, and with that of
\* every leaf whose path it held before.
LEMMA StoredPathKeeps ==
    ASSUME NEW leaves, IsList(leaves), Len(leaves) > 0, NEW index \in 0..(Len(leaves) - 1),
           NEW new, IsList(new), Len(new) = Len(leaves),
           \A j \in 1..Len(leaves) : j # index + 1 => new[j] = leaves[j],
           NEW nodes, CarriesPath(nodes, RegionTree(new), index, BitsLen[Len(leaves) - 1]), NEW table
    PROVE  /\ StoredPath(Upsert(table, nodes), RefNodes(new), index)
           /\ \A x \in 0..(Len(leaves) - 1) :
                 StoredPath(table, RefNodes(leaves), x) => StoredPath(Upsert(table, nodes), RefNodes(new), x)
  <1> DEFINE n == Len(leaves)
             H == BitsLen[n - 1]
             old == RegionTree(leaves)
             tree == RegionTree(new)
             ref == RefNodes(leaves)
             ref2 == RefNodes(new)
             result == Upsert(table, nodes)
             keys == {Key(m) : m \in nodes}
  <1>1. n \in Nat /\ n > 0 /\ Len(new) = n /\ H \in Nat
    BY RefHeightIs DEF IsList
  <1>2. /\ \A k \in DOMAIN ref : \E l \in 0..H, i \in Nat : k = <<l, i>> /\ i < Len(old[l + 1])
        /\ \A l \in 0..H, i \in Nat : i < Len(old[l + 1]) => <<l, i>> \in DOMAIN ref /\ ref[<<l, i>>] = old[l + 1][i + 1]
    BY RefIsTree
  <1>3. /\ \A k \in DOMAIN ref2 : \E l \in 0..H, i \in Nat : k = <<l, i>> /\ i < Len(tree[l + 1])
        /\ \A l \in 0..H, i \in Nat : i < Len(tree[l + 1]) => <<l, i>> \in DOMAIN ref2 /\ ref2[<<l, i>>] = tree[l + 1][i + 1]
    <2> DEFINE m == Len(new)
    <2>1. m = n /\ m > 0
      OBVIOUS
    <2>2. /\ \A k \in DOMAIN RefNodes(new) : \E l \in 0..BitsLen[m - 1], i \in Nat : k = <<l, i>> /\ i < Len(tree[l + 1])
          /\ \A l \in 0..BitsLen[m - 1], i \in Nat : i < Len(tree[l + 1]) => <<l, i>> \in DOMAIN RefNodes(new) /\ RefNodes(new)[<<l, i>>] = tree[l + 1][i + 1]
      BY <2>1, RefIsTree
    <2>3. BitsLen[m - 1] = H
      BY <2>1
    <2> HIDE DEF m, n, tree, H
    <2> QED
      BY <2>2, <2>3
  <1>4. SameBesides(old, tree, index, H)
    <2> DEFINE h == H
    <2>1. old = Build(leaves, h) /\ tree = Build(new, h)
      BY DEF RegionTree
    <2> HIDE DEF h, old, tree
    <2>2. h \in Nat
      BY <1>1 DEF h
    <2>3. SameBesides(Build(leaves, h), Build(new, h), index, h)
      BY <2>2, BuildOtherLeaf
    <2> QED
      BY <2>1, <2>3 DEF h
  <1>5. CarriesPath(nodes, tree, index, H)
    OBVIOUS
  <1>6. Len(tree[H + 1]) = 1
    <2> DEFINE h == H
               m == Len(new)
    <2>0. IsList(new) /\ m > 0 /\ BitsLen[m - 1] <= h /\ BitsLen[m - 1] = h
      BY <1>1
    <2>1. tree = Build(new, h)
      BY DEF RegionTree
    <2>2. h \in Nat
      BY <1>1
    <2> HIDE DEF h, tree
    <2>3. \A l \in 0..BitsLen[Len(new) - 1] : Len(Build(new, h)[l + 1]) = 1 <=> l = BitsLen[Len(new) - 1]
      BY <2>0, <2>2, TopIsSingle DEF m
    <2>4. Len(tree[h + 1]) = 1
      BY <2>0, <2>1, <2>2, <2>3 DEF m
    <2> QED
      BY <2>4 DEF h
  <1> HIDE DEF n, H, old, tree, ref, ref2
  <1>7. ASSUME NEW m \in nodes
        PROVE  \E l \in 0..H, i \in Nat : /\ i < Len(tree[l + 1]) /\ m = <<l, i, tree[l + 1][i + 1]>>
                                          /\ Key(m) = <<l, i>> /\ m[3] = tree[l + 1][i + 1]
    <2>1. PICK l \in 0..H, i \in Nat : i < Len(tree[l + 1]) /\ m = <<l, i, tree[l + 1][i + 1]>>
      BY <1>5 DEF CarriesPath
    <2> DEFINE v == tree[l + 1][i + 1]
    <2> HIDE DEF v
    <2>2. m = <<l, i, v>>
      BY <2>1 DEF v
    <2>3. Key(m) = <<l, i>> /\ m[3] = v
      BY <2>2 DEF Key
    <2> QED
      BY <2>1, <2>3 DEF v
  <1>8. \A a, b \in nodes : Key(a) = Key(b) => a[3] = b[3]
    <2> SUFFICES ASSUME NEW a \in nodes, NEW b \in nodes, Key(a) = Key(b)
                 PROVE  a[3] = b[3]
      OBVIOUS
    <2>1. PICK l \in 0..H, i \in Nat : Key(a) = <<l, i>> /\ a[3] = tree[l + 1][i + 1]
      BY <1>7
    <2>2. PICK k \in 0..H, j \in Nat : Key(b) = <<k, j>> /\ b[3] = tree[k + 1][j + 1]
      BY <1>7
    <2>3. <<l, i>> = <<k, j>>
      <3>1. Key(a) = <<l, i>> /\ Key(b) = <<k, j>>
        BY <2>1, <2>2
      <3> QED
        BY <3>1
    <2>4. k = l /\ j = i
      BY <2>3
    <2> QED
      BY <2>1, <2>2, <2>4
  <1>9. /\ DOMAIN result = DOMAIN table \cup keys
        /\ \A m \in nodes : result[Key(m)] = m[3]
        /\ \A k \in DOMAIN table : k \notin keys => result[k] = table[k]
    <2>1. /\ IsTable(result)
          /\ DOMAIN result = DOMAIN table \cup keys
          /\ \A m \in nodes : result[Key(m)] = m[3]
          /\ \A k \in DOMAIN table : k \notin keys => result[k] = table[k]
      BY <1>8, UpsertIs
    <2> QED
      BY <2>1
  <1> HIDE DEF result
  <1>10. ASSUME NEW l \in 0..H, NEW i \in Nat, <<l, i>> \in keys
         PROVE  <<l, i>> \in DOMAIN result /\ result[<<l, i>>] = tree[l + 1][i + 1]
    <2>1. PICK m \in nodes : Key(m) = <<l, i>>
      BY <1>10
    <2>2. PICK k \in 0..H, j \in Nat : Key(m) = <<k, j>> /\ m[3] = tree[k + 1][j + 1]
      BY <1>7
    <2>3. k = l /\ j = i
      BY <2>1, <2>2
    <2>4. result[<<l, i>>] = tree[l + 1][i + 1]
      BY <1>9, <2>1, <2>2, <2>3
    <2> HIDE DEF keys
    <2> QED
      BY <1>9, <1>10, <2>4
  <1>11. ASSUME NEW l \in 0..H
         PROVE  <<l, Ancestor(index, l)>> \in keys
    <2> DEFINE a == Ancestor(index, l)
               v == tree[l + 1][a + 1]
               m == <<l, a, v>>
    <2>1. m \in nodes
      BY <1>5 DEF CarriesPath
    <2> HIDE DEF a, v
    <2>2. Key(m) = <<l, a>>
      BY DEF Key
    <2> HIDE DEF m
    <2> QED
      BY <2>1, <2>2 DEF a
  <1>12. ASSUME NEW l \in 0..H, NEW i \in Nat, i < Len(tree[l + 1]), i = Sib(Ancestor(index, l))
         PROVE  <<l, i>> \in keys
    <2>1. CASE l < H
      <3> DEFINE v == tree[l + 1][i + 1]
                 m == <<l, i, v>>
      <3>1. l \in 0..(H - 1)
        BY <1>1, <2>1
      <3>2. m \in nodes
        BY <1>5, <1>12, <3>1 DEF CarriesPath
      <3> HIDE DEF v
      <3>3. Key(m) = <<l, i>>
        BY DEF Key
      <3> HIDE DEF m
      <3> QED
        BY <3>2, <3>3
    <2>2. CASE l = H
      <3>1. i = 0
        <4>1. Len(tree[l + 1]) = 1
          BY <1>6, <2>2
        <4> QED
          BY <1>12, <4>1
      <3>2. Ancestor(index, l) \in 0..(Len(old[l + 1]) - 1) /\ Len(old[l + 1]) = 1
        BY <1>4, <1>6, <2>2 DEF SameBesides
      <3>3. Ancestor(index, l) = 0
        BY <3>2
      <3> HIDE DEF keys
      <3> QED
        BY <1>11, <3>1, <3>3
    <2> QED
      BY <1>1, <2>1, <2>2
  <1> HIDE DEF keys
  <1>13. KeysUpTo(ref2, H)
    BY <1>3 DEF KeysUpTo
  <1>14. KeysUpTo(ref, H)
    BY <1>2 DEF KeysUpTo
  <1>15. ASSUME NEW l \in 0..H, NEW i \in Nat, <<l, i>> \in DOMAIN ref2
         PROVE  i < Len(tree[l + 1]) /\ ref2[<<l, i>>] = tree[l + 1][i + 1]
    <2>1. PICK k \in 0..H, j \in Nat : <<l, i>> = <<k, j>> /\ j < Len(tree[k + 1])
      BY <1>3, <1>15
    <2>2. k = l /\ j = i
      BY <2>1
    <2> QED
      BY <1>3, <2>1, <2>2
  <1>16. StoredPath(result, ref2, index)
    <2>1. ASSUME NEW l \in 0..H, NEW i \in Nat, <<l, i>> \in DOMAIN ref2,
                 i \in {Ancestor(index, l), Sib(Ancestor(index, l))}
          PROVE  <<l, i>> \in DOMAIN result /\ result[<<l, i>>] = ref2[<<l, i>>]
      <3>1. i < Len(tree[l + 1]) /\ ref2[<<l, i>>] = tree[l + 1][i + 1]
        BY <1>15, <2>1
      <3>2. <<l, i>> \in keys
        BY <1>11, <1>12, <2>1, <3>1
      <3> QED
        BY <1>10, <3>1, <3>2
    <2>2. HoldsPath(result, ref2, index, H)
      BY <2>1 DEF HoldsPath
    <2> QED
      BY <1>13, <2>2, StoredPathDef
  <1>17. ASSUME NEW x, StoredPath(table, ref, x)
         PROVE  StoredPath(result, ref2, x)
    <2>1. ASSUME NEW l \in 0..H, NEW i \in Nat, <<l, i>> \in DOMAIN ref2,
                 i \in {Ancestor(x, l), Sib(Ancestor(x, l))}
          PROVE  <<l, i>> \in DOMAIN result /\ result[<<l, i>>] = ref2[<<l, i>>]
      <3>1. i < Len(tree[l + 1]) /\ ref2[<<l, i>>] = tree[l + 1][i + 1]
        BY <1>15, <2>1
      <3>2. CASE <<l, i>> \in keys
        BY <1>10, <3>1, <3>2
      <3>3. CASE <<l, i>> \notin keys
        <4>1. i # Ancestor(index, l)
          BY <1>11, <3>3
        <4>2. Len(old[l + 1]) = Len(tree[l + 1]) /\ i < Len(old[l + 1]) /\ Ancestor(index, l) \in 0..(Len(old[l + 1]) - 1)
          BY <1>4, <3>1 DEF SameBesides
        <4>3. Len(old[l + 1]) \in Nat
          <5> DEFINE h == H
          <5>1. old = Build(leaves, h)
            BY DEF old, h, H, n, RegionTree
          <5> HIDE DEF h
          <5>2. h \in Nat /\ l + 1 \in 1..(h + 1)
            BY <1>1 DEF h
          <5>3. IsList(Build(leaves, h)[l + 1])
            BY <5>2, BuildWidths
          <5> QED
            BY <5>1, <5>3 DEF IsList
        <4>4. i \in 0..(Len(old[l + 1]) - 1)
          BY <4>2, <4>3
        <4>5. tree[l + 1][i + 1] = old[l + 1][i + 1]
          BY <1>4, <4>1, <4>4 DEF SameBesides
        <4>6. <<l, i>> \in DOMAIN ref /\ ref[<<l, i>>] = old[l + 1][i + 1]
          BY <1>2, <4>2
        <4>7. <<l, i>> \in DOMAIN table /\ table[<<l, i>>] = ref[<<l, i>>]
          <5>1. HoldsPath(table, ref, x, H)
            BY <1>14, <1>17, StoredPathDef
          <5> QED
            BY <2>1, <4>6, <5>1 DEF HoldsPath
        <4> QED
          BY <1>9, <3>1, <3>3, <4>5, <4>6, <4>7
      <3> QED
        BY <3>2, <3>3
    <2>2. HoldsPath(result, ref2, x, H)
      BY <2>1 DEF HoldsPath
    <2> QED
      BY <1>13, <2>2, StoredPathDef
  <1> QED
    BY <1>16, <1>17 DEF result, ref, ref2

-----------------------------------------------------------------------------
(* Sealed segments and the leaves they give *)

LEMMA SealedSegment ==
    ASSUME NEW sh, NEW i, NEW count \in SegmentSizes
    PROVE  LET leaves == Digests(sh, i, count)
               tree == SealedTree(leaves)
           IN /\ NodesOf(tree) = RefNodes(leaves) /\ Root(tree) = MerkleRoot(leaves)
              /\ LeafCount(RefNodes(leaves)) = count
  <1> DEFINE leaves == Digests(sh, i, count)
             keys == DOMAIN RefNodes(leaves)
  <1>1. count \in Nat /\ count > 0
    BY BoundsAssumption
  <1>2. leaves = [j \in 1..count |-> leaves[j]]
    BY DEF Digests
  <1> HIDE DEF leaves
  <1>3. IsList(leaves) /\ Len(leaves) = count
    BY <1>1, <1>2, ListIs
  <1>4. SealedTree(leaves) = RegionTree(leaves) /\ NodesOf(RegionTree(leaves)) = RefNodes(leaves)
        /\ Root(RegionTree(leaves)) = MerkleRoot(leaves)
    BY <1>1, <1>3, SealedTreeIs, RegionTreeNodes
  <1>5. keys = RefKeys(count)
    BY <1>3, RefNodesIs
  <1>6. RefHeight(count) \in Nat /\ Pow2[0] = 1
    BY <1>1, RefHeightIs, Pow2Step
  <1>7. ASSUME NEW j \in Int
        PROVE  <<0, j>> \in keys <=> j \in 0..(count - 1)
    <2> DEFINE H == RefHeight(count)
    <2> HIDE DEF H
    <2>1. keys = {k \in (0..H) \X (0..(count - 1)) : k[2] * Pow2[k[1]] < count}
      BY <1>5 DEF RefKeys, H
    <2>2. 0 \in 0..H
      BY <1>6 DEF H
    <2>3. j * Pow2[0] = j
      BY <1>6
    <2> HIDE DEF keys
    <2>4. <<0, j>> \in keys <=> j \in 0..(count - 1) /\ j * Pow2[0] < count
      BY <2>1, <2>2
    <2> QED
      BY <1>1, <2>3, <2>4
  <1> HIDE DEF keys
  <1> DEFINE Counts(n) == <<0, n - 1>> \in keys /\ <<0, n>> \notin keys
  <1>8. \A n \in SegmentSizes : Counts(n) <=> n = count
    <2> SUFFICES ASSUME NEW n \in SegmentSizes
                 PROVE  Counts(n) <=> n = count
      OBVIOUS
    <2>1. n \in Nat /\ n > 0 /\ n - 1 \in Int /\ n \in Int
      BY BoundsAssumption
    <2>2. (<<0, n - 1>> \in keys <=> n - 1 \in 0..(count - 1)) /\ (<<0, n>> \in keys <=> n \in 0..(count - 1))
      BY <1>7, <2>1
    <2> QED
      BY <1>1, <2>1, <2>2
  <1>9. LeafCount(RefNodes(leaves)) = CHOOSE n \in SegmentSizes : Counts(n)
    BY DEF LeafCount, keys
  <1> HIDE DEF Counts
  <1>10. (CHOOSE n \in SegmentSizes : Counts(n)) = count
    BY <1>8
  <1> QED
    BY <1>4, <1>9, <1>10 DEF leaves

LEMMA LeavesAre ==
    /\ \A sh \in Shards : ForestLeaves[sh] = ShardLeavesOf(sh, segmentTrees[sh]) /\ ForestLeaves[sh] = ShardLeaves(sh)
    /\ \A r \in Regions : (\A sh \in Shards : IsList(segmentTrees[sh])) => RegionLeaves(r) = RegionLeavesOf(ForestLeaves, r)
    /\ (\A sh \in Shards : IsList(segmentTrees[sh])) => GlobalLeaves = GlobalLeavesOf(ForestLeaves)
  <1>1. \A sh : ShardLeaves(sh) = ShardLeavesOf(sh, segmentTrees[sh])
    BY DEF ShardLeaves, ShardLeavesOf, Leaf, LeafCount
  <1>2. \A sh \in Shards : ForestLeaves[sh] = ShardLeaves(sh)
    BY DEF ForestLeaves
  <1>3. ASSUME \A sh \in Shards : IsList(segmentTrees[sh]), NEW r \in Regions
        PROVE  RegionLeaves(r) = RegionLeavesOf(ForestLeaves, r)
    <2>1. ASSUME NEW s \in 1..NumShards
          PROVE  /\ ForestLeaves[<<r, s - 1>>] = ShardLeaves(<<r, s - 1>>)
                 /\ Len(ForestLeaves[<<r, s - 1>>]) = Len(segmentTrees[<<r, s - 1>>])
      <3> DEFINE sh == <<r, s - 1>>
      <3>1. sh \in Shards
        BY SizesAssumption DEF Shards
      <3> HIDE DEF sh
      <3>2. ForestLeaves[sh] = ShardLeaves(sh) /\ ShardLeaves(sh) = ShardLeavesOf(sh, segmentTrees[sh])
        BY <1>1, <1>2, <3>1
      <3>3. Len(segmentTrees[sh]) \in Nat
        BY <1>3, <3>1 DEF IsList
      <3>4. Len(ShardLeavesOf(sh, segmentTrees[sh])) = Len(segmentTrees[sh])
        BY <3>3 DEF ShardLeavesOf
      <3>5. ForestLeaves[sh] = ShardLeaves(sh) /\ Len(ForestLeaves[sh]) = Len(segmentTrees[sh])
        BY <3>2, <3>4
      <3> QED
        BY <3>5 DEF sh
    <2> QED
      BY <2>1 DEF RegionLeaves, RegionLeavesOf
  <1>4. ASSUME \A sh \in Shards : IsList(segmentTrees[sh])
        PROVE  GlobalLeaves = GlobalLeavesOf(ForestLeaves)
    <2>1. ASSUME NEW r \in 1..NumRegions
          PROVE  RegionLeaves(r - 1) = RegionLeavesOf(ForestLeaves, r - 1)
      <3>1. r - 1 \in Regions
        BY SizesAssumption DEF Regions
      <3> QED
        BY <1>3, <1>4, <3>1
    <2> QED
      BY <2>1 DEF GlobalLeaves, GlobalLeavesOf
  <1> QED
    BY <1>1, <1>2, <1>3, <1>4

-----------------------------------------------------------------------------
(* The inductive invariant *)

LEMMA InitInd ==
    ASSUME Init
    PROVE  IndInv
  <1>1. \A sh \in Shards : segmentTrees[sh] = <<>>
    BY DEF Init
  <1>2. SegmentsSealed
    BY <1>1, EmptyIs DEF SegmentsSealed, Sealed, Init
  <1>3. \A sh \in Shards : ForestLeaves[sh] = <<>>
    <2> SUFFICES ASSUME NEW sh \in Shards
                 PROVE  ForestLeaves[sh] = <<>>
      OBVIOUS
    <2>1. ForestLeaves[sh] = ShardLeavesOf(sh, <<>>)
      BY <1>1, LeavesAre
    <2>2. Len(<<>>) = 0
      BY EmptyIs
    <2>3. ShardLeavesOf(sh, <<>>) = [i \in 1..0 |-> Leaf(sh, i, <<>>[i])]
      BY <2>2 DEF ShardLeavesOf
    <2>4. [i \in 1..0 |-> Leaf(sh, i, <<>>[i])] = <<>>
      OBVIOUS
    <2> QED
      BY <2>1, <2>3, <2>4
  <1>4. ForestOver(forest, ForestLeaves)
    BY <1>3, NewHMFIs DEF Init
  <1>5. TablesHold
    <2>1. \A sh \in Shards : Len(segmentTrees[sh]) = 0 /\ DOMAIN emitted.shard[sh] = {}
      BY <1>1, EmptyIs DEF Init
    <2> QED
      BY <2>1 DEF TablesHold, Init
  <1> QED
    BY <1>2, <1>4, <1>5 DEF IndInv

LEMMA StepInd ==
    ASSUME IndInv, NEW sh \in Shards, NEW count \in SegmentSizes, AppendSealedSegment(sh, count)
    PROVE  IndInv'
  <1> DEFINE trees == segmentTrees[sh]
             segment == forest.shard[sh].count
             digests == Digests(sh, segment, count)
             tree == SealedTree(digests)
             result == AppendSegment(forest, sh, segment, count, Root(tree))
             u == result.update
             hash == CommitSegmentRoot(sh, segment, count, Root(tree))
  <1>1. /\ forest' = result.forest
        /\ emitted' = [shard  |-> [emitted.shard EXCEPT ![sh] = Upsert(@, u.shardNodes)],
                       region |-> [emitted.region EXCEPT ![sh[1]] = Upsert(@, u.regionNodes)],
                       global |-> Upsert(emitted.global, u.globalNodes)]
        /\ segmentTrees' = [segmentTrees EXCEPT ![sh] = Append(@, NodesOf(tree))]
    BY DEF AppendSealedSegment
  <1>2. SegmentsSealed /\ ForestOver(forest, ForestLeaves) /\ TablesHold
    BY DEF IndInv
  <1>3. IsList(trees) /\ Len(trees) \in Nat /\ DOMAIN segmentTrees = Shards
    BY <1>2 DEF SegmentsSealed, Sealed, IsList
  <1>4. ForestLeaves[sh] = ShardLeavesOf(sh, trees) /\ IsList(ForestLeaves[sh]) /\ Len(ForestLeaves[sh]) = Len(trees)
    <2>1. ForestLeaves[sh] = [i \in 1..Len(trees) |-> Leaf(sh, i, trees[i])]
      BY LeavesAre DEF ShardLeavesOf
    <2>2. Len(ForestLeaves[sh]) = Len(trees)
      BY <1>3, <2>1
    <2>3. IsList(ForestLeaves[sh])
      BY <1>2 DEF ForestOver, ShardOver
    <2> QED
      BY <2>1, <2>2, <2>3 DEF ShardLeavesOf
  <1>5. segment = Len(trees)
    BY <1>2, <1>4 DEF ForestOver, ShardOver
  <1>6. NodesOf(tree) = RefNodes(digests) /\ Root(tree) = MerkleRoot(digests) /\ LeafCount(RefNodes(digests)) = count
    BY SealedSegment
  <1> HIDE DEF result, digests, tree
  <1>7. segmentTrees'[sh] = Append(trees, RefNodes(digests)) /\ DOMAIN segmentTrees' = Shards
        /\ \A s \in Shards : s # sh => segmentTrees'[s] = segmentTrees[s]
    BY <1>1, <1>3, <1>6
  <1>8. /\ IsList(segmentTrees'[sh]) /\ Len(segmentTrees'[sh]) = segment + 1
        /\ (\A i \in 1..segment : segmentTrees'[sh][i] = trees[i])
        /\ segmentTrees'[sh][segment + 1] = RefNodes(digests)
    <2> DEFINE e == RefNodes(digests)
    <2> HIDE DEF e
    <2>1. /\ IsList(Append(trees, e)) /\ Len(Append(trees, e)) = Len(trees) + 1
          /\ (\A i \in 1..Len(trees) : Append(trees, e)[i] = trees[i])
          /\ Append(trees, e)[Len(trees) + 1] = e
      BY <1>3, AppendIs
    <2>2. segmentTrees'[sh] = Append(trees, e)
      BY <1>7 DEF e
    <2> HIDE DEF trees, segment
    <2> QED
      BY <1>5, <2>1, <2>2 DEF e
  <1>9. SegmentsSealed'
    <2>1. ASSUME NEW s \in Shards
          PROVE  Sealed(s, segmentTrees'[s])
      <3>1. CASE s # sh
        BY <1>2, <1>7, <3>1 DEF SegmentsSealed
      <3>2. CASE s = sh
        <4>1. ASSUME NEW i \in 1..(segment + 1)
              PROVE  \E c \in SegmentSizes : segmentTrees'[sh][i] = RefNodes(Digests(sh, i - 1, c))
          <5>1. CASE i = segment + 1
            <6>1. i - 1 = segment
              BY <1>3, <1>5, <5>1
            <6>2. segmentTrees'[sh][i] = RefNodes(Digests(sh, i - 1, count))
              BY <1>8, <5>1, <6>1 DEF digests
            <6> QED
              BY <6>2
          <5>2. CASE i # segment + 1
            <6>1. i \in 1..segment
              BY <1>3, <1>5, <5>2
            <6>2. i \in 1..Len(trees)
              BY <1>5, <6>1
            <6>3. \E c \in SegmentSizes : trees[i] = RefNodes(Digests(sh, i - 1, c))
              BY <1>2, <6>2 DEF SegmentsSealed, Sealed
            <6> QED
              BY <1>8, <6>1, <6>3
          <5> QED
            BY <5>1, <5>2
        <4> HIDE DEF segment
        <4> QED
          BY <1>8, <3>2, <4>1 DEF Sealed
      <3> QED
        BY <3>1, <3>2
    <2> QED
      BY <1>7, <2>1 DEF SegmentsSealed
  <1> DEFINE more == ForestLeaves'
  <1>10. \A s \in Shards : more[s] = ShardLeavesOf(s, segmentTrees'[s])
    BY DEF ForestLeaves, ShardLeaves, ShardLeavesOf, Leaf, LeafCount
  <1> HIDE DEF more
  <1>11. \A s \in Shards : s # sh => more[s] = ForestLeaves[s]
    BY <1>7, <1>10, LeavesAre
  <1>12. more[sh] = Append(ForestLeaves[sh], hash)
    <2> DEFINE a == more[sh]
               b == Append(ForestLeaves[sh], hash)
               n == segment
    <2> HIDE DEF hash
    <2>1. IsList(b) /\ Len(b) = n + 1 /\ (\A i \in 1..n : b[i] = ForestLeaves[sh][i]) /\ b[n + 1] = hash
      BY <1>4, <1>5, AppendIs
    <2>2. n \in Nat /\ n + 1 \in Nat
      BY <1>3, <1>5
    <2>3. a = [i \in 1..(n + 1) |-> Leaf(sh, i, segmentTrees'[sh][i])]
      BY <1>8, <1>10 DEF ShardLeavesOf
    <2>4. ForestLeaves[sh] = [i \in 1..n |-> Leaf(sh, i, trees[i])]
      BY <1>4, <1>5 DEF ShardLeavesOf
    <2> HIDE DEF a, b, n
    <2>5. ASSUME NEW i \in 1..(n + 1)
          PROVE  a[i] = b[i]
      <3>1. CASE i = n + 1
        <4>1. a[i] = Leaf(sh, i, RefNodes(digests)) /\ i - 1 = segment
          BY <1>8, <2>2, <2>3, <3>1 DEF n
        <4>2. Leaf(sh, i, RefNodes(digests)) = hash
          BY <1>6, <4>1 DEF Leaf, hash, digests
        <4> QED
          BY <2>1, <3>1, <4>1, <4>2
      <3>2. CASE i # n + 1
        <4>1. i \in 1..n
          BY <2>2, <3>2
        <4>2. segmentTrees'[sh][i] = trees[i]
          BY <1>8, <4>1 DEF n
        <4> QED
          BY <2>1, <2>3, <2>4, <4>1, <4>2
      <3> QED
        BY <3>1, <3>2
    <2>6. a = [i \in 1..(n + 1) |-> a[i]]
      BY <2>3
    <2>7. b = [i \in 1..(n + 1) |-> b[i]]
      BY <2>1 DEF IsList
    <2>8. a = b
      BY <2>5, <2>6, <2>7
    <2> QED
      BY <2>8 DEF a, b
  <1>13. ForestOver(result.forest, more) /\ UpdateOver(u, sh, more)
    BY <1>2, <1>11, <1>12, AppendSegmentIs DEF result
  <1>14. TablesHold'
    <2> DEFINE r == sh[1]
               x == sh[2]
    <2>0. sh = <<r, x>> /\ r \in Regions /\ x \in 0..(NumShards - 1) /\ r \in 0..(NumRegions - 1)
      BY DEF Shards, Regions
    <2>1. /\ DOMAIN emitted'.shard = Shards /\ DOMAIN emitted'.region = Regions
          /\ emitted'.shard[sh] = Upsert(emitted.shard[sh], u.shardNodes)
          /\ \A s \in Shards : s # sh => emitted'.shard[s] = emitted.shard[s]
          /\ emitted'.region[r] = Upsert(emitted.region[r], u.regionNodes)
          /\ \A q \in Regions : q # r => emitted'.region[q] = emitted.region[q]
          /\ emitted'.global = Upsert(emitted.global, u.globalNodes)
      BY <1>1, <1>2, <2>0 DEF TablesHold
    <2>2. /\ u.shardNodes = LastPath(more[sh])
          /\ CarriesPath(u.regionNodes, RegionTree(RegionLeavesOf(more, r)), x, BitsLen[NumShards - 1])
          /\ CarriesPath(u.globalNodes, RegionTree(GlobalLeavesOf(more)), r, BitsLen[NumRegions - 1])
      BY <1>13 DEF UpdateOver
    <2>3. emitted'.shard[sh] = RefNodes(more[sh])
      <3> DEFINE t == emitted.shard[sh]
                 old == ForestLeaves[sh]
      <3>1. DOMAIN t = RefKeys(Len(old)) /\ \A k \in DOMAIN t : t[k] = RefNodes(old)[k]
        <4>1. CASE Len(trees) = 0
          <5>1. DOMAIN t = {}
            BY <1>2, <4>1 DEF TablesHold
          <5>2. RefKeys(0) = {}
            BY DEF RefKeys
          <5> QED
            BY <1>4, <4>1, <5>1, <5>2
        <4>2. CASE Len(trees) # 0
          <5>1. t = RefNodes(old)
            BY <1>2, <4>2 DEF TablesHold
          <5>2. DOMAIN RefNodes(old) = RefKeys(Len(old))
            BY RefNodesIs
          <5> QED
            BY <5>1, <5>2
        <4> QED
          BY <4>1, <4>2
      <3> HIDE DEF t, old, hash
      <3>2. Upsert(t, LastPath(Append(old, hash))) = RefNodes(Append(old, hash))
        BY <1>4, <3>1, ShardTableIs DEF old
      <3> QED
        BY <1>12, <2>1, <2>2, <3>2 DEF t, old
    <2> DEFINE R == RegionLeavesOf(ForestLeaves, r)
               R2 == RegionLeavesOf(more, r)
               G == GlobalLeavesOf(ForestLeaves)
               G2 == GlobalLeavesOf(more)
    <2>4. /\ NumShards \in Nat /\ NumShards > 0 /\ NumRegions \in Nat /\ NumRegions > 0
          /\ IsList(R) /\ Len(R) = NumShards /\ IsList(R2) /\ Len(R2) = NumShards
          /\ IsList(G) /\ Len(G) = NumRegions /\ IsList(G2) /\ Len(G2) = NumRegions
      BY UpperLeaves
    <2>5. \A q \in Regions : q # r => RegionLeavesOf(more, q) = RegionLeavesOf(ForestLeaves, q)
      <3> SUFFICES ASSUME NEW q \in Regions, q # r
                   PROVE  RegionLeavesOf(more, q) = RegionLeavesOf(ForestLeaves, q)
        OBVIOUS
      <3>1. ASSUME NEW s \in 1..NumShards
            PROVE  more[<<q, s - 1>>] = ForestLeaves[<<q, s - 1>>]
        <4>1. <<q, s - 1>> \in Shards /\ <<q, s - 1>> # sh
          <5> HIDE DEF r, x
          <5> QED
            BY <2>0, <2>4 DEF Shards
        <4> QED
          BY <1>11, <4>1
      <3> QED
        BY <3>1 DEF RegionLeavesOf
    <2>6. \A j \in 1..NumShards : j # x + 1 => R2[j] = R[j]
      <3> SUFFICES ASSUME NEW j \in 1..NumShards, j # x + 1
                   PROVE  R2[j] = R[j]
        OBVIOUS
      <3>1. more[<<r, j - 1>>] = ForestLeaves[<<r, j - 1>>]
        <4>1. <<r, j - 1>> \in Shards /\ <<r, j - 1>> # sh
          <5> HIDE DEF r, x
          <5> QED
            BY <2>0, <2>4 DEF Shards
        <4> QED
          BY <1>11, <4>1
      <3> QED
        BY <3>1 DEF RegionLeavesOf
    <2>7. \A j \in 1..NumRegions : j # r + 1 => G2[j] = G[j]
      <3> SUFFICES ASSUME NEW j \in 1..NumRegions, j # r + 1
                   PROVE  G2[j] = G[j]
        OBVIOUS
      <3>1. j - 1 \in Regions /\ j - 1 # r
        <4> HIDE DEF r, x
        <4> QED
          BY <2>0, <2>4 DEF Regions
      <3>2. RegionLeavesOf(more, j - 1) = RegionLeavesOf(ForestLeaves, j - 1)
        BY <2>5, <3>1
      <3> QED
        BY <3>2 DEF GlobalLeavesOf
    <2>8. /\ StoredPath(emitted'.region[r], RefNodes(R2), x)
          /\ \A y \in 0..(NumShards - 1) :
                StoredPath(emitted.region[r], RefNodes(R), y) => StoredPath(emitted'.region[r], RefNodes(R2), y)
      <3> DEFINE m == Len(R)
                 t == emitted.region[r]
                 nodes == u.regionNodes
      <3> HIDE DEF R, R2, r, x, t, nodes
      <3>1. m > 0 /\ x \in 0..(m - 1) /\ Len(R2) = m /\ CarriesPath(nodes, RegionTree(R2), x, BitsLen[m - 1])
            /\ \A j \in 1..m : j # x + 1 => R2[j] = R[j]
        BY <2>0, <2>2, <2>4, <2>6 DEF nodes, R2
      <3>2. /\ StoredPath(Upsert(t, nodes), RefNodes(R2), x)
            /\ \A y \in 0..(m - 1) :
                  StoredPath(t, RefNodes(R), y) => StoredPath(Upsert(t, nodes), RefNodes(R2), y)
        BY <2>4, <3>1, StoredPathKeeps
      <3> QED
        BY <2>1, <2>4, <3>2 DEF t, nodes
    <2>9. /\ StoredPath(emitted'.global, RefNodes(G2), r)
          /\ \A y \in 0..(NumRegions - 1) :
                StoredPath(emitted.global, RefNodes(G), y) => StoredPath(emitted'.global, RefNodes(G2), y)
      <3> DEFINE m == Len(G)
                 t == emitted.global
                 nodes == u.globalNodes
      <3> HIDE DEF G, G2, r, x, t, nodes
      <3>1. m > 0 /\ r \in 0..(m - 1) /\ Len(G2) = m /\ CarriesPath(nodes, RegionTree(G2), r, BitsLen[m - 1])
            /\ \A j \in 1..m : j # r + 1 => G2[j] = G[j]
        BY <2>0, <2>2, <2>4, <2>7 DEF nodes, G2
      <3>2. /\ StoredPath(Upsert(t, nodes), RefNodes(G2), r)
            /\ \A y \in 0..(m - 1) :
                  StoredPath(t, RefNodes(G), y) => StoredPath(Upsert(t, nodes), RefNodes(G2), y)
        BY <2>4, <3>1, StoredPathKeeps
      <3> QED
        BY <2>1, <2>4, <3>2 DEF t, nodes
    <2>10. ASSUME NEW s \in Shards
           PROVE  IF Len(segmentTrees'[s]) = 0
                  THEN DOMAIN emitted'.shard[s] = {}
                  ELSE /\ emitted'.shard[s] = RefNodes(more[s])
                       /\ StoredPath(emitted'.region[s[1]], RefNodes(RegionLeavesOf(more, s[1])), s[2])
                       /\ StoredPath(emitted'.global, RefNodes(G2), s[1])
      <3> DEFINE q == s[1]
                 y == s[2]
      <3>0. s = <<q, y>> /\ q \in Regions /\ y \in 0..(NumShards - 1) /\ q \in 0..(NumRegions - 1)
        BY DEF Shards, Regions
      <3>1. CASE s = sh
        <4>1. Len(segmentTrees'[s]) # 0
          BY <1>3, <1>5, <1>8, <3>1
        <4> QED
          BY <2>3, <2>8, <2>9, <3>1, <4>1
      <3>2. CASE s # sh
        <4>1. segmentTrees'[s] = segmentTrees[s] /\ emitted'.shard[s] = emitted.shard[s] /\ more[s] = ForestLeaves[s]
          BY <1>7, <1>11, <2>1, <3>2
        <4>2. CASE Len(segmentTrees[s]) = 0
          BY <1>2, <4>1, <4>2 DEF TablesHold
        <4>3. CASE Len(segmentTrees[s]) # 0
          <5>1. /\ emitted.shard[s] = RefNodes(ForestLeaves[s])
                /\ StoredPath(emitted.region[q], RefNodes(RegionLeavesOf(ForestLeaves, q)), y)
                /\ StoredPath(emitted.global, RefNodes(G), q)
            BY <1>2, <4>3 DEF TablesHold
          <5>2. StoredPath(emitted'.region[q], RefNodes(RegionLeavesOf(more, q)), y)
            <6>1. CASE q = r
              BY <2>8, <3>0, <5>1, <6>1
            <6>2. CASE q # r
              <7>1. emitted'.region[q] = emitted.region[q] /\ RegionLeavesOf(more, q) = RegionLeavesOf(ForestLeaves, q)
                <8> HIDE DEF q, r
                <8> QED
                  BY <2>1, <2>5, <3>0, <6>2
              <7> HIDE DEF q
              <7> QED
                BY <5>1, <7>1
            <6> QED
              BY <6>1, <6>2
          <5>3. StoredPath(emitted'.global, RefNodes(G2), q)
            <6> HIDE DEF q, G, G2
            <6> QED
              BY <2>9, <3>0, <5>1
          <5> HIDE DEF G, G2
          <5> QED
            BY <4>1, <4>3, <5>1, <5>2, <5>3
        <4> QED
          BY <4>2, <4>3
      <3> QED
        BY <3>1, <3>2
    <2> QED
      BY <2>1, <2>10 DEF TablesHold, more
  <1>15. ForestOver(forest, ForestLeaves)'
    BY <1>1, <1>13 DEF more
  <1> QED
    BY <1>9, <1>14, <1>15 DEF IndInv

\* After any sequence of AppendSealedSegment calls, the trees of the forest are those of
\* the segments sealed so far, and what the updates carried holds, for every shard that
\* has a segment, its whole tree and its current path with siblings in the trees above.
THEOREM IndInvHolds == Spec => []IndInv
  <1>1. Init => IndInv
    BY InitInd
  <1>2. IndInv /\ [Next]_vars => IndInv'
    <2> SUFFICES ASSUME IndInv, [Next]_vars
                 PROVE  IndInv'
      OBVIOUS
    <2>1. CASE Next
      BY <2>1, StepInd DEF Next
    <2>2. CASE UNCHANGED vars
      <3>1. forest' = forest /\ emitted' = emitted /\ segmentTrees' = segmentTrees
        BY <2>2 DEF vars
      <3>2. ForestLeaves' = ForestLeaves
        BY <3>1 DEF ForestLeaves, ShardLeaves
      <3>3. SegmentsSealed' /\ ForestOver(forest', ForestLeaves')
        BY <3>1, <3>2 DEF IndInv, SegmentsSealed
      <3>4. TablesHold'
        BY <3>1, <3>2 DEF IndInv, TablesHold
      <3> QED
        BY <3>3, <3>4 DEF IndInv
    <2> QED
      BY <2>1, <2>2
  <1> QED
    BY <1>1, <1>2, PTL DEF Spec

-----------------------------------------------------------------------------
(* What it gives *)

LEMMA IndGivesMatches == IndInv => MatchesReference
  <1> SUFFICES ASSUME IndInv
               PROVE  MatchesReference
    OBVIOUS
  <1>1. SegmentsSealed /\ ForestOver(forest, ForestLeaves)
    BY DEF IndInv
  <1>2. \A sh \in Shards : IsList(segmentTrees[sh]) /\ Len(segmentTrees[sh]) \in Nat
    BY <1>1 DEF SegmentsSealed, Sealed, IsList
  <1>3. ASSUME NEW sh \in Shards
        PROVE  LET tree == forest.shard[sh]
               IN /\ tree.count = Len(segmentTrees[sh])
                  /\ tree.count > 0 => /\ tree.root = MerkleRoot(ShardLeaves(sh))
                                       /\ tree.height = RefHeight(tree.count)
                  /\ \A i \in 1..tree.count : \E count \in SegmentSizes :
                        segmentTrees[sh][i] = RefNodes(Digests(sh, i - 1, count))
    <2>1. ShardOver(forest.shard[sh], ForestLeaves[sh]) /\ ForestLeaves[sh] = ShardLeaves(sh)
      BY <1>1, LeavesAre DEF ForestOver
    <2>2. Len(ForestLeaves[sh]) = Len(segmentTrees[sh])
      <3>1. ForestLeaves[sh] = [i \in 1..Len(segmentTrees[sh]) |-> Leaf(sh, i, segmentTrees[sh][i])]
        BY LeavesAre DEF ShardLeavesOf
      <3> QED
        BY <1>2, <3>1
    <2>3. Sealed(sh, segmentTrees[sh])
      BY <1>1 DEF SegmentsSealed
    <2> DEFINE n == Len(segmentTrees[sh])
               tree == forest.shard[sh]
    <2>4. tree.count = n /\ (n > 0 => tree.root = MerkleRoot(ShardLeaves(sh)) /\ tree.height = RefHeight(n)) /\ n \in Nat
      BY <1>2, <2>1, <2>2 DEF ShardOver
    <2>5. \A i \in 1..n : \E count \in SegmentSizes : segmentTrees[sh][i] = RefNodes(Digests(sh, i - 1, count))
      BY <2>3 DEF Sealed
    <2> HIDE DEF n, tree
    <2>6. /\ tree.count = n
          /\ tree.count > 0 => tree.root = MerkleRoot(ShardLeaves(sh)) /\ tree.height = RefHeight(tree.count)
          /\ \A i \in 1..tree.count : \E count \in SegmentSizes : segmentTrees[sh][i] = RefNodes(Digests(sh, i - 1, count))
      BY <2>4, <2>5
    <2> QED
      BY <2>6 DEF n, tree
  <1>4. ASSUME NEW r \in Regions
        PROVE  NodesOf(forest.region[r]) = RefNodes(RegionLeaves(r))
    <2>1. RegionLeaves(r) = RegionLeavesOf(ForestLeaves, r) /\ forest.region[r] = RegionTree(RegionLeavesOf(ForestLeaves, r))
      BY <1>1, <1>2, LeavesAre DEF ForestOver
    <2>2. IsList(RegionLeavesOf(ForestLeaves, r)) /\ Len(RegionLeavesOf(ForestLeaves, r)) > 0
      BY UpperLeaves
    <2> QED
      BY <2>1, <2>2, RegionTreeNodes
  <1>5. NodesOf(forest.global) = RefNodes(GlobalLeaves)
    <2>1. GlobalLeaves = GlobalLeavesOf(ForestLeaves) /\ forest.global = RegionTree(GlobalLeavesOf(ForestLeaves))
      BY <1>1, <1>2, LeavesAre DEF ForestOver
    <2>2. IsList(GlobalLeavesOf(ForestLeaves)) /\ Len(GlobalLeavesOf(ForestLeaves)) > 0
      BY UpperLeaves
    <2> QED
      BY <2>1, <2>2, RegionTreeNodes
  <1> QED
    BY <1>3, <1>4, <1>5 DEF MatchesReference

LEMMA IndGivesBinary == IndInv => FrontierIsBinary
  <1> SUFFICES ASSUME IndInv, NEW sh \in Shards
               PROVE  LET fs == forest.shard[sh].frontiers
                          Start(i) == fs[i].index * Pow2[fs[i].level]
                          End(i) == Start(i) + Pow2[fs[i].level]
                      IN /\ \A i \in DOMAIN fs :
                              /\ Start(i) = IF i = 1 THEN 0 ELSE End(i - 1)
                              /\ i > 1 => fs[i].level < fs[i - 1].level
                              /\ fs[i].hash = RootOver(ShardLeaves(sh), Start(i), Pow2[fs[i].level])
                         /\ forest.shard[sh].count = IF fs = <<>> THEN 0 ELSE End(Len(fs))
    BY DEF FrontierIsBinary
  <1> DEFINE fs == forest.shard[sh].frontiers
  <1>1. ShardOver(forest.shard[sh], ForestLeaves[sh]) /\ ForestLeaves[sh] = ShardLeaves(sh)
    BY LeavesAre DEF IndInv, ForestOver
  <1>2. Staircase(fs) /\ IsList(fs) /\ forest.shard[sh].count = IF Len(fs) = 0 THEN 0 ELSE NodeEnd(fs[Len(fs)])
    BY <1>1 DEF ShardOver, IsFrontier, Staircase
  <1>3. DOMAIN fs = 1..Len(fs) /\ (Len(fs) = 0 <=> fs = <<>>)
    <2>1. Len(fs) \in Nat /\ fs = [i \in 1..Len(fs) |-> fs[i]]
      BY <1>2 DEF IsList
    <2>2. Len(fs) = 0 => fs = <<>>
      <3> SUFFICES ASSUME Len(fs) = 0
                   PROVE  fs = <<>>
        OBVIOUS
      <3>1. IsList(<<>>) /\ Len(<<>>) = 0 /\ 1..0 = {}
        BY EmptyIs
      <3> HIDE DEF fs
      <3> QED
        BY <1>2, <3>1, ListEqual
    <2> HIDE DEF fs
    <2> QED
      BY <2>1, <2>2, EmptyIs
  <1>4. \A i \in 1..Len(fs) : fs[i].hash = RootOver(ShardLeaves(sh), NodeStart(fs[i]), Pow2[fs[i].level])
    BY <1>1 DEF ShardOver, IsFrontier
  <1> HIDE DEF fs
  <1>5. ASSUME NEW i \in 1..Len(fs)
        PROVE  /\ NodeStart(fs[i]) = IF i = 1 THEN 0 ELSE NodeEnd(fs[i - 1])
               /\ i > 1 => fs[i].level < fs[i - 1].level
    BY <1>2 DEF Staircase
  <1> QED
    BY <1>2, <1>3, <1>4, <1>5 DEF fs, NodeStart, NodeEnd

LEMMA IndGivesStored == IndInv => ProofNodesStored
  <1> SUFFICES ASSUME IndInv, NEW sh \in Shards, forest.shard[sh].count > 0
               PROVE  /\ emitted.shard[sh] = RefNodes(ShardLeaves(sh))
                      /\ StoredPath(emitted.region[sh[1]], RefNodes(RegionLeaves(sh[1])), sh[2])
                      /\ StoredPath(emitted.global, RefNodes(GlobalLeaves), sh[1])
    BY DEF ProofNodesStored
  <1>1. \A s \in Shards : IsList(segmentTrees[s]) /\ Len(segmentTrees[s]) \in Nat
    BY DEF IndInv, SegmentsSealed, Sealed, IsList
  <1>2. ShardOver(forest.shard[sh], ForestLeaves[sh]) /\ ForestLeaves[sh] = ShardLeaves(sh)
    BY LeavesAre DEF IndInv, ForestOver
  <1>3. Len(ForestLeaves[sh]) = Len(segmentTrees[sh])
    <2>1. ForestLeaves[sh] = [i \in 1..Len(segmentTrees[sh]) |-> Leaf(sh, i, segmentTrees[sh][i])]
      BY LeavesAre DEF ShardLeavesOf
    <2> QED
      BY <1>1, <2>1
  <1>4. Len(segmentTrees[sh]) # 0
    BY <1>2, <1>3 DEF ShardOver
  <1>5. sh[1] \in Regions
    BY DEF Shards
  <1>6. GlobalLeaves = GlobalLeavesOf(ForestLeaves) /\ RegionLeaves(sh[1]) = RegionLeavesOf(ForestLeaves, sh[1])
    BY <1>1, <1>5, LeavesAre
  <1> QED
    BY <1>2, <1>4, <1>6 DEF IndInv, TablesHold

\* Frontier merging and path recomputation (shard_tree.go, region_tree.go,
\* global_tree.go) give the roots, heights and nodes of the reference trees, whatever
\* the order of the segments and however many they are.
THEOREM ForestMatchesReference == Spec => []MatchesReference
  BY IndInvHolds, IndGivesMatches, PTL

\* mergeFrontier leaves one complete subtree per bit of the leaf count, the largest
\* first, side by side and with their true roots.
THEOREM FrontiersAreBinary == Spec => []FrontierIsBinary
  BY IndInvHolds, IndGivesBinary, PTL

\* The nodes that AppendSealedSegment returns are enough for every proof: the path of
\* every shard that has a segment is in the tables with its siblings, up to date.
THEOREM UpdatesCarryProofNodes == Spec => []ProofNodesStored
  BY IndInvHolds, IndGivesStored, PTL

-----------------------------------------------------------------------------
(* What the stores serve *)

\* The digests of every sealed segment.
SealedDigests ==
    [sh \in Shards |-> [i \in 1..Len(segmentTrees[sh]) |-> Digests(sh, i - 1, LeafCount(segmentTrees[sh][i]))]]

\* One sealed segment: its leaf in the shard tree, its digests, its stored nodes.
LEMMA SegmentIs ==
    ASSUME SegmentsSealed, NEW sh \in Shards, NEW i \in 0..(Len(segmentTrees[sh]) - 1)
    PROVE  LET d == SealedDigests[sh][i + 1]
           IN /\ IsList(d) /\ Len(d) > 0 /\ segmentTrees[sh][i + 1] = RefNodes(d)
              /\ \A j \in 0..(Len(d) - 1) : d[j + 1] = <<sh, i, j + 1>>
              /\ ForestLeaves[sh][i + 1] = CommitSegmentRoot(sh, i, Len(d), MerkleRoot(d))
  <1> DEFINE n == Len(segmentTrees[sh])
             tree == segmentTrees[sh][i + 1]
             d == SealedDigests[sh][i + 1]
  <1>1. Sealed(sh, segmentTrees[sh])
    BY DEF SegmentsSealed
  <1>2. n \in Nat /\ i + 1 \in 1..n /\ (i + 1) - 1 = i /\ i \in Nat
    BY <1>1 DEF Sealed, IsList
  <1>3. PICK count \in SegmentSizes : tree = RefNodes(Digests(sh, i, count))
    BY <1>1, <1>2 DEF Sealed
  <1>4. LeafCount(tree) = count
    BY <1>3, SealedSegment
  <1>5. d = Digests(sh, i, count)
    BY <1>2, <1>4 DEF SealedDigests
  <1>6. count \in Nat /\ count > 0
    BY BoundsAssumption
  <1>7. d = [j \in 1..count |-> <<sh, i, j>>]
    BY <1>5 DEF Digests
  <1> HIDE DEF d, tree
  <1>8. IsList(d) /\ Len(d) = count
    BY <1>6, <1>7, ListIs
  <1>9. \A j \in 0..(count - 1) : d[j + 1] = <<sh, i, j + 1>>
    BY <1>6, <1>7
  <1>10. ForestLeaves[sh][i + 1] = CommitSegmentRoot(sh, i, count, MerkleRoot(d))
    <2>1. ForestLeaves[sh] = [k \in 1..n |-> Leaf(sh, k, segmentTrees[sh][k])]
      BY LeavesAre DEF ShardLeavesOf
    <2>2. ForestLeaves[sh][i + 1] = Leaf(sh, i + 1, tree)
      BY <1>2, <2>1 DEF tree
    <2>3. Leaf(sh, i + 1, tree) = CommitSegmentRoot(sh, i, count, MerkleRoot(Digests(sh, i, count)))
      BY <1>2, <1>4 DEF Leaf
    <2> QED
      BY <1>5, <2>2, <2>3
  <1> QED
    BY <1>3, <1>5, <1>6, <1>8, <1>9, <1>10 DEF d, tree

LEMMA LengthsAre ==
    ASSUME SegmentsSealed, NEW sh \in Shards
    PROVE  /\ Len(segmentTrees[sh]) \in Nat /\ DOMAIN segmentTrees[sh] = 1..Len(segmentTrees[sh])
           /\ Len(ForestLeaves[sh]) = Len(segmentTrees[sh]) /\ Len(SealedDigests[sh]) = Len(segmentTrees[sh])
  <1> DEFINE n == Len(segmentTrees[sh])
  <1>1. n \in Nat /\ segmentTrees[sh] = [i \in 1..n |-> segmentTrees[sh][i]]
    BY DEF SegmentsSealed, Sealed, IsList
  <1>2. ForestLeaves[sh] = [i \in 1..n |-> Leaf(sh, i, segmentTrees[sh][i])]
    BY LeavesAre DEF ShardLeavesOf
  <1>3. SealedDigests[sh] = [i \in 1..n |-> Digests(sh, i - 1, LeafCount(segmentTrees[sh][i]))]
    BY DEF SealedDigests
  <1> HIDE DEF n
  <1>4. Len(ForestLeaves[sh]) = n /\ Len(SealedDigests[sh]) = n
    BY <1>1, <1>2, <1>3
  <1>5. DOMAIN segmentTrees[sh] = 1..n
    BY <1>1
  <1> QED
    BY <1>1, <1>4, <1>5 DEF n

LEMMA ForestCommits == SegmentsSealed => CommitsTo(ForestLeaves, SealedDigests)
  <1> SUFFICES ASSUME SegmentsSealed, NEW sh \in Shards
               PROVE  /\ Len(ForestLeaves[sh]) = Len(SealedDigests[sh])
                      /\ \A i \in 0..(Len(ForestLeaves[sh]) - 1) :
                            LET d == SealedDigests[sh][i + 1]
                            IN IsList(d) /\ ForestLeaves[sh][i + 1] = CommitSegmentRoot(sh, i, Len(d), MerkleRoot(d))
    BY DEF CommitsTo
  <1>1. Len(ForestLeaves[sh]) = Len(segmentTrees[sh]) /\ Len(SealedDigests[sh]) = Len(segmentTrees[sh])
    BY LengthsAre
  <1> QED
    BY <1>1, SegmentIs

\* The number of leaves that the store has of a segment.
LEMMA LeavesOfSegment ==
    ASSUME SegmentsSealed, NEW sh \in Shards, NEW i \in 0..(Len(segmentTrees[sh]) - 1)
    PROVE  LET d == SealedDigests[sh][i + 1]
               tree == segmentTrees[sh][i + 1]
           IN /\ Cardinality({k \in DOMAIN tree : k[1] = 0}) = Len(d)
              /\ \A j \in 0..(Len(d) - 1) : <<0, j>> \in DOMAIN tree /\ tree[<<0, j>>] = d[j + 1]
  <1> DEFINE d == SealedDigests[sh][i + 1]
             tree == segmentTrees[sh][i + 1]
             n == Len(d)
             H == BitsLen[n - 1]
             S == {k \in DOMAIN tree : k[1] = 0}
  <1>1. IsList(d) /\ n > 0 /\ tree = RefNodes(d)
    BY SegmentIs
  <1>2. n \in Nat
    BY <1>1 DEF IsList
  <1> HIDE DEF d
  <1>3. /\ H \in Nat
        /\ \A k \in DOMAIN tree : \E l \in 0..H, j \in Nat : k = <<l, j>> /\ j < Len(RegionTree(d)[l + 1])
        /\ \A l \in 0..H, j \in Nat : j < Len(RegionTree(d)[l + 1]) =>
              <<l, j>> \in DOMAIN tree /\ tree[<<l, j>>] = RegionTree(d)[l + 1][j + 1]
    <2> DEFINE ref == RefNodes(d)
    <2>1. /\ H \in Nat
          /\ \A k \in DOMAIN ref : \E l \in 0..H, j \in Nat : k = <<l, j>> /\ j < Len(RegionTree(d)[l + 1])
          /\ \A l \in 0..H, j \in Nat : j < Len(RegionTree(d)[l + 1]) =>
                <<l, j>> \in DOMAIN ref /\ ref[<<l, j>>] = RegionTree(d)[l + 1][j + 1]
      BY <1>1, RefIsTree
    <2> HIDE DEF tree, ref, H
    <2>2. tree = ref
      BY <1>1 DEF ref
    <2> QED
      BY <2>1, <2>2
  <1>4. RegionTree(d)[1] = d /\ 0 + 1 = 1
    BY <1>1, RegionTreeNodes
  <1> HIDE DEF tree, n, H
  <1>5. \A j \in 0..(n - 1) : <<0, j>> \in DOMAIN tree /\ tree[<<0, j>>] = d[j + 1]
    <2> SUFFICES ASSUME NEW j \in 0..(n - 1)
                 PROVE  <<0, j>> \in DOMAIN tree /\ tree[<<0, j>>] = d[j + 1]
      OBVIOUS
    <2>1. 0 \in 0..H /\ j \in Nat /\ j < n
      BY <1>2, <1>3
    <2>2. j < Len(RegionTree(d)[0 + 1])
      BY <1>4, <2>1 DEF n
    <2>3. <<0, j>> \in DOMAIN tree /\ tree[<<0, j>>] = RegionTree(d)[0 + 1][j + 1]
      BY <1>3, <2>1, <2>2
    <2> QED
      BY <1>4, <2>3
  <1>6. \A k \in S : \E j \in 0..(n - 1) : k = <<0, j>>
    <2> SUFFICES ASSUME NEW k \in DOMAIN tree, k[1] = 0
                 PROVE  \E j \in 0..(n - 1) : k = <<0, j>>
      OBVIOUS
    <2>1. PICK l \in 0..H, j \in Nat : k = <<l, j>> /\ j < Len(RegionTree(d)[l + 1])
      BY <1>3
    <2>2. l = 0
      BY <2>1
    <2>3. j < n
      BY <1>4, <2>1, <2>2 DEF n
    <2> QED
      BY <1>2, <2>1, <2>2, <2>3
  <1> DEFINE f == [j \in 1..n |-> <<0, j - 1>>]
  <1>7. \A j \in 0..(n - 1) : <<0, j>> \in S
    BY <1>5
  <1>8. ExistsBijection(1..n, S)
    <2> HIDE DEF S
    <2>1. \A j \in 1..n : f[j] \in S
      <3> SUFFICES ASSUME NEW j \in 1..n
                   PROVE  <<0, j - 1>> \in S
        OBVIOUS
      <3>1. j - 1 \in 0..(n - 1)
        BY <1>2
      <3> QED
        BY <1>7, <3>1
    <2>2. f \in [1..n -> S]
      BY <2>1
    <2>3. \A a, b \in 1..n : f[a] = f[b] => a = b
      <3> SUFFICES ASSUME NEW a \in 1..n, NEW b \in 1..n, <<0, a - 1>> = <<0, b - 1>>
                   PROVE  a = b
        OBVIOUS
      <3>1. a - 1 = b - 1
        OBVIOUS
      <3> QED
        BY <1>2, <3>1
    <2>4. \A k \in S : \E a \in 1..n : f[a] = k
      <3> SUFFICES ASSUME NEW k \in S
                   PROVE  \E a \in 1..n : f[a] = k
        OBVIOUS
      <3>1. PICK j \in 0..(n - 1) : k = <<0, j>>
        BY <1>6
      <3>2. j + 1 \in 1..n /\ (j + 1) - 1 = j
        BY <1>2
      <3>3. f[j + 1] = k
        BY <3>1, <3>2
      <3> QED
        BY <3>2, <3>3
    <2> HIDE DEF f
    <2>5. f \in Bijection(1..n, S)
      BY <2>2, <2>3, <2>4 DEF Bijection, Injection, Surjection, IsInjective
    <2> QED
      BY <2>5 DEF ExistsBijection
  <1>9. Cardinality(S) = n
    <2> HIDE DEF S
    <2> QED
      BY <1>2, <1>8, FS_CountingElements
  <1> QED
    BY <1>5, <1>9 DEF S, tree, n, d

\* A tree that has a segment.
Live(t) ==
    /\ IsTree(ForestLeaves, t)
    /\ t[1] = Region => \E sh \in Shards : sh[1] = t[2] /\ Len(ForestLeaves[sh]) > 0
    /\ t = GlobalTreeRef => \E sh \in Shards : Len(ForestLeaves[sh]) > 0

\* Rows and nodes of the store, tree by tree.
LEMMA StoreIs ==
    ASSUME IndInv
    PROVE  /\ \A t : t \in Store.sealed <=> IsTree(ForestLeaves, t) /\ t[1] = Segment
           /\ \A t : Live(t) =>
                 /\ t \in DOMAIN Store.count /\ t \in DOMAIN Store.nodes
                 /\ Store.count[t] = Len(TreeList(ForestLeaves, SealedDigests, t))
                 /\ t # GlobalTreeRef => Store.index[t] = LeafIndex(t)
                 /\ t[1] = Segment => Store.nodes[t] = segmentTrees[<<t[2], t[3]>>][t[4] + 1]
                 /\ t[1] = Shard => Store.nodes[t] = emitted.shard[<<t[2], t[3]>>]
                 /\ t[1] = Region => Store.nodes[t] = emitted.region[t[2]]
                 /\ t[1] = Global => Store.nodes[t] = emitted.global
  <1> DEFINE live == {sh \in Shards : forest.shard[sh].count > 0}
             regions == {sh[1] : sh \in live}
             segments == UNION {{<<Segment, sh[1], sh[2], i - 1>> : i \in DOMAIN segmentTrees[sh]} : sh \in live}
             shards == {<<Shard, sh[1], sh[2], 0>> : sh \in live}
             regionTrees == {<<Region, r, 0, 0>> : r \in regions}
             global == IF live = {} THEN {} ELSE {GlobalTreeRef}
             upper == shards \cup regionTrees \cup global
             trees == segments \cup upper
             Nodes(t) == CASE t[1] = Segment -> segmentTrees[<<t[2], t[3]>>][t[4] + 1]
                           [] t[1] = Shard -> emitted.shard[<<t[2], t[3]>>]
                           [] t[1] = Region -> emitted.region[t[2]]
                           [] t[1] = Global -> emitted.global
             Count(t) == CASE t[1] = Segment -> Cardinality({k \in DOMAIN Nodes(t) : k[1] = 0})
                           [] t[1] = Shard -> forest.shard[<<t[2], t[3]>>].count
                           [] t[1] = Region -> NumShards
                           [] t[1] = Global -> NumRegions
             Index(t) == CASE t[1] = Segment -> t[4] [] t[1] = Shard -> t[3] [] t[1] = Region -> t[2] [] OTHER -> 0
             list(t) == TreeList(ForestLeaves, SealedDigests, t)
  <1>1. /\ DOMAIN Store.nodes = trees /\ \A t \in trees : Store.nodes[t] = Nodes(t)
        /\ DOMAIN Store.count = trees /\ \A t \in trees : Store.count[t] = Count(t)
        /\ DOMAIN Store.index = trees /\ \A t \in trees : Store.index[t] = Index(t)
        /\ Store.sealed = segments
    BY DEF Store
  <1>2. SegmentsSealed /\ ForestOver(forest, ForestLeaves)
    BY DEF IndInv
  <1>3. \A sh \in Shards : /\ forest.shard[sh].count = Len(ForestLeaves[sh])
                           /\ Len(ForestLeaves[sh]) = Len(segmentTrees[sh]) /\ Len(segmentTrees[sh]) \in Nat
                           /\ DOMAIN segmentTrees[sh] = 1..Len(segmentTrees[sh])
                           /\ sh = <<sh[1], sh[2]>> /\ sh[1] \in Regions
    <2> SUFFICES ASSUME NEW sh \in Shards
                 PROVE  /\ forest.shard[sh].count = Len(ForestLeaves[sh])
                        /\ Len(ForestLeaves[sh]) = Len(segmentTrees[sh]) /\ Len(segmentTrees[sh]) \in Nat
                        /\ DOMAIN segmentTrees[sh] = 1..Len(segmentTrees[sh])
                        /\ sh = <<sh[1], sh[2]>> /\ sh[1] \in Regions
      OBVIOUS
    <2>1. ShardOver(forest.shard[sh], ForestLeaves[sh])
      BY <1>2 DEF ForestOver
    <2>2. forest.shard[sh].count = Len(ForestLeaves[sh])
      BY <2>1 DEF ShardOver
    <2>3. sh = <<sh[1], sh[2]>> /\ sh[1] \in Regions
      BY DEF Shards
    <2> QED
      BY <1>2, <2>2, <2>3, LengthsAre
  <1>4. \A t : /\ t[1] = Segment => Nodes(t) = segmentTrees[<<t[2], t[3]>>][t[4] + 1]
               /\ t[1] = Shard => Nodes(t) = emitted.shard[<<t[2], t[3]>>]
               /\ t[1] = Region => Nodes(t) = emitted.region[t[2]]
               /\ t[1] = Global => Nodes(t) = emitted.global
    BY DEF Segment, Shard, Region, Global
  <1> HIDE DEF Nodes
  <1>5. \A t : /\ t[1] = Segment => Count(t) = Cardinality({k \in DOMAIN Nodes(t) : k[1] = 0}) /\ Index(t) = t[4]
               /\ t[1] = Shard => Count(t) = forest.shard[<<t[2], t[3]>>].count /\ Index(t) = t[3]
               /\ t[1] = Region => Count(t) = NumShards /\ Index(t) = t[2]
               /\ t[1] = Global => Count(t) = NumRegions
    BY DEF Segment, Shard, Region, Global
  <1>6. \A t : /\ t[1] = Segment => list(t) = SealedDigests[<<t[2], t[3]>>][t[4] + 1] /\ LeafIndex(t) = t[4]
               /\ t[1] = Shard => list(t) = ForestLeaves[<<t[2], t[3]>>] /\ LeafIndex(t) = t[3]
               /\ t[1] = Region => list(t) = RegionLeavesOf(ForestLeaves, t[2]) /\ LeafIndex(t) = t[2]
               /\ t[1] = Global => list(t) = GlobalLeavesOf(ForestLeaves)
    BY DEF TreeList, LeafIndex, Segment, Shard, Region, Global
  <1>7. \A sh : sh \in live <=> sh \in Shards /\ Len(ForestLeaves[sh]) > 0
    BY <1>3
  <1>8. \A t : t \in segments <=> \E sh \in live : \E i \in DOMAIN segmentTrees[sh] : t = <<Segment, sh[1], sh[2], i - 1>>
    OBVIOUS
  <1> HIDE DEF live, segments, Nodes, Count, Index, list
  <1>9. ASSUME NEW t, IsTree(ForestLeaves, t), t[1] = Segment
        PROVE  t \in segments
    <2> DEFINE sh == <<t[2], t[3]>>
    <2>1. sh \in Shards /\ t[4] \in 0..(Len(ForestLeaves[sh]) - 1) /\ t = <<Segment, t[2], t[3], t[4]>>
      BY <1>9, LayersAre DEF IsTree, IsTreeRef
    <2>2. sh[1] = t[2] /\ sh[2] = t[3]
      OBVIOUS
    <2> HIDE DEF sh
    <2>3. t[4] + 1 \in DOMAIN segmentTrees[sh] /\ (t[4] + 1) - 1 = t[4] /\ Len(ForestLeaves[sh]) > 0
      BY <1>3, <2>1
    <2>4. t = <<Segment, sh[1], sh[2], (t[4] + 1) - 1>>
      BY <2>1, <2>2, <2>3
    <2>5. sh \in live
      BY <1>7, <2>1, <2>3
    <2>6. \E i \in DOMAIN segmentTrees[sh] : t = <<Segment, sh[1], sh[2], i - 1>>
      BY <2>3, <2>4
    <2> QED
      BY <1>8, <2>5, <2>6
  <1>10. ASSUME NEW t \in segments
         PROVE  IsTree(ForestLeaves, t) /\ t[1] = Segment
    <2>1. PICK sh \in live : \E i \in DOMAIN segmentTrees[sh] : t = <<Segment, sh[1], sh[2], i - 1>>
      BY <1>8
    <2>2. PICK i \in DOMAIN segmentTrees[sh] : t = <<Segment, sh[1], sh[2], i - 1>>
      BY <2>1
    <2>3. t[1] = Segment /\ t[2] = sh[1] /\ t[3] = sh[2] /\ t[4] = i - 1 /\ t = <<Segment, t[2], t[3], t[4]>>
      BY <2>2
    <2>4. sh \in Shards /\ <<t[2], t[3]>> = sh
      BY <1>3, <1>7, <2>3
    <2>5. i - 1 \in 0..(Len(ForestLeaves[sh]) - 1)
      BY <1>3, <2>2, <2>4
    <2>6. t[4] \in 0..(Len(ForestLeaves[<<t[2], t[3]>>]) - 1)
      BY <2>3, <2>4, <2>5
    <2> QED
      BY <2>3, <2>4, <2>6, LayersAre DEF IsTree, IsTreeRef
  <1>11. ASSUME NEW t, Live(t)
         PROVE  /\ t \in trees /\ Count(t) = Len(list(t))
                /\ t # GlobalTreeRef => Index(t) = LeafIndex(t)
                /\ t[1] \in {Segment, Shard, Region, Global}
    <2>1. IsTree(ForestLeaves, t)
      BY <1>11 DEF Live
    <2>2. CASE t[1] = Segment
      <3> DEFINE sh == <<t[2], t[3]>>
      <3>1. sh \in Shards /\ t[4] \in 0..(Len(ForestLeaves[sh]) - 1)
        BY <2>1, <2>2 DEF IsTree
      <3>2. list(t) = SealedDigests[sh][t[4] + 1] /\ Nodes(t) = segmentTrees[sh][t[4] + 1]
        BY <1>4, <1>6, <2>2
      <3> HIDE DEF sh
      <3>3. t[4] \in 0..(Len(segmentTrees[sh]) - 1)
        BY <1>3, <3>1
      <3>4. Cardinality({k \in DOMAIN Nodes(t) : k[1] = 0}) = Len(list(t))
        BY <1>2, <3>1, <3>2, <3>3, LeavesOfSegment
      <3> QED
        BY <1>5, <1>6, <1>9, <2>1, <2>2, <3>4
    <2>3. CASE t[1] = Shard
      <3> DEFINE sh == <<t[2], t[3]>>
      <3>1. sh \in Shards /\ Len(ForestLeaves[sh]) > 0 /\ t = <<Shard, t[2], t[3], 0>>
        BY <2>1, <2>3, LayersAre DEF IsTree, IsTreeRef
      <3>2. sh[1] = t[2] /\ sh[2] = t[3]
        OBVIOUS
      <3>3. list(t) = ForestLeaves[sh] /\ Count(t) = forest.shard[sh].count
        BY <1>5, <1>6, <2>3
      <3> HIDE DEF sh
      <3>4. sh \in live /\ t = <<Shard, sh[1], sh[2], 0>>
        BY <1>7, <3>1, <3>2
      <3>5. t \in shards
        BY <3>4
      <3> HIDE DEF shards
      <3>6. t \in trees
        BY <3>5
      <3>7. Count(t) = Len(list(t))
        BY <1>3, <3>1, <3>3
      <3>8. Index(t) = LeafIndex(t)
        BY <1>5, <1>6, <2>3
      <3> QED
        BY <2>3, <3>6, <3>7, <3>8
    <2>4. CASE t[1] = Region
      <3>1. PICK sh \in Shards : sh[1] = t[2] /\ Len(ForestLeaves[sh]) > 0
        BY <1>11, <2>4 DEF Live
      <3>2. t = <<Region, t[2], 0, 0>>
        BY <2>1, <2>4, LayersAre DEF IsTree, IsTreeRef
      <3>3. t[2] \in regions
        BY <1>7, <3>1
      <3>4. t \in regionTrees
        <4> HIDE DEF regions
        <4> QED
          BY <3>2, <3>3
      <3>5. Len(list(t)) = NumShards
        <4>1. list(t) = RegionLeavesOf(ForestLeaves, t[2])
          BY <1>6, <2>4
        <4> QED
          BY <4>1, UpperLeaves
      <3> HIDE DEF regionTrees
      <3> QED
        BY <1>5, <1>6, <2>4, <3>4, <3>5
    <2>5. CASE t[1] = Global
      <3>1. t = GlobalTreeRef
        BY <2>1, <2>5, LayersAre DEF IsTree, IsTreeRef
      <3>2. live # {}
        BY <1>7, <1>11, <3>1 DEF Live
      <3>3. Len(list(t)) = NumRegions
        <4>1. list(t) = GlobalLeavesOf(ForestLeaves)
          BY <1>6, <2>5
        <4> QED
          BY <4>1, UpperLeaves
      <3> QED
        BY <1>5, <2>5, <3>1, <3>2, <3>3
    <2> QED
      BY <2>1, <2>2, <2>3, <2>4, <2>5, LayersAre DEF IsTree, IsTreeRef
  <1> HIDE DEF trees
  <1>12. \A t : t \in Store.sealed <=> IsTree(ForestLeaves, t) /\ t[1] = Segment
    BY <1>1, <1>9, <1>10
  <1>13. ASSUME NEW t, Live(t)
         PROVE  /\ t \in DOMAIN Store.count /\ t \in DOMAIN Store.nodes
                /\ Store.count[t] = Len(list(t))
                /\ t # GlobalTreeRef => Store.index[t] = LeafIndex(t)
                /\ Store.nodes[t] = Nodes(t)
    BY <1>1, <1>11, <1>13
  <1> HIDE <1>1
  <1> QED
    BY <1>4, <1>12, <1>13 DEF list

\* Every tree above sealed leaves has a segment.
LEMMA TreesAreLive ==
    ASSUME IndInv, NEW A, A # {}, \A a \in A : IsLeaf(SealedDigests, a)
    PROVE  \A t \in TreesAbove(A) : Live(t)
  <1> DEFINE trees == TreesAbove(A)
  <1>1. SegmentsSealed /\ ForestOver(forest, ForestLeaves)
    BY DEF IndInv
  <1>2. CommitsTo(ForestLeaves, SealedDigests)
    BY <1>1, ForestCommits
  <1>3. \A t \in trees : IsTree(ForestLeaves, t)
    BY <1>1, <1>2, TreesAreTrees
  <1>4. \A t \in trees : t[1] # Segment => \E u \in trees : u # GlobalTreeRef /\ ParentTree(u) = t
    BY TreesAboveAre
  <1> HIDE DEF trees
  <1>5. ASSUME NEW t \in trees, t[1] = Region
        PROVE  \E sh \in Shards : sh[1] = t[2] /\ Len(ForestLeaves[sh]) > 0
    <2>1. PICK u \in trees : u # GlobalTreeRef /\ ParentTree(u) = t
      BY <1>4, <1>5, LayersAre
    <2>2. IsTree(ForestLeaves, u) /\ IsTreeRef(u)
      BY <1>3 DEF IsTree
    <2>3. u[1] = Shard
      BY <1>5, <2>1, <2>2, LayersAre DEF IsTreeRef
    <2>4. t = <<Region, u[2], 0, 0>>
      BY <2>1, <2>3, LayersAre
    <2>5. <<u[2], u[3]>> \in Shards /\ Len(ForestLeaves[<<u[2], u[3]>>]) > 0
      BY <2>2, <2>3 DEF IsTree
    <2>6. <<u[2], u[3]>>[1] = t[2]
      BY <2>4
    <2> QED
      BY <2>5, <2>6
  <1>6. ASSUME NEW t \in trees, t = GlobalTreeRef
        PROVE  \E sh \in Shards : Len(ForestLeaves[sh]) > 0
    <2>1. PICK u \in trees : u # GlobalTreeRef /\ ParentTree(u) = t
      BY <1>4, <1>6, LayersAre
    <2>2. IsTreeRef(u)
      BY <1>3 DEF IsTree
    <2>3. u[1] = Region
      BY <1>6, <2>1, <2>2, LayersAre DEF IsTreeRef
    <2> QED
      BY <1>5, <2>3
  <1> QED
    BY <1>3, <1>5, <1>6 DEF Live, trees

\* The sealed leaves of the store.
LEMMA LeavesOfStore ==
    ASSUME IndInv, NEW a \in Leaves(Store)
    PROVE  /\ IsAddress(a) /\ IsLeaf(SealedDigests, a) /\ SegmentTreeRef(a) \in Store.sealed
           /\ DigestAt(SealedDigests, a) = Digest(a)
           /\ <<0, a[4]>> \in DOMAIN Store.nodes[SegmentTreeRef(a)]
           /\ Store.nodes[SegmentTreeRef(a)][<<0, a[4]>>] = Digest(a)
  <1>1. PICK t \in Store.sealed : a \in {<<t[2], t[3], t[4], i>> : i \in 0..(Store.count[t] - 1)}
    BY DEF Leaves
  <1>2. PICK i \in 0..(Store.count[t] - 1) : a = <<t[2], t[3], t[4], i>>
    BY <1>1
  <1>3. a[1] = t[2] /\ a[2] = t[3] /\ a[3] = t[4] /\ a[4] = i /\ IsAddress(a)
    BY <1>2 DEF IsAddress
  <1>4. IsTree(ForestLeaves, t) /\ t[1] = Segment
    BY StoreIs
  <1>5. t = <<Segment, t[2], t[3], t[4]>> /\ t # GlobalTreeRef
    BY <1>4, LayersAre DEF IsTree, IsTreeRef
  <1>6. SegmentTreeRef(a) = t
    BY <1>3, <1>5 DEF SegmentTreeRef
  <1>7. Live(t)
    BY <1>4, <1>5, LayersAre DEF Live
  <1> DEFINE sh == <<a[1], a[2]>>
             d == SealedDigests[sh][a[3] + 1]
  <1>8. sh \in Shards /\ a[3] \in 0..(Len(ForestLeaves[sh]) - 1)
    BY <1>3, <1>4 DEF IsTree
  <1>9. SegmentsSealed
    BY DEF IndInv
  <1> HIDE DEF sh
  <1>10. a[3] \in 0..(Len(segmentTrees[sh]) - 1) /\ Len(SealedDigests[sh]) = Len(segmentTrees[sh])
    BY <1>8, <1>9, LengthsAre
  <1>11. Store.count[t] = Len(d) /\ Store.nodes[t] = segmentTrees[sh][a[3] + 1]
    <2>1. Store.count[t] = Len(TreeList(ForestLeaves, SealedDigests, t))
      BY <1>7, StoreIs
    <2>2. TreeList(ForestLeaves, SealedDigests, t) = SealedDigests[<<t[2], t[3]>>][t[4] + 1]
      BY <1>4 DEF TreeList, Segment, Shard, Region, Global
    <2>3. Store.nodes[t] = segmentTrees[<<t[2], t[3]>>][t[4] + 1]
      BY <1>4, <1>7, StoreIs
    <2> QED
      BY <1>3, <2>1, <2>2, <2>3 DEF sh
  <1>12. \A j \in 0..(Len(d) - 1) : d[j + 1] = <<sh, a[3], j + 1>>
    BY <1>8, <1>9, <1>10, SegmentIs
  <1>13. \A j \in 0..(Len(d) - 1) : /\ <<0, j>> \in DOMAIN segmentTrees[sh][a[3] + 1]
                                    /\ segmentTrees[sh][a[3] + 1][<<0, j>>] = d[j + 1]
    BY <1>8, <1>9, <1>10, LeavesOfSegment
  <1>14. a[4] \in 0..(Len(d) - 1)
    BY <1>3, <1>11
  <1> HIDE DEF d
  <1>15. IsLeaf(SealedDigests, a)
    BY <1>8, <1>10, <1>14 DEF IsLeaf, d, sh
  <1>16. d[a[4] + 1] = <<sh, a[3], a[4] + 1>>
    BY <1>12, <1>14
  <1>17. DigestAt(SealedDigests, a) = Digest(a)
    BY <1>16 DEF DigestAt, Digest, d, sh
  <1>18. <<0, a[4]>> \in DOMAIN Store.nodes[t] /\ Store.nodes[t][<<0, a[4]>>] = d[a[4] + 1]
    BY <1>11, <1>13, <1>14
  <1> QED
    BY <1>3, <1>6, <1>15, <1>16, <1>17, <1>18 DEF Digest, sh

\* For sealed leaves the store has the rows.
LEMMA StoreHasRows ==
    ASSUME IndInv, NEW A, A # {}, A \subseteq Leaves(Store)
    PROVE  HasRows(Store, ForestLeaves, SealedDigests, A)
  <1>1. \A a \in A : IsAddress(a) /\ IsLeaf(SealedDigests, a) /\ SegmentTreeRef(a) \in Store.sealed
    BY LeavesOfStore
  <1>2. \A t \in TreesAbove(A) : Live(t)
    BY <1>1, TreesAreLive
  <1>3. \A t \in TreesAbove(A) : /\ t \in DOMAIN Store.count
                                 /\ Store.count[t] = Len(TreeList(ForestLeaves, SealedDigests, t))
                                 /\ t # GlobalTreeRef => Store.index[t] = LeafIndex(t)
    BY <1>2, StoreIs
  <1> QED
    BY <1>1, <1>3 DEF HasRows

\* A table with all nodes of a tree has those that a plan requires, ...
LEMMA RequiredInTable ==
    ASSUME NEW list, IsList(list), Len(list) > 0, NEW T, T \subseteq 0..(Len(list) - 1)
    PROVE  \A k \in RequiredAbove(T, Len(list)) : /\ k \in DOMAIN RefNodes(list)
                                                  /\ RefNodes(list)[k] = NodeOf(list, k)
  <1> DEFINE H == BitsLen[Len(list) - 1]
             tree == RegionTree(list)
             ref == RefNodes(list)
  <1>1. /\ H \in Nat
        /\ \A l \in 0..H, i \in Nat : i < Len(tree[l + 1]) =>
              <<l, i>> \in DOMAIN ref /\ ref[<<l, i>>] = tree[l + 1][i + 1]
    BY RefIsTree
  <1>2. ASSUME NEW k \in RequiredAbove(T, Len(list))
        PROVE  k \in DOMAIN ref /\ ref[k] = NodeOf(list, k)
    <2>1. PICK l \in 0..(H - 1), c \in Nat : k = <<l, c>> /\ c < Widths(list)[l]
      BY RequiredCovers
    <2> HIDE DEF H
    <2>2. l \in 0..H
      BY <1>1
    <2>3. Widths(list)[l] = Len(tree[l + 1])
      BY <2>2 DEF Widths, H
    <2> HIDE DEF ref, tree
    <2>4. <<l, c>> \in DOMAIN ref /\ ref[<<l, c>>] = tree[l + 1][c + 1]
      BY <1>1, <2>1, <2>2, <2>3
    <2>5. NodeOf(list, k) = tree[l + 1][c + 1]
      BY <2>1 DEF NodeOf, tree
    <2> QED
      BY <2>1, <2>4, <2>5
  <1> QED
    BY <1>2

\* ... and so has one with the path of every target.
LEMMA RequiredOnPaths ==
    ASSUME NEW list, IsList(list), Len(list) > 0, NEW T, T \subseteq 0..(Len(list) - 1),
           NEW table, \A s \in T : StoredPath(table, RefNodes(list), s)
    PROVE  \A k \in RequiredAbove(T, Len(list)) : k \in DOMAIN table /\ table[k] = NodeOf(list, k)
  <1> DEFINE H == BitsLen[Len(list) - 1]
             ref == RefNodes(list)
  <1>1. H \in Nat /\ KeysUpTo(ref, H)
    <2>1. /\ H \in Nat
          /\ \A k \in DOMAIN ref : \E l \in 0..H, i \in Nat : k = <<l, i>> /\ i < Len(RegionTree(list)[l + 1])
      BY RefIsTree
    <2> HIDE DEF H, ref
    <2> QED
      BY <2>1 DEF KeysUpTo
  <1>2. \A s \in T : HoldsPath(table, ref, s, H)
    <2> HIDE DEF H
    <2> QED
      BY <1>1, StoredPathDef
  <1>3. ASSUME NEW k \in RequiredAbove(T, Len(list))
        PROVE  k \in DOMAIN table /\ table[k] = NodeOf(list, k)
    <2>1. PICK l \in 0..(H - 1), c \in Nat : /\ k = <<l, c>> /\ c \notin Active(T, l)
                                             /\ \E i \in Active(T, l + 1) : c \in {2 * i, 2 * i + 1}
      BY RequiredCovers
    <2>2. k \in DOMAIN ref /\ ref[k] = NodeOf(list, k)
      BY RequiredInTable
    <2> HIDE DEF H, ref
    <2>3. PICK i \in Active(T, l + 1) : c \in {2 * i, 2 * i + 1}
      BY <2>1
    <2>4. PICK s \in T : i = Ancestor(s, l + 1)
      BY DEF Active
    <2> DEFINE b == Ancestor(s, l)
    <2>5. l \in Nat /\ l \in 0..H /\ s \in Nat
      BY <1>1
    <2>6. b \in Nat /\ i = b \div 2
      BY <2>4, <2>5, AncestorUp
    <2>7. b # c
      BY <2>1 DEF Active
    <2> HIDE DEF b
    <2>8. c = Sib(b)
      BY <2>3, <2>6, <2>7 DEF Sib
    <2>9. <<l, c>> \in DOMAIN table /\ table[<<l, c>>] = ref[<<l, c>>]
      BY <1>2, <2>1, <2>2, <2>5, <2>8 DEF HoldsPath, b
    <2> QED
      BY <2>1, <2>2, <2>9
  <1> QED
    BY <1>3

\* What the store has of a tree above sealed leaves: its row, and all its nodes or at least
\* the paths of the targets.
HoldsTree(A, t) ==
    LET list == TreeList(ForestLeaves, SealedDigests, t)
        T == Targets(A, Store, t)
    IN /\ IsList(list) /\ Len(list) > 0 /\ T \subseteq 0..(Len(list) - 1)
       /\ t \in DOMAIN Store.nodes /\ Store.count[t] = Len(list)
       /\ \/ Store.nodes[t] = RefNodes(list)
          \/ \A s \in T : StoredPath(Store.nodes[t], RefNodes(list), s)

LEMMA StoreHoldsTrees ==
    ASSUME IndInv, NEW A, A # {}, A \subseteq Leaves(Store)
    PROVE  \A t \in TreesAbove(A) : HoldsTree(A, t)
  <1> DEFINE trees == TreesAbove(A)
             list(t) == TreeList(ForestLeaves, SealedDigests, t)
             T(t) == Targets(A, Store, t)
             Has(t) == \/ Store.nodes[t] = RefNodes(list(t))
                       \/ \A s \in T(t) : StoredPath(Store.nodes[t], RefNodes(list(t)), s)
  <1>1. HasRows(Store, ForestLeaves, SealedDigests, A)
    BY StoreHasRows
  <1>2. /\ SegmentsSealed /\ ForestOver(forest, ForestLeaves) /\ TablesHold
        /\ CommitsTo(ForestLeaves, SealedDigests)
    BY ForestCommits DEF IndInv
  <1>3. \A a \in A : IsLeaf(SealedDigests, a)
    BY <1>1 DEF HasRows
  <1>4. \A t \in trees : Live(t) /\ IsTree(ForestLeaves, t)
    BY <1>3, TreesAreLive DEF Live
  <1>5. \A t \in trees : /\ t \in DOMAIN Store.nodes
                         /\ Store.count[t] = Len(list(t))
                         /\ t # GlobalTreeRef => Store.index[t] = LeafIndex(t)
                         /\ t[1] = Segment => Store.nodes[t] = segmentTrees[<<t[2], t[3]>>][t[4] + 1]
                         /\ t[1] = Shard => Store.nodes[t] = emitted.shard[<<t[2], t[3]>>]
                         /\ t[1] = Region => Store.nodes[t] = emitted.region[t[2]]
                         /\ t[1] = Global => Store.nodes[t] = emitted.global
    BY <1>4, StoreIs
  <1>6. \A t \in trees : IsList(list(t)) /\ Len(list(t)) > 0 /\ T(t) \subseteq 0..(Len(list(t)) - 1)
    <2>1. \A t \in trees : CanPlan(A, Store, t)
      BY <1>1, <1>2, ServedPlan
    <2>2. \A t \in trees : IsList(list(t))
      BY <1>2, <1>4, TreeIsList
    <2> HIDE DEF list, trees
    <2> QED
      BY <1>5, <2>1, <2>2 DEF CanPlan, T
  <1>7. \A t \in trees : t[1] # Segment =>
            T(t) = {Store.index[u] : u \in {v \in trees \ {GlobalTreeRef} : ParentTree(v) = t}}
    BY DEF Targets
  <1>8. \A sh \in Shards : Len(ForestLeaves[sh]) = Len(segmentTrees[sh])
    BY <1>2, LengthsAre
  <1>9. \A t : /\ t[1] = Segment => list(t) = SealedDigests[<<t[2], t[3]>>][t[4] + 1] /\ LeafIndex(t) = t[4]
               /\ t[1] = Shard => list(t) = ForestLeaves[<<t[2], t[3]>>] /\ LeafIndex(t) = t[3]
               /\ t[1] = Region => list(t) = RegionLeavesOf(ForestLeaves, t[2]) /\ LeafIndex(t) = t[2]
               /\ t[1] = Global => list(t) = GlobalLeavesOf(ForestLeaves)
    BY DEF TreeList, LeafIndex, Segment, Shard, Region, Global
  <1> HIDE DEF trees, list, T
  <1>12. ASSUME NEW t \in trees, t[1] = Segment
         PROVE  Has(t)
    <2> DEFINE sh == <<t[2], t[3]>>
    <2>1. sh \in Shards /\ t[4] \in 0..(Len(ForestLeaves[sh]) - 1)
      BY <1>4, <1>12 DEF IsTree
    <2>2. list(t) = SealedDigests[sh][t[4] + 1] /\ Store.nodes[t] = segmentTrees[sh][t[4] + 1]
      BY <1>5, <1>9, <1>12
    <2> HIDE DEF sh
    <2>3. t[4] \in 0..(Len(segmentTrees[sh]) - 1)
      BY <1>8, <2>1
    <2>4. segmentTrees[sh][t[4] + 1] = RefNodes(SealedDigests[sh][t[4] + 1])
      BY <1>2, <2>1, <2>3, SegmentIs
    <2> QED
      BY <2>2, <2>4
  <1>13. ASSUME NEW t \in trees, t[1] = Shard
         PROVE  Has(t)
    <2> DEFINE sh == <<t[2], t[3]>>
    <2>1. sh \in Shards /\ Len(ForestLeaves[sh]) > 0
      BY <1>4, <1>13 DEF IsTree
    <2>2. list(t) = ForestLeaves[sh] /\ Store.nodes[t] = emitted.shard[sh]
      BY <1>5, <1>9, <1>13
    <2> HIDE DEF sh
    <2>3. emitted.shard[sh] = RefNodes(ForestLeaves[sh])
      BY <1>2, <1>8, <2>1 DEF TablesHold
    <2> QED
      BY <2>2, <2>3
  <1>14. ASSUME NEW t \in trees, t[1] = Region
         PROVE  Has(t)
    <2>1. ASSUME NEW s \in T(t)
          PROVE  StoredPath(Store.nodes[t], RefNodes(list(t)), s)
      <3>1. PICK u \in trees : u # GlobalTreeRef /\ ParentTree(u) = t /\ s = Store.index[u]
        BY <1>7, <1>14, <2>1, LayersAre
      <3>2. IsTree(ForestLeaves, u) /\ IsTreeRef(u)
        BY <1>4 DEF IsTree
      <3>3. u[1] = Shard
        BY <1>14, <3>1, <3>2, LayersAre DEF IsTreeRef
      <3>4. t = <<Region, u[2], 0, 0>>
        BY <3>1, <3>3, LayersAre
      <3>5. s = u[3] /\ t[2] = u[2]
        <4>1. s = LeafIndex(u)
          BY <1>5, <3>1
        <4>2. LeafIndex(u) = u[3]
          BY <1>9, <3>3
        <4> QED
          BY <3>4, <4>1, <4>2
      <3> DEFINE sh == <<u[2], u[3]>>
      <3>6. sh \in Shards /\ Len(ForestLeaves[sh]) > 0
        BY <3>2, <3>3 DEF IsTree
      <3>7. sh[1] = t[2] /\ sh[2] = s
        BY <3>5
      <3> HIDE DEF sh
      <3>8. StoredPath(emitted.region[sh[1]], RefNodes(RegionLeavesOf(ForestLeaves, sh[1])), sh[2])
        BY <1>2, <1>8, <3>6 DEF TablesHold
      <3>9. list(t) = RegionLeavesOf(ForestLeaves, t[2]) /\ Store.nodes[t] = emitted.region[t[2]]
        BY <1>5, <1>9, <1>14
      <3> QED
        BY <3>7, <3>8, <3>9
    <2> QED
      BY <2>1
  <1>15. ASSUME NEW t \in trees, t[1] = Global
         PROVE  Has(t)
    <2>1. ASSUME NEW s \in T(t)
          PROVE  StoredPath(Store.nodes[t], RefNodes(list(t)), s)
      <3>1. PICK u \in trees : u # GlobalTreeRef /\ ParentTree(u) = t /\ s = Store.index[u]
        BY <1>7, <1>15, <2>1, LayersAre
      <3>2. IsTreeRef(u)
        BY <1>4 DEF IsTree
      <3>3. u[1] = Region
        BY <1>15, <3>1, <3>2, LayersAre DEF IsTreeRef
      <3>4. s = u[2]
        <4>1. s = LeafIndex(u)
          BY <1>5, <3>1
        <4>2. LeafIndex(u) = u[2]
          BY <1>9, <3>3
        <4> QED
          BY <4>1, <4>2
      <3>5. PICK sh \in Shards : sh[1] = u[2] /\ Len(ForestLeaves[sh]) > 0
        BY <1>4, <3>3 DEF Live
      <3>6. StoredPath(emitted.global, RefNodes(GlobalLeavesOf(ForestLeaves)), sh[1])
        BY <1>2, <1>8, <3>5 DEF TablesHold
      <3>7. list(t) = GlobalLeavesOf(ForestLeaves) /\ Store.nodes[t] = emitted.global
        BY <1>5, <1>9, <1>15
      <3> QED
        BY <3>4, <3>5, <3>6, <3>7
    <2> QED
      BY <2>1
  <1>16. \A t \in trees : Has(t)
    <2>1. \A t \in trees : t[1] \in {Segment, Shard, Region, Global}
      BY <1>4, LayersAre DEF IsTree, IsTreeRef
    <2> HIDE DEF Has
    <2> QED
      BY <1>12, <1>13, <1>14, <1>15, <2>1
  <1> QED
    BY <1>5, <1>6, <1>16 DEF HoldsTree, trees, T, list

\* For sealed leaves the store serves every proof.
LEMMA StoreServes ==
    ASSUME IndInv, NEW A, A # {}, A \subseteq Leaves(Store)
    PROVE  Serves(Store, ForestLeaves, SealedDigests, A)
  <1>1. HasRows(Store, ForestLeaves, SealedDigests, A)
    BY StoreHasRows
  <1>2. ASSUME NEW t \in TreesAbove(A)
        PROVE  /\ t \in DOMAIN Store.nodes
               /\ \A k \in RequiredAbove(Targets(A, Store, t), Store.count[t]) :
                     /\ k \in DOMAIN Store.nodes[t]
                     /\ Store.nodes[t][k] = NodeOf(TreeList(ForestLeaves, SealedDigests, t), k)
    <2> DEFINE list == TreeList(ForestLeaves, SealedDigests, t)
               T == Targets(A, Store, t)
               table == Store.nodes[t]
    <2>1. HoldsTree(A, t)
      BY StoreHoldsTrees
    <2>2. /\ IsList(list) /\ Len(list) > 0 /\ T \subseteq 0..(Len(list) - 1)
          /\ t \in DOMAIN Store.nodes /\ Store.count[t] = Len(list)
          /\ table = RefNodes(list) \/ \A s \in T : StoredPath(table, RefNodes(list), s)
      BY <2>1 DEF HoldsTree
    <2> HIDE DEF list, T, table
    <2>3. \A k \in RequiredAbove(T, Len(list)) : k \in DOMAIN table /\ table[k] = NodeOf(list, k)
      <3>1. CASE table = RefNodes(list)
        BY <2>2, <3>1, RequiredInTable
      <3>2. CASE \A s \in T : StoredPath(table, RefNodes(list), s)
        BY <2>2, <3>2, RequiredOnPaths
      <3> QED
        BY <2>2, <3>1, <3>2
    <2> QED
      BY <2>2, <2>3 DEF list, T, table
  <1>3. \A a \in A : /\ <<0, a[4]>> \in DOMAIN Store.nodes[SegmentTreeRef(a)]
                     /\ Store.nodes[SegmentTreeRef(a)][<<0, a[4]>>] = DigestAt(SealedDigests, a)
    BY LeavesOfStore
  <1> QED
    BY <1>1, <1>2, <1>3 DEF Serves, HasNodes

\* BuildProof gives the genuine proof and it verifies.
LEMMA GenuineProof ==
    ASSUME IndInv, NEW A, A # {}, A \subseteq Leaves(Store)
    PROVE  LET p == ProofBuilt(A, Store)
           IN /\ BuildProof(Store, A) = {p}
              /\ WellFormed(p, A)
              /\ Verified(p, A, TrustedRoot)
              /\ p.leaves = {<<a, Digest(a)>> : a \in A}
  <1> DEFINE p == ProofBuilt(A, Store)
  <1>1. ForestOver(forest, ForestLeaves) /\ CommitsTo(ForestLeaves, SealedDigests)
    BY ForestCommits DEF IndInv
  <1>2. Serves(Store, ForestLeaves, SealedDigests, A)
    BY StoreServes
  <1>3. \A a \in A : IsAddress(a) /\ IsLeaf(SealedDigests, a)
    BY <1>2 DEF Serves, HasRows
  <1>4. BuildProof(Store, A) = {p}
    BY <1>1, <1>2, BuildIs
  <1>5. WellFormed(p, A)
    <2>1. MetadataSuffices(A, Store) /\ \A t \in TreesAbove(A) : CanPlan(A, Store, t)
      BY <1>1, <1>2, ServedPlan DEF Serves
    <2> QED
      BY <2>1, BuiltIsWellFormed
  <1>6. OfForest(p, ForestLeaves, SealedDigests)
    <2>1. \A t \in TreesAbove(A) : IsTree(ForestLeaves, t)
      BY <1>1, <1>3, TreesAreTrees
    <2> QED
      BY <1>2, <2>1, BuiltIsOfForest
  <1>7. Verified(p, A, TrustedRoot)
    <2> HIDE DEF p, IsAddress
    <2> QED
      BY <1>1, <1>3, <1>5, <1>6, VerifierIsExact DEF TrustedRoot
  <1>8. p.leaves = {<<a, Digest(a)>> : a \in A}
    <2>1. p.leaves = {<<a, Store.nodes[SegmentTreeRef(a)][<<0, a[4]>>]>> : a \in A}
      BY DEF ProofBuilt
    <2>2. \A a \in A : Store.nodes[SegmentTreeRef(a)][<<0, a[4]>>] = Digest(a)
      BY LeavesOfStore
    <2> HIDE DEF p
    <2> QED
      BY <2>1, <2>2
  <1> QED
    BY <1>4, <1>5, <1>7, <1>8

\* A nonempty set of so many elements.
LEMMA UpToIs ==
    ASSUME NEW n \in Nat, NEW S, NEW A \in UpTo(n, S)
    PROVE  A \subseteq S /\ A # {}
  <1>1. PICK k \in 1..n : A \in kSubset(k, S)
    BY DEF UpTo
  <1>2. A \subseteq S /\ Cardinality(A) = k
    BY <1>1 DEF kSubset
  <1>3. Cardinality({}) = 0
    BY FS_EmptySet
  <1> QED
    BY <1>2, <1>3

LEMMA NoLeavesAreAddresses ==
    ASSUME NEW store, NEW a \in NoLeaves(store)
    PROVE  IsAddress(a)
  <1>1. \/ \E t \in store.sealed : a = <<t[2], t[3], t[4], store.count[t]>>
        \/ \E sh \in Shards : a = <<sh[1], sh[2], forest.shard[sh].count, 0>>
    BY DEF NoLeaves
  <1> QED
    BY <1>1 DEF IsAddress

LEMMA IndGivesVerify == IndInv => ProofsVerify
  <1> SUFFICES ASSUME IndInv, NEW A \in UpTo(MaxAddresses, Leaves(Store) \cup NoLeaves(Store))
               PROVE  IF A \subseteq Leaves(Store)
                      THEN \E p \in BuildAndVerify(Store, A, TrustedRoot) : p.leaves = {<<a, Digest(a)>> : a \in A}
                      ELSE BuildAndVerify(Store, A, TrustedRoot) = {}
    BY DEF ProofsVerify
  <1>1. A \subseteq Leaves(Store) \cup NoLeaves(Store) /\ A # {}
    BY AuditAssumption, UpToIs
  <1>2. CASE A \subseteq Leaves(Store)
    <2> DEFINE p == ProofBuilt(A, Store)
    <2>1. /\ BuildProof(Store, A) = {p} /\ Verified(p, A, TrustedRoot)
          /\ p.leaves = {<<a, Digest(a)>> : a \in A}
      BY <1>1, <1>2, GenuineProof
    <2> HIDE DEF p
    <2>2. p \in BuildAndVerify(Store, A, TrustedRoot)
      BY <2>1 DEF BuildAndVerify
    <2> QED
      BY <1>2, <2>1, <2>2
  <1>3. CASE ~(A \subseteq Leaves(Store))
    <2>1. PICK a \in A : a \notin Leaves(Store)
      BY <1>3
    <2>2. IsAddress(a)
      BY <1>1, <2>1, NoLeavesAreAddresses
    <2> DEFINE t == SegmentTreeRef(a)
    <2>3. a = <<t[2], t[3], t[4], a[4]>>
      BY <2>2 DEF IsAddress, SegmentTreeRef
    <2> HIDE DEF t
    <2>4. ~MetadataSuffices(A, Store)
      <3> SUFFICES ASSUME MetadataSuffices(A, Store)
                   PROVE  FALSE
        OBVIOUS
      <3>1. t \in Store.sealed /\ a[4] \in 0..(Store.count[t] - 1)
        BY DEF MetadataSuffices, t
      <3>2. a \in {<<t[2], t[3], t[4], i>> : i \in 0..(Store.count[t] - 1)}
        BY <2>3, <3>1
      <3>3. a \in Leaves(Store)
        BY <3>1, <3>2 DEF Leaves
      <3> QED
        BY <2>1, <3>3
    <2>5. Plan(A, Store) = {}
      BY <2>4, PlanIs
    <2>6. BuildProof(Store, A) = {}
      BY <2>5 DEF BuildProof
    <2> QED
      BY <1>3, <2>6 DEF BuildAndVerify
  <1> QED
    BY <1>2, <1>3

\* Whatever plan planTree makes from other metadata, and whatever hashes it comes with:
\* what is accepted is the genuine proof.
LEMMA AcceptedIsGenuine ==
    ASSUME IndInv, NEW A, A # {}, A \subseteq Leaves(Store),
           NEW other, NEW q, IsProofRecord(q), q.plan = PlanBuilt(A, other), Verified(q, A, TrustedRoot)
    PROVE  q = ProofBuilt(A, Store)
  <1>1. ForestOver(forest, ForestLeaves) /\ CommitsTo(ForestLeaves, SealedDigests)
    BY ForestCommits DEF IndInv
  <1>2. Serves(Store, ForestLeaves, SealedDigests, A)
    BY StoreServes
  <1>3. \A a \in A : IsAddress(a)
    BY <1>2 DEF Serves, HasRows
  <1>4. WellFormed(q, A)
    BY GlobalRootIs
  <1>5. OfForest(q, ForestLeaves, SealedDigests)
    <2> HIDE DEF IsAddress
    <2> QED
      BY <1>1, <1>3, <1>4, VerifierIsExact DEF TrustedRoot
  <1> QED
    BY <1>2, <1>4, <1>5, OfForestIsBuilt

\* A proof as the verifier is given it: its plan, and lists of links, leaves and nodes.
IsProof(q) == IsProofRecord(q) /\ IsPlanRecord(q.plan)

LEMMA PlannedPartIs ==
    ASSUME NEW q, IsProof(q)
    PROVE  LET r == PlannedPart(q)
               B == PlannedAddresses(q)
           IN /\ IsProof(r)
              /\ r.plan.addresses = B /\ r.plan.trees = q.plan.trees /\ r.plan.links = q.plan.links
              /\ r.nodes = q.nodes /\ r.leaves = {l \in q.leaves : l[1] \in B}
              /\ B = {a \in q.plan.addresses : SegmentTreeRef(a) \in TreesOf(q)}
  <1> DEFINE r == PlannedPart(q)
             B == PlannedAddresses(q)
             L == {l \in q.leaves : l[1] \in B}
             plan == q.plan
             nodes == q.nodes
  <1>1. /\ q = [plan |-> plan, leaves |-> q.leaves, nodes |-> nodes]
        /\ plan = [addresses |-> plan.addresses, trees |-> plan.trees, links |-> plan.links]
        /\ \A l \in plan.links : l = [child |-> l.child, parent |-> l.parent, index |-> l.index]
        /\ \A l \in q.leaves : l = <<l[1], l[2]>>
        /\ \A n \in nodes : n = <<n[1], n[2], n[3]>>
    BY DEF IsProof, IsProofRecord, IsPlanRecord
  <1>2. B = {a \in q.plan.addresses : SegmentTreeRef(a) \in TreesOf(q)}
    BY DEF PlannedAddresses, TreesOf
  <1>3. r = [q EXCEPT !.plan.addresses = B, !.leaves = L]
    BY DEF PlannedPart
  <1> HIDE DEF r, B, L
  <1>4. r = [plan |-> [plan EXCEPT !.addresses = B], leaves |-> L, nodes |-> nodes]
    BY <1>1, <1>3
  <1>5. [plan EXCEPT !.addresses = B] = [addresses |-> B, trees |-> plan.trees, links |-> plan.links]
    BY <1>1
  <1> HIDE DEF plan, nodes
  <1>6. r = [plan |-> [addresses |-> B, trees |-> plan.trees, links |-> plan.links], leaves |-> L, nodes |-> nodes]
    BY <1>4, <1>5
  <1>7. /\ r.plan = [addresses |-> B, trees |-> plan.trees, links |-> plan.links]
        /\ r.plan.addresses = B /\ r.plan.trees = plan.trees /\ r.plan.links = plan.links
        /\ r.leaves = L /\ r.nodes = nodes
    BY <1>6
  <1>8. \A l \in L : l = <<l[1], l[2]>>
    BY <1>1 DEF L
  <1>9. IsProof(r)
    BY <1>1, <1>6, <1>7, <1>8 DEF IsProof, IsProofRecord, IsPlanRecord
  <1> QED
    BY <1>2, <1>7, <1>9 DEF r, B, L, plan, nodes

\* evaluateHMFProof reads nothing of an address whose segment has no plan, but that it has
\* one digest.
LEMMA PlannedPartVerifies ==
    ASSUME NEW q, IsProof(q), NEW A, NEW trusted
    PROVE  Verified(q, A, trusted)
             <=> ValidProofLeaves(q, A) /\ Verified(PlannedPart(q), PlannedAddresses(q), trusted)
  <1> DEFINE r == PlannedPart(q)
             B == PlannedAddresses(q)
  <1>1. /\ r.plan.addresses = B /\ r.plan.trees = q.plan.trees /\ r.plan.links = q.plan.links
        /\ r.nodes = q.nodes /\ r.leaves = {l \in q.leaves : l[1] \in B}
        /\ B = {a \in q.plan.addresses : SegmentTreeRef(a) \in TreesOf(q)}
    BY PlannedPartIs
  <1> SUFFICES ASSUME ValidProofLeaves(q, A)
               PROVE  Verified(q, A, trusted) <=> Verified(r, B, trusted)
    BY DEF Verified, TraceHMFProof, WellFormed
  <1> HIDE DEF r, B
  <1>2. ASSUME NEW p \in q.plan.trees
        PROVE  {k \in q.leaves : SegmentTreeRef(k[1]) = p.tree} = {k \in r.leaves : SegmentTreeRef(k[1]) = p.tree}
    <2>1. \A k \in q.leaves : k[1] \in q.plan.addresses
      BY DEF ValidProofLeaves
    <2>2. p.tree \in TreesOf(q)
      BY DEF TreesOf
    <2> QED
      BY <1>1, <2>1, <2>2
  <1>3. WellFormed(q, A) <=> WellFormed(r, B)
    <2>1. ValidProofLeaves(r, B)
      <3>1. \A l, k \in q.leaves : l[1] = k[1] => l = k
        BY DEF ValidProofLeaves
      <3>2. q.plan.addresses = {l[1] : l \in q.leaves}
        BY DEF ValidProofLeaves
      <3>3. {l[1] : l \in r.leaves} = B
        BY <1>1, <3>2
      <3> QED
        BY <1>1, <3>1, <3>3 DEF ValidProofLeaves
    <2>2. ValidPlansAndNodes(q) <=> ValidPlansAndNodes(r)
      BY <1>1 DEF ValidPlansAndNodes
    <2>3. ValidLinks(q) <=> ValidLinks(r)
      BY <1>1 DEF ValidLinks
    <2>4. ValidTargets(q) <=> ValidTargets(r)
      BY <1>1, <1>2 DEF ValidTargets
    <2> QED
      BY <2>1, <2>2, <2>3, <2>4 DEF WellFormed
  <1>4. \A p \in q.plan.trees : \A c : TreeTrace(q, p, c) = TreeTrace(r, p, c)
    <2> SUFFICES ASSUME NEW p \in q.plan.trees, NEW c
                 PROVE  TreeTrace(q, p, c) = TreeTrace(r, p, c)
      OBVIOUS
    <2>1. Starts(q, p, c) = Starts(r, p, c) /\ Supplied(q, p) = Supplied(r, p)
      BY <1>1, <1>2 DEF Starts, Supplied
    <2> QED
      BY <2>1, TreeTraceDef
  <1>5. \A trace, layer : TraceLayer(q, trace, layer) = TraceLayer(r, trace, layer)
    <2> SUFFICES ASSUME NEW trace, NEW layer
                 PROVE  TraceLayer(q, trace, layer) = TraceLayer(r, trace, layer)
      OBVIOUS
    <2> DEFINE plans == {p \in q.plan.trees : p.tree[1] = layer}
               U(p) == TreeTrace(q, p, trace.committed)
               V(p) == TreeTrace(r, p, trace.committed)
    <2>1. \A p \in plans : U(p) = V(p)
      BY <1>4
    <2>2. plans = {p \in r.plan.trees : p.tree[1] = layer}
      BY <1>1
    <2>3. {<<p, U(p)>> : p \in plans} = {<<p, V(p)>> : p \in plans}
      <3> HIDE DEF plans, U, V
      <3> QED
        BY <2>1
    <2> QED
      BY <2>2, <2>3, Zenon DEF TraceLayer
  <1>6. TraceLayers(q) = TraceLayers(r)
    <2> DEFINE none == [nodes |-> {}, committed |-> {}]
    <2>1. \A x : TraceLayers(x) =
             TraceLayer(x, TraceLayer(x, TraceLayer(x, TraceLayer(x, none, Segment), Shard), Region), Global)
      BY Zenon DEF TraceLayers
    <2> HIDE DEF none
    <2>2. TraceLayer(q, none, Segment) = TraceLayer(r, none, Segment)
      BY <1>5
    <2>3. TraceLayer(q, TraceLayer(q, none, Segment), Shard) = TraceLayer(r, TraceLayer(r, none, Segment), Shard)
      BY <1>5, <2>2
    <2>4. TraceLayer(q, TraceLayer(q, TraceLayer(q, none, Segment), Shard), Region)
            = TraceLayer(r, TraceLayer(r, TraceLayer(r, none, Segment), Shard), Region)
      BY <1>5, <2>3
    <2> QED
      BY <1>5, <2>1, <2>4
  <1>7. HMFTrace(q) = HMFTrace(r)
    BY <1>6, Zenon DEF HMFTrace
  <1> QED
    BY <1>3, <1>7, Zenon DEF Verified, TraceHMFProof

\* A batch for which BuildProof has a proof: sealed leaves, at least one.
LEMMA BuildNeedsLeaves ==
    ASSUME NEW store, NEW A, \A a \in A : IsAddress(a), BuildProof(store, A) # {}
    PROVE  A # {} /\ A \subseteq Leaves(store)
  <1>1. MetadataSuffices(A, store)
    <2>1. Plan(A, store) # {}
      BY DEF BuildProof
    <2> QED
      BY <2>1, PlanIs
  <1>2. ASSUME NEW a \in A
        PROVE  a \in Leaves(store)
    <2> DEFINE t == SegmentTreeRef(a)
    <2>1. a = <<t[2], t[3], t[4], a[4]>>
      BY DEF IsAddress, SegmentTreeRef
    <2> HIDE DEF t
    <2>2. t \in store.sealed /\ a[4] \in 0..(store.count[t] - 1)
      BY <1>1 DEF MetadataSuffices, t
    <2>3. a \in {<<t[2], t[3], t[4], i>> : i \in 0..(store.count[t] - 1)}
      BY <2>1, <2>2
    <2> QED
      BY <2>2, <2>3 DEF Leaves
  <1> QED
    BY <1>1, <1>2 DEF MetadataSuffices

\* The leaves of the forest are the sealed leaves of the store.
LEMMA LeafIsStored ==
    ASSUME IndInv, NEW a, IsAddress(a), IsLeaf(SealedDigests, a)
    PROVE  a \in Leaves(Store)
  <1> DEFINE t == SegmentTreeRef(a)
             sh == <<a[1], a[2]>>
             d == SealedDigests[sh][a[3] + 1]
  <1>1. t[1] = Segment /\ t[2] = a[1] /\ t[3] = a[2] /\ t[4] = a[3] /\ t = <<Segment, t[2], t[3], t[4]>>
    BY DEF SegmentTreeRef
  <1>2. sh \in Shards /\ a[3] \in 0..(Len(SealedDigests[sh]) - 1) /\ a[4] \in 0..(Len(d) - 1)
    BY DEF IsLeaf
  <1>3. Len(ForestLeaves[sh]) = Len(SealedDigests[sh])
    <2>1. CommitsTo(ForestLeaves, SealedDigests)
      BY ForestCommits DEF IndInv
    <2> HIDE DEF sh
    <2> QED
      BY <1>2, <2>1 DEF CommitsTo
  <1> HIDE DEF t, d
  <1>4. IsTree(ForestLeaves, t)
    BY <1>1, <1>2, <1>3, LayersAre DEF IsTree, IsTreeRef
  <1>5. Live(t) /\ t \in Store.sealed
    <2>1. t # GlobalTreeRef /\ t[1] # Region
      BY <1>1, LayersAre
    <2> QED
      BY <1>1, <1>4, <2>1, StoreIs DEF Live
  <1>6. Store.count[t] = Len(TreeList(ForestLeaves, SealedDigests, t))
    BY <1>5, StoreIs
  <1>7. TreeList(ForestLeaves, SealedDigests, t) = d
    <2>1. TreeList(ForestLeaves, SealedDigests, t) = SealedDigests[<<t[2], t[3]>>][t[4] + 1]
      BY <1>1 DEF TreeList, Segment, Shard, Region, Global
    <2> QED
      BY <1>1, <2>1 DEF d
  <1>8. a = <<t[2], t[3], t[4], a[4]>>
    BY <1>1 DEF IsAddress
  <1>9. a \in {<<t[2], t[3], t[4], i>> : i \in 0..(Store.count[t] - 1)}
    BY <1>2, <1>6, <1>7, <1>8
  <1> QED
    BY <1>5, <1>9 DEF Leaves

\* Whatever a proof is made of: it is accepted exactly when it is the genuine proof
\* wherever it has a plan.
LEMMA AcceptedWherePlanned ==
    ASSUME IndInv, NEW q, IsProof(q), NEW A, \A a \in A : IsAddress(a)
    PROVE  Verified(q, A, TrustedRoot) <=> GenuineWherePlanned(Store, q, A)
  <1> DEFINE r == PlannedPart(q)
             B == PlannedAddresses(q)
  <1>1. /\ IsProof(r) /\ r.plan.addresses = B
        /\ B = {a \in q.plan.addresses : SegmentTreeRef(a) \in TreesOf(r)}
    <2>1. /\ IsProof(r) /\ r.plan.addresses = B /\ r.plan.trees = q.plan.trees
          /\ B = {a \in q.plan.addresses : SegmentTreeRef(a) \in TreesOf(q)}
      BY PlannedPartIs
    <2> QED
      BY <2>1 DEF TreesOf
  <1>2. Verified(q, A, TrustedRoot) <=> ValidProofLeaves(q, A) /\ Verified(r, B, TrustedRoot)
    BY PlannedPartVerifies
  <1> SUFFICES ASSUME ValidProofLeaves(q, A)
               PROVE  Verified(r, B, TrustedRoot) <=> r \in BuildProof(Store, B)
    BY <1>2 DEF GenuineWherePlanned
  <1>3. \A a \in B : IsAddress(a) /\ SegmentTreeRef(a) \in TreesOf(r)
    BY <1>1 DEF ValidProofLeaves
  <1> HIDE DEF r, B, IsAddress
  <1>4. ASSUME Verified(r, B, TrustedRoot)
        PROVE  r \in BuildProof(Store, B)
    <2>1. ForestOver(forest, ForestLeaves) /\ CommitsTo(ForestLeaves, SealedDigests)
      BY ForestCommits DEF IndInv
    <2>2. \A a \in B : IsLeaf(SealedDigests, a)
      BY <1>3, <1>4, <2>1, VerifiedLeaves DEF TrustedRoot
    <2>3. B \subseteq Leaves(Store)
      BY <1>3, <2>2, LeafIsStored
    <2>4. WellFormed(r, B)
      BY <1>4, GlobalRootIs
    <2>5. PICK other : r.plan = PlanBuilt(B, other)
      BY <1>1, <1>3, <2>4, WellFormedIsPlanned DEF IsProof
    <2>6. B # {}
      <3>1. GlobalTreeRef \in TreesAbove(B) /\ TreesOf(r) = TreesAbove(B)
        BY <1>3, <2>4, TreesAboveAre, WellFormedTrees
      <3>2. PICK p \in r.plan.trees : p.tree = GlobalTreeRef
        BY <3>1 DEF TreesOf
      <3>3. p.targets # {}
        BY <1>3, <2>4, StartsAreTargets
      <3>4. p.targets = {l.index : l \in {k \in r.plan.links : k.parent = p.tree}}
        <4>1. p.tree[1] # Segment
          BY <3>2, LayersAre
        <4> QED
          BY <2>4, <4>1 DEF WellFormed, ValidTargets
      <3>5. PICK l \in r.plan.links : TRUE
        BY <3>3, <3>4
      <3>6. l.child \in TreesOf(r) /\ l.child # GlobalTreeRef
        BY <2>4, LayersAre DEF WellFormed, ValidLinks, TreesOf
      <3>7. B = {} => TreesAbove(B) = {GlobalTreeRef}
        BY DEF TreesAbove
      <3> QED
        BY <3>1, <3>6, <3>7
    <2>7. r = ProofBuilt(B, Store)
      BY <1>1, <1>4, <2>3, <2>5, <2>6, AcceptedIsGenuine DEF IsProof
    <2>8. BuildProof(Store, B) = {ProofBuilt(B, Store)}
      BY <2>3, <2>6, GenuineProof
    <2> QED
      BY <2>7, <2>8
  <1>5. ASSUME r \in BuildProof(Store, B)
        PROVE  Verified(r, B, TrustedRoot)
    <2>1. B # {} /\ B \subseteq Leaves(Store)
      BY <1>3, <1>5, BuildNeedsLeaves
    <2>2. BuildProof(Store, B) = {ProofBuilt(B, Store)} /\ Verified(ProofBuilt(B, Store), B, TrustedRoot)
      BY <2>1, GenuineProof
    <2> QED
      BY <1>5, <2>2
  <1> QED
    BY <1>4, <1>5

LEMMA WithHashesIs ==
    ASSUME NEW p, p = [plan |-> p.plan, leaves |-> p.leaves, nodes |-> p.nodes], NEW hashes
    PROVE  LET q == WithHashes(p, hashes)
           IN IsProofRecord(q) /\ q.plan = p.plan
  <1> DEFINE New(ref, old) == IF ref \in DOMAIN hashes THEN hashes[ref] ELSE old
             leaves == {<<l[1], New(TargetRef(l[1]), l[2])>> : l \in p.leaves}
             nodes == {<<n[1], n[2], New(<<n[1], n[2]>>, n[3])>> : n \in p.nodes}
             q == WithHashes(p, hashes)
  <1>1. /\ \A l \in leaves : l = <<l[1], l[2]>>
        /\ \A n \in nodes : n = <<n[1], n[2], n[3]>>
    <2> DEFINE G(l) == New(TargetRef(l[1]), l[2])
               F(n) == New(<<n[1], n[2]>>, n[3])
    <2>1. leaves = {<<l[1], G(l)>> : l \in p.leaves} /\ nodes = {<<n[1], n[2], F(n)>> : n \in p.nodes}
      OBVIOUS
    <2> HIDE DEF leaves, nodes, G, F
    <2>2. ASSUME NEW l \in leaves
          PROVE  l = <<l[1], l[2]>>
      <3>1. PICK x \in p.leaves : l = <<x[1], G(x)>>
        BY <2>1
      <3> QED
        BY <3>1
    <2>3. ASSUME NEW n \in nodes
          PROVE  n = <<n[1], n[2], n[3]>>
      <3>1. PICK x \in p.nodes : n = <<x[1], x[2], F(x)>>
        BY <2>1
      <3> QED
        BY <3>1
    <2> QED
      BY <2>2, <2>3
  <1>2. q = [p EXCEPT !.leaves = leaves, !.nodes = nodes]
    BY DEF WithHashes
  <1> HIDE DEF q, leaves, nodes
  <1>3. q = [plan |-> p.plan, leaves |-> leaves, nodes |-> nodes]
    BY <1>2
  <1> QED
    BY <1>1, <1>3 DEF IsProofRecord, q

LEMMA ChangedShapeIs ==
    ASSUME NEW store, NEW A, NEW q \in ChangedShapes(store, A)
    PROVE  IsProofRecord(q) /\ \E other \in ChangedMetadata(store, A) \ {store} : q.plan = PlanBuilt(A, other)
  <1> DEFINE Hash(t, k) == IF k \in DOMAIN store.nodes[t] THEN store.nodes[t][k] ELSE Foreign
             leaves == {<<a, Digest(a)>> : a \in A}
             Nodes(plan) == UNION {{<<x.tree, k, Hash(x.tree, k)>> : k \in x.required} : x \in plan.trees}
             Proof(plan) == [plan |-> plan, leaves |-> leaves, nodes |-> Nodes(plan)]
             Others == ChangedMetadata(store, A) \ {store}
  <1>1. ChangedShapes(store, A) = UNION {{Proof(plan) : plan \in Plan(A, other)} : other \in Others}
    BY DEF ChangedShapes
  <1> HIDE DEF Proof, Others
  <1>2. PICK other \in Others : \E plan \in Plan(A, other) : q = Proof(plan)
    BY <1>1
  <1>3. PICK plan \in Plan(A, other) : q = Proof(plan)
    BY <1>2
  <1>4. plan = PlanBuilt(A, other)
    BY PlanIs
  <1>5. q = [plan |-> plan, leaves |-> leaves, nodes |-> Nodes(plan)]
    BY <1>3 DEF Proof
  <1>6. \A l \in leaves : l = <<l[1], l[2]>>
    OBVIOUS
  <1>7. \A n \in Nodes(plan) : n = <<n[1], n[2], n[3]>>
    <2> SUFFICES ASSUME NEW n \in Nodes(plan)
                 PROVE  n = <<n[1], n[2], n[3]>>
      OBVIOUS
    <2> HIDE DEF Hash
    <2>1. PICK x \in plan.trees : \E k \in x.required : n = <<x.tree, k, Hash(x.tree, k)>>
      OBVIOUS
    <2> QED
      BY <2>1
  <1> HIDE DEF leaves, Nodes
  <1>8. q.plan = plan /\ q.leaves = leaves /\ q.nodes = Nodes(plan)
    BY <1>5
  <1>9. IsProofRecord(q)
    BY <1>5, <1>6, <1>7, <1>8 DEF IsProofRecord
  <1> QED
    BY <1>4, <1>8, <1>9 DEF Others

LEMMA BuiltPlanIsRecord ==
    ASSUME NEW addresses, NEW store
    PROVE  IsPlanRecord(PlanBuilt(addresses, store))
  <1> DEFINE K(t) == LinkFor(store, t)
             below == TreesAbove(addresses) \ {GlobalTreeRef}
             plan == PlanBuilt(addresses, store)
  <1>1. plan = [addresses |-> plan.addresses, trees |-> plan.trees, links |-> plan.links]
        /\ plan.links = {K(t) : t \in below}
    BY DEF PlanBuilt
  <1>2. \A t : K(t) = [child |-> K(t).child, parent |-> K(t).parent, index |-> K(t).index]
    BY DEF LinkFor
  <1> HIDE DEF plan, below, K
  <1>3. \A l \in plan.links : l = [child |-> l.child, parent |-> l.parent, index |-> l.index]
    BY <1>1, <1>2
  <1> QED
    BY <1>1, <1>3 DEF IsPlanRecord, plan

LEMMA BuildsProofs ==
    ASSUME NEW store, NEW A, NEW p \in BuildProof(store, A)
    PROVE  IsProof(p)
  <1>1. IsProofRecord(p) /\ p.plan = PlanBuilt(A, store)
    BY BuildsRecords
  <1> QED
    BY <1>1, BuiltPlanIsRecord DEF IsProof

LEMMA PartsAreProofs ==
    ASSUME NEW A, NEW store, NEW q \in ChangedParts(ProofBuilt(A, store))
    PROVE  IsProof(q)
  <1> DEFINE p == ProofBuilt(A, store)
             T == p.plan.trees
             K == p.plan.links
             L == p.leaves
             N == p.nodes
             Of(addresses, trees, links, leaves, nodes) ==
                 [plan |-> [addresses |-> addresses, trees |-> trees, links |-> links],
                  leaves |-> leaves, nodes |-> nodes]
  <1>1. /\ p = Of(A, T, K, L, N) /\ p.plan = [addresses |-> A, trees |-> T, links |-> K]
        /\ p.plan.addresses = A
    BY DEF ProofBuilt, PlanBuilt
  <1>2. /\ \A x \in T : x = [tree |-> x.tree, leafCount |-> x.leafCount, targets |-> x.targets, required |-> x.required]
        /\ \A l \in K : l = [child |-> l.child, parent |-> l.parent, index |-> l.index]
    BY DEF ProofBuilt, PlanBuilt, PlanFor, LinkFor
  <1>3. /\ \A l \in L : l = <<l[1], l[2]>>
        /\ \A n \in N : n = <<n[1], n[2], n[3]>>
    <2> DEFINE H(t, k) == store.nodes[t][k]
    <2>1. L = {<<a, H(SegmentTreeRef(a), <<0, a[4]>>)>> : a \in A}
      BY DEF ProofBuilt
    <2>2. N = UNION {{<<x.tree, k, H(x.tree, k)>> : k \in x.required} : x \in PlanBuilt(A, store).trees}
      BY DEF ProofBuilt
    <2> HIDE DEF L, N, H
    <2>3. ASSUME NEW l \in L
          PROVE  l = <<l[1], l[2]>>
      <3> DEFINE G(a) == H(SegmentTreeRef(a), <<0, a[4]>>)
      <3>1. L = {<<a, G(a)>> : a \in A}
        BY <2>1
      <3> HIDE DEF G
      <3>2. PICK a \in A : l = <<a, G(a)>>
        BY <3>1
      <3> QED
        BY <3>2
    <2>4. ASSUME NEW n \in N
          PROVE  n = <<n[1], n[2], n[3]>>
      <3>1. PICK x \in PlanBuilt(A, store).trees : \E k \in x.required : n = <<x.tree, k, H(x.tree, k)>>
        BY <2>2
      <3> QED
        BY <3>1
    <2> QED
      BY <2>3, <2>4
  <1>4. \/ \E n \in N : q = [p EXCEPT !.nodes = @ \ {n}]
        \/ \E n \in N : q = [p EXCEPT !.nodes = @ \cup {<<n[1], n[2], Foreign>>}]
        \/ \E l \in L : q = [p EXCEPT !.leaves = @ \cup {<<l[1], Foreign>>}]
        \/ \E l \in K : q = [p EXCEPT !.plan.links = @ \ {l}]
        \/ \E l \in K : q = [p EXCEPT !.plan.links = @ \cup {[l EXCEPT !.index = @ + 1]}]
        \/ \E x \in T : q = [p EXCEPT !.plan.trees = @ \ {x}]
        \/ \E x \in T : q = [p EXCEPT !.plan.trees =
                                 {[r EXCEPT !.targets = IF r = x THEN @ \cup {0} ELSE @] : r \in @}]
    BY DEF ChangedParts
  <1> HIDE DEF p, T, K, L, N
  <1>5. \/ \E n \in N : q = Of(A, T, K, L, N \ {n})
        \/ \E n \in N : q = Of(A, T, K, L, N \cup {<<n[1], n[2], Foreign>>})
        \/ \E l \in L : q = Of(A, T, K, L \cup {<<l[1], Foreign>>}, N)
        \/ \E l \in K : q = Of(A, T, K \ {l}, L, N)
        \/ \E l \in K : q = Of(A, T, K \cup {[l EXCEPT !.index = @ + 1]}, L, N)
        \/ \E x \in T : q = Of(A, T \ {x}, K, L, N)
        \/ \E x \in T : q = Of(A, {[r EXCEPT !.targets = IF r = x THEN @ \cup {0} ELSE @] : r \in T}, K, L, N)
    <2> DEFINE Raised(x) == {[r EXCEPT !.targets = IF r = x THEN @ \cup {0} ELSE @] : r \in T}
    <2>1. p = Of(A, T, K, L, N) /\ p.plan.trees = T /\ p.plan.links = K /\ p.leaves = L /\ p.nodes = N
      BY <1>1
    <2> DEFINE SetNodes(new) == [p EXCEPT !.nodes = new]
               SetLeaves(new) == [p EXCEPT !.leaves = new]
               SetLinks(new) == [p EXCEPT !.plan.links = new]
               SetTrees(new) == [p EXCEPT !.plan.trees = new]
    <2>2. \A new : /\ SetNodes(new) = Of(A, T, K, L, new)
                   /\ SetLeaves(new) = Of(A, T, K, new, N)
                   /\ SetLinks(new) = Of(A, T, new, L, N)
                   /\ SetTrees(new) = Of(A, new, K, L, N)
      BY <2>1
    <2>3. \/ \E n \in N : q = SetNodes(N \ {n})
          \/ \E n \in N : q = SetNodes(N \cup {<<n[1], n[2], Foreign>>})
          \/ \E l \in L : q = SetLeaves(L \cup {<<l[1], Foreign>>})
          \/ \E l \in K : q = SetLinks(K \ {l})
          \/ \E l \in K : q = SetLinks(K \cup {[l EXCEPT !.index = @ + 1]})
          \/ \E x \in T : q = SetTrees(T \ {x})
          \/ \E x \in T : q = SetTrees(Raised(x))
      BY <1>4, <2>1
    <2> HIDE DEF Of, Raised, SetNodes, SetLeaves, SetLinks, SetTrees
    <2>4. \/ \E n \in N : q = Of(A, T, K, L, N \ {n})
          \/ \E n \in N : q = Of(A, T, K, L, N \cup {<<n[1], n[2], Foreign>>})
          \/ \E l \in L : q = Of(A, T, K, L \cup {<<l[1], Foreign>>}, N)
          \/ \E l \in K : q = Of(A, T, K \ {l}, L, N)
          \/ \E l \in K : q = Of(A, T, K \cup {[l EXCEPT !.index = @ + 1]}, L, N)
          \/ \E x \in T : q = Of(A, T \ {x}, K, L, N)
          \/ \E x \in T : q = Of(A, Raised(x), K, L, N)
      BY <2>2, <2>3
    <2> QED
      BY <2>4 DEF Of, Raised
  <1>6. ASSUME NEW trees,
               NEW links, \A l \in links : l = [child |-> l.child, parent |-> l.parent, index |-> l.index],
               NEW leaves, \A l \in leaves : l = <<l[1], l[2]>>,
               NEW nodes, \A n \in nodes : n = <<n[1], n[2], n[3]>>
        PROVE  IsProof(Of(A, trees, links, leaves, nodes))
    BY <1>6 DEF IsProof, IsProofRecord, IsPlanRecord
  <1> DEFINE Link(l) == l = [child |-> l.child, parent |-> l.parent, index |-> l.index]
             Pair(l) == l = <<l[1], l[2]>>
             Triple(n) == n = <<n[1], n[2], n[3]>>
  <1>7. /\ \A l \in K : Link(l) /\ Link([l EXCEPT !.index = @ + 1])
        /\ \A l \in L : Pair(l) /\ Pair(<<l[1], Foreign>>)
        /\ \A n \in N : Triple(n) /\ Triple(<<n[1], n[2], Foreign>>)
    BY <1>2, <1>3
  <1>8. \A trees, links, leaves, nodes :
           (\A l \in links : Link(l)) /\ (\A l \in leaves : Pair(l)) /\ (\A n \in nodes : Triple(n))
             => IsProof(Of(A, trees, links, leaves, nodes))
    BY <1>6
  <1> DEFINE Raised(x) == {[r EXCEPT !.targets = IF r = x THEN @ \cup {0} ELSE @] : r \in T}
  <1>9. \/ \E n \in N : q = Of(A, T, K, L, N \ {n})
        \/ \E n \in N : q = Of(A, T, K, L, N \cup {<<n[1], n[2], Foreign>>})
        \/ \E l \in L : q = Of(A, T, K, L \cup {<<l[1], Foreign>>}, N)
        \/ \E l \in K : q = Of(A, T, K \ {l}, L, N)
        \/ \E l \in K : q = Of(A, T, K \cup {[l EXCEPT !.index = @ + 1]}, L, N)
        \/ \E x \in T : q = Of(A, T \ {x}, K, L, N)
        \/ \E x \in T : q = Of(A, Raised(x), K, L, N)
    BY <1>5
  <1> HIDE DEF Of, Link, Pair, Triple, Raised, T, K, L, N
  <1>10. ASSUME NEW links, \A l \in links : Link(l), NEW leaves, \A l \in leaves : Pair(l),
                NEW nodes, \A n \in nodes : Triple(n), NEW trees, q = Of(A, trees, links, leaves, nodes)
         PROVE  IsProof(q)
    BY <1>8, <1>10
  <1>11. ASSUME NEW n \in N, q = Of(A, T, K, L, N \ {n})
         PROVE  IsProof(q)
    BY <1>7, <1>10, <1>11
  <1>12. ASSUME NEW n \in N, q = Of(A, T, K, L, N \cup {<<n[1], n[2], Foreign>>})
         PROVE  IsProof(q)
    <2>1. \A k \in N \cup {<<n[1], n[2], Foreign>>} : Triple(k)
      BY <1>7
    <2> QED
      BY <1>7, <1>10, <1>12, <2>1
  <1>13. ASSUME NEW l \in L, q = Of(A, T, K, L \cup {<<l[1], Foreign>>}, N)
         PROVE  IsProof(q)
    <2>1. \A k \in L \cup {<<l[1], Foreign>>} : Pair(k)
      BY <1>7
    <2> QED
      BY <1>7, <1>10, <1>13, <2>1
  <1>14. ASSUME NEW l \in K, q = Of(A, T, K \ {l}, L, N)
         PROVE  IsProof(q)
    BY <1>7, <1>10, <1>14
  <1>15. ASSUME NEW l \in K, q = Of(A, T, K \cup {[l EXCEPT !.index = @ + 1]}, L, N)
         PROVE  IsProof(q)
    <2>1. \A k \in K \cup {[l EXCEPT !.index = @ + 1]} : Link(k)
      BY <1>7
    <2> QED
      BY <1>7, <1>10, <1>15, <2>1
  <1>16. ASSUME NEW trees, q = Of(A, trees, K, L, N)
         PROVE  IsProof(q)
    BY <1>7, <1>10, <1>16
  <1> QED
    BY <1>9, <1>11, <1>12, <1>13, <1>14, <1>15, <1>16

LEMMA LeftOutAreProofs ==
    ASSUME NEW store, NEW A, NEW q \in LeftOut(store, A)
    PROVE  IsProof(q)
  <1> DEFINE Given(B) == {GivenFor(A, p, A \ B, foreign) : p \in BuildProof(store, B), foreign \in SUBSET (A \ B)}
  <1>a. LeftOut(store, A) = UNION {Given(B) : B \in (SUBSET A) \ {A}}
    BY DEF LeftOut
  <1> HIDE DEF Given
  <1>b. PICK B \in (SUBSET A) \ {A} : q \in Given(B)
    BY <1>a
  <1>1. \E p \in BuildProof(store, B) : \E foreign \in SUBSET (A \ B) : q = GivenFor(A, p, A \ B, foreign)
    BY <1>b DEF Given
  <1>2. PICK p \in BuildProof(store, B) : \E foreign \in SUBSET (A \ B) : q = GivenFor(A, p, A \ B, foreign)
    BY <1>1
  <1>3. PICK foreign \in SUBSET (A \ B) : q = GivenFor(A, p, A \ B, foreign)
    BY <1>2
  <1> DEFINE new == {<<a, IF a \in foreign THEN Foreign ELSE Digest(a)>> : a \in A \ B}
             plan == p.plan
             nodes == p.nodes
             leaves == p.leaves
  <1>4. /\ p = [plan |-> plan, leaves |-> leaves, nodes |-> nodes]
        /\ plan = [addresses |-> plan.addresses, trees |-> plan.trees, links |-> plan.links]
        /\ \A l \in plan.links : l = [child |-> l.child, parent |-> l.parent, index |-> l.index]
        /\ \A l \in leaves : l = <<l[1], l[2]>>
        /\ \A n \in nodes : n = <<n[1], n[2], n[3]>>
    BY BuildsProofs DEF IsProof, IsProofRecord, IsPlanRecord
  <1>5. \A l \in new : l = <<l[1], l[2]>>
    <2> DEFINE G(a) == IF a \in foreign THEN Foreign ELSE Digest(a)
    <2>1. new = {<<a, G(a)>> : a \in A \ B}
      OBVIOUS
    <2> HIDE DEF new, G
    <2> QED
      BY <2>1
  <1>6. q = [p EXCEPT !.plan.addresses = A, !.leaves = leaves \cup new]
    BY <1>3 DEF GivenFor
  <1> HIDE DEF new, leaves
  <1>7. q = [plan |-> [plan EXCEPT !.addresses = A], leaves |-> leaves \cup new, nodes |-> nodes]
    BY <1>4, <1>6
  <1>8. [plan EXCEPT !.addresses = A] = [addresses |-> A, trees |-> plan.trees, links |-> plan.links]
    BY <1>4
  <1> HIDE DEF plan, nodes
  <1>9. q = [plan |-> [addresses |-> A, trees |-> plan.trees, links |-> plan.links],
             leaves |-> leaves \cup new, nodes |-> nodes]
    BY <1>7, <1>8
  <1> QED
    BY <1>4, <1>5, <1>9 DEF IsProof, IsProofRecord, IsPlanRecord

LEMMA IndGivesPlansVerified == IndInv => OnlyPlansAreVerified
  <1> SUFFICES ASSUME IndInv, NEW A \in UpTo(MaxAddresses, Leaves(Store)), NEW p \in BuildProof(Store, A),
                      NEW q \in {WithHashes(p, h) : h \in ChangedHashes(p)} \cup ChangedShapes(Store, A)
                                   \cup ChangedParts(p) \cup LeftOut(Store, A)
               PROVE  Verified(q, A, TrustedRoot) <=> GenuineWherePlanned(Store, q, A)
    BY DEF OnlyPlansAreVerified
  <1>1. A \subseteq Leaves(Store) /\ A # {}
    BY AuditAssumption, UpToIs
  <1>2. p = ProofBuilt(A, Store)
    BY <1>1, GenuineProof
  <1>3. \A a \in A : IsAddress(a)
    BY <1>1, LeavesOfStore
  <1>4. CASE q \in {WithHashes(p, h) : h \in ChangedHashes(p)}
    <2>1. PICK h : q = WithHashes(p, h)
      BY <1>4
    <2>2. p = [plan |-> p.plan, leaves |-> p.leaves, nodes |-> p.nodes] /\ IsPlanRecord(p.plan)
      BY BuildsProofs DEF IsProof, IsProofRecord
    <2>3. IsProof(q)
      BY <2>1, <2>2, WithHashesIs DEF IsProof
    <2> QED
      BY <1>3, <2>3, AcceptedWherePlanned
  <1>5. CASE q \in ChangedShapes(Store, A)
    <2>1. IsProof(q)
      BY <1>5, ChangedShapeIs, BuiltPlanIsRecord DEF IsProof
    <2> QED
      BY <1>3, <2>1, AcceptedWherePlanned
  <1>6. CASE q \in ChangedParts(p)
    <2>1. IsProof(q)
      BY <1>2, <1>6, PartsAreProofs
    <2> QED
      BY <1>3, <2>1, AcceptedWherePlanned
  <1>7. CASE q \in LeftOut(Store, A)
    <2>1. IsProof(q)
      BY <1>7, LeftOutAreProofs
    <2> QED
      BY <1>3, <2>1, AcceptedWherePlanned
  <1> QED
    BY <1>4, <1>5, <1>6, <1>7

-----------------------------------------------------------------------------
(* Localization over a forest *)

\* The genuine proof, as localization needs it.
LEMMA GenuineIsShaped ==
    ASSUME IndInv, NEW A, A # {}, A \subseteq Leaves(Store)
    PROVE  LET p == ProofBuilt(A, Store)
           IN /\ WellShaped(p, A) /\ IsProofRecord(p) /\ p.plan = PlanBuilt(A, Store)
              /\ \A a \in A : SegmentTreeRef(a) \in TreesOf(p)
  <1> DEFINE p == ProofBuilt(A, Store)
             list(t) == TreeList(ForestLeaves, SealedDigests, t)
  <1>1. ForestOver(forest, ForestLeaves) /\ CommitsTo(ForestLeaves, SealedDigests)
    BY ForestCommits DEF IndInv
  <1>2. Serves(Store, ForestLeaves, SealedDigests, A)
    BY StoreServes
  <1>3. /\ \A a \in A : IsAddress(a) /\ IsLeaf(SealedDigests, a)
        /\ \A t \in TreesAbove(A) : Store.count[t] = Len(list(t))
    BY <1>2 DEF Serves, HasRows
  <1>4. \A t \in TreesAbove(A) : IsTree(ForestLeaves, t)
    BY <1>1, <1>3, TreesAreTrees
  <1>5. \A t \in TreesAbove(A) : IsList(list(t))
    BY <1>1, <1>4, TreeIsList
  <1>6. p.plan = PlanBuilt(A, Store) /\ p.plan.trees = {PlanFor(A, Store, t) : t \in TreesAbove(A)}
    BY DEF ProofBuilt, PlanBuilt
  <1>7. \A t : PlanFor(A, Store, t).tree = t /\ PlanFor(A, Store, t).leafCount = Store.count[t]
    BY DEF PlanFor
  <1>8. WellFormed(p, A) /\ BuildProof(Store, A) = {p}
    BY GenuineProof
  <1>9. IsProofRecord(p)
    BY <1>8, BuildsRecords
  <1> HIDE DEF p, list
  <1>10. \A x \in p.plan.trees : \E l : IsList(l) /\ Len(l) = x.leafCount
    BY <1>3, <1>5, <1>6, <1>7
  <1>11. \A a \in A : SegmentTreeRef(a) \in TreesOf(p)
    <2>1. \A a \in A : SegmentTreeRef(a) \in TreesAbove(A)
      BY TreesAboveAre
    <2> QED
      BY <1>6, <1>7, <2>1 DEF TreesOf
  <1>12. WellShaped(p, A)
    <2> HIDE DEF IsAddress
    <2> QED
      BY <1>3, <1>8, <1>10 DEF WellShaped
  <1> QED
    BY <1>6, <1>9, <1>11, <1>12 DEF p

\* Whatever store the reference comes from, it is the genuine proof: localization blames
\* exactly the hashes that differ from it, and gives nothing for the genuine proof itself.
LEMMA LocalizationBlames ==
    ASSUME IndInv, NEW A, A # {}, A \subseteq Leaves(Store), NEW p, p = ProofBuilt(A, Store),
           NEW hashes, DOMAIN hashes \subseteq Refs(p),
           NEW store
    PROVE  LET q == WithHashes(p, hashes)
               changed == {ref \in DOMAIN hashes : HashAt(p, ref) # hashes[ref]}
           IN /\ \A answer \in Localize(store, q, A, TrustedRoot) :
                    changed # {} /\ Blames(answer, changed, A) /\ VerifyProof(answer, A, TrustedRoot)
              /\ changed # {} => Localize(Store, q, A, TrustedRoot) # {}
  <1> DEFINE q == WithHashes(p, hashes)
             changed == {ref \in DOMAIN hashes : HashAt(p, ref) # hashes[ref]}
             Answer(r) == [failed |-> q, reference |-> r,
                           result |-> Analyze(A, q, r, HMFTrace(q), CHOOSE t \in TraceHMFProof(r, A) : TRUE)]
  <1>1. /\ WellShaped(p, A) /\ IsProofRecord(p) /\ p.plan = PlanBuilt(A, Store)
        /\ \A a \in A : SegmentTreeRef(a) \in TreesOf(p)
    BY GenuineIsShaped
  <1>2. BuildProof(Store, A) = {p} /\ WellFormed(p, A) /\ Verified(p, A, TrustedRoot)
    BY GenuineProof
  <1>3. Alike(q, p, A) /\ Changed(q, p) = changed /\ (changed = {} => q = p)
    BY <1>1, HashesReplaced
  <1>4. IsProofRecord(q) /\ q.plan = PlanBuilt(A, Store) /\ WellFormed(q, A)
    <2>1. p = [plan |-> p.plan, leaves |-> p.leaves, nodes |-> p.nodes]
      BY <1>1 DEF IsProofRecord
    <2>2. IsProofRecord(q) /\ q.plan = p.plan
      BY <2>1, WithHashesIs
    <2> QED
      BY <1>1, <1>3, <2>2 DEF Alike, WellShaped
  <1>5. TraceHMFProof(p, A) = {HMFTrace(p)} /\ GlobalRoot(HMFTrace(p)) = TrustedRoot
    BY <1>2 DEF TraceHMFProof, Verified
  <1>6. Accuses(Analyze(A, q, p, HMFTrace(q), HMFTrace(p)), changed, A)
    <2> HIDE DEF q, changed
    <2> QED
      BY <1>1, <1>3, AnalyzeBlames
  <1>7. ASSUME NEW other, NEW r \in AuthenticatedReference(other, q, A, TrustedRoot)
        PROVE  r = p
    <2> HIDE DEF q
    <2>1. IsProofRecord(r) /\ Verified(r, A, TrustedRoot)
      BY <1>4, ReferencesAre
    <2>2. \E x : r.plan = PlanBuilt(A, x)
      BY <1>4, ReferencesAre
    <2> QED
      BY <2>1, <2>2, AcceptedIsGenuine
  <1>8. changed # {} <=> GlobalRoot(HMFTrace(q)) # TrustedRoot
    <2>1. ASSUME GlobalRoot(HMFTrace(q)) = TrustedRoot
          PROVE  changed = {}
      <3>1. Verified(q, A, TrustedRoot)
        BY <1>4, <2>1 DEF Verified, TraceHMFProof
      <3>2. q = p
        <4> HIDE DEF q
        <4> QED
          BY <1>4, <3>1, AcceptedIsGenuine
      <3>3. Changed(p, p) = {}
        BY DEF Changed
      <3> QED
        BY <1>3, <3>2, <3>3
    <2>2. ASSUME changed = {}
          PROVE  GlobalRoot(HMFTrace(q)) = TrustedRoot
      BY <1>3, <1>5, <2>2
    <2> QED
      BY <2>1, <2>2
  <1>9. Answer(p).result = Analyze(A, q, p, HMFTrace(q), HMFTrace(p))
        /\ Answer(p).failed = q /\ Answer(p).reference = p
    BY <1>5
  <1> HIDE DEF q, changed
  <1>10. /\ \A answer \in Localize(store, q, A, TrustedRoot) :
               /\ GlobalRoot(HMFTrace(q)) # TrustedRoot
               /\ \E r \in AuthenticatedReference(store, q, A, TrustedRoot) : answer = Answer(r)
         /\ GlobalRoot(HMFTrace(q)) # TrustedRoot =>
               \A r \in AuthenticatedReference(Store, q, A, TrustedRoot) : Answer(r) \in Localize(Store, q, A, TrustedRoot)
    <2>1. \A answer \in Localize(store, q, A, TrustedRoot) :
             /\ GlobalRoot(HMFTrace(q)) # TrustedRoot
             /\ \E r \in AuthenticatedReference(store, q, A, TrustedRoot) : answer = Answer(r)
      BY AnswersAre
    <2>2. WellFormed(q, A) /\ GlobalRoot(HMFTrace(q)) # TrustedRoot =>
             \A r \in AuthenticatedReference(Store, q, A, TrustedRoot) : Answer(r) \in Localize(Store, q, A, TrustedRoot)
      BY AnswersAre
    <2> QED
      BY <1>4, <2>1, <2>2
  <1> HIDE DEF Answer
  <1>11. ASSUME NEW answer \in Localize(store, q, A, TrustedRoot)
         PROVE  changed # {} /\ Blames(answer, changed, A) /\ VerifyProof(answer, A, TrustedRoot)
    <2>1. answer = Answer(p) /\ GlobalRoot(HMFTrace(q)) # TrustedRoot
      BY <1>7, <1>10
    <2>2. changed # {}
      BY <1>8, <2>1
    <2>3. Blames(answer, changed, A)
      BY <1>6, <1>9, <2>1 DEF Blames, Accuses, ShardOf
    <2>4. HMFTrace(q) \in TraceHMFProof(q, A) /\ HMFTrace(p) \in TraceHMFProof(p, A)
      BY <1>4, <1>5 DEF TraceHMFProof
    <2>5. VerifyProof(answer, A, TrustedRoot)
      BY <1>5, <1>9, <2>1, <2>4 DEF VerifyProof
    <2> QED
      BY <2>2, <2>3, <2>5
  <1>12. ASSUME changed # {}
         PROVE  Localize(Store, q, A, TrustedRoot) # {}
    <2>1. p \in BuildAndVerify(Store, A, TrustedRoot)
      BY <1>2 DEF BuildAndVerify
    <2>2. AuthenticatedReference(Store, q, A, TrustedRoot) # {}
      BY <2>1 DEF AuthenticatedReference
    <2>3. PICK r : r \in AuthenticatedReference(Store, q, A, TrustedRoot)
      BY <2>2
    <2> QED
      BY <1>8, <1>10, <1>12, <2>3
  <1> QED
    BY <1>11, <1>12 DEF q, changed

\* A tree's nodes are the ones its levels have; so are those that an update wrote for a
\* target, on its path and beside it.
LEMMA StoredNodesAre ==
    ASSUME NEW list, IsList(list), Len(list) > 0, NEW T, T \subseteq 0..(Len(list) - 1), T # {},
           NEW table, table = RefNodes(list) \/ \A s \in T : StoredPath(table, RefNodes(list), s)
    PROVE  \A k \in TraceNodes(T, Len(list)) : k \in DOMAIN table => table[k] = NodeOf(list, k)
  <1> DEFINE H == BitsLen[Len(list) - 1]
             ref == RefNodes(list)
             tree == RegionTree(list)
  <1>1. /\ H \in Nat
        /\ \A k \in DOMAIN ref : \E l \in 0..H, i \in Nat : k = <<l, i>> /\ i < Len(tree[l + 1])
        /\ \A l \in 0..H, i \in Nat : i < Len(tree[l + 1]) =>
              <<l, i>> \in DOMAIN ref /\ ref[<<l, i>>] = tree[l + 1][i + 1]
    BY RefIsTree
  <1>2. \A k \in TraceNodes(T, Len(list)) :
           k = <<k[1], k[2]>> /\ k[1] \in 0..H /\ k[2] \in Nat /\ k[2] < Widths(list)[k[1]]
    BY TraceShape
  <1>3. \A l \in 0..H : Widths(list)[l] = Len(tree[l + 1])
    BY DEF Widths
  <1>5. \A k \in OnTheWay(T, H) : k = <<k[1], k[2]>> /\ k[1] \in 0..H /\ k[2] \in Active(T, k[1])
    <2>1. T \subseteq Nat
      BY DEF IsList
    <2> QED
      BY <1>1, <2>1, NodesOnWay
  <1>6. (\A s \in T : StoredPath(table, ref, s)) => \A k \in RequiredAbove(T, Len(list)) : table[k] = NodeOf(list, k)
    BY RequiredOnPaths
  <1> HIDE DEF ref, tree, H
  <1> SUFFICES ASSUME NEW k \in TraceNodes(T, Len(list)), k \in DOMAIN table
               PROVE  table[k] = NodeOf(list, k)
    OBVIOUS
  <1>7. k \in DOMAIN ref /\ ref[k] = NodeOf(list, k)
    <2> DEFINE l == k[1]
               i == k[2]
    <2>1. k = <<l, i>> /\ l \in 0..H /\ i \in Nat /\ i < Len(tree[l + 1])
      BY <1>2, <1>3
    <2>2. NodeOf(list, k) = tree[l + 1][i + 1]
      BY DEF NodeOf, tree
    <2> HIDE DEF l, i
    <2> QED
      BY <1>1, <2>1, <2>2
  <1>8. CASE table = ref
    BY <1>7, <1>8
  <1>9. CASE (\A s \in T : StoredPath(table, ref, s)) /\ k \in RequiredAbove(T, Len(list))
    BY <1>6, <1>9
  <1>10. CASE (\A s \in T : StoredPath(table, ref, s)) /\ k \in OnTheWay(T, H)
    <2> DEFINE l == k[1]
               i == k[2]
    <2>1. k = <<l, i>> /\ l \in 0..H /\ i \in Active(T, l)
      BY <1>5, <1>10
    <2> HIDE DEF l, i
    <2>2. PICK s \in T : i = Ancestor(s, l)
      BY <2>1 DEF Active
    <2>3. KeysUpTo(ref, H)
      BY <1>1 DEF KeysUpTo
    <2>4. HoldsPath(table, ref, s, H)
      BY <1>10, <2>3, StoredPathDef
    <2>5. i \in Nat
      BY <1>2 DEF i
    <2>6. table[<<l, i>>] = ref[<<l, i>>]
      BY <1>7, <2>1, <2>2, <2>4, <2>5 DEF HoldsPath
    <2> QED
      BY <1>7, <2>1, <2>6
  <1> QED
    BY <1>8, <1>9, <1>10 DEF TraceNodes, H, ref

\* What the store has at a node of the genuine proof's trace is what the trace has there.
LEMMA TraceIsStored ==
    ASSUME IndInv, NEW A, A # {}, A \subseteq Leaves(Store), NEW p, p = ProofBuilt(A, Store),
           NEW t \in TreesAbove(A), NEW k \in DOMAIN ReferenceNodes(p, t), k \in DOMAIN Store.nodes[t]
    PROVE  Store.nodes[t][k] = ReferenceNodes(p, t)[k]
  <1> DEFINE list == TreeList(ForestLeaves, SealedDigests, t)
             T == Targets(A, Store, t)
             f == ReferenceNodes(p, t)
             table == Store.nodes[t]
             x == PlanFor(A, Store, t)
             C == TraceLayers(p).committed
  <1>1. HoldsTree(A, t)
    BY StoreHoldsTrees
  <1>2. /\ IsList(list) /\ Len(list) > 0 /\ T \subseteq 0..(Len(list) - 1) /\ Store.count[t] = Len(list)
        /\ table = RefNodes(list) \/ \A s \in T : StoredPath(table, RefNodes(list), s)
    BY <1>1 DEF HoldsTree
  <1>3. x \in p.plan.trees /\ x.tree = t /\ x.leafCount = Len(list) /\ x.targets = T
    BY <1>2 DEF ProofBuilt, PlanBuilt, PlanFor
  <1>4. WellShaped(p, A) /\ Verified(p, A, TrustedRoot)
    BY GenuineIsShaped, GenuineProof
  <1>5. /\ ForestOver(forest, ForestLeaves) /\ CommitsTo(ForestLeaves, SealedDigests)
        /\ WellFormed(p, A) /\ ValidPlansAndNodes(p) /\ ValidLinks(p)
    BY <1>4, ForestCommits DEF IndInv, WellShaped, WellFormed
  <1>6. \A a \in A : IsAddress(a)
    BY <1>4 DEF WellShaped
  <1>7. TreeGood(p, ForestLeaves, SealedDigests, x)
    <2> HIDE DEF IsAddress, x
    <2> QED
      BY <1>3, <1>4, <1>5, <1>6, AllGood DEF TrustedRoot
  <1>8. TreeHolds(p, x, C, list)
    BY <1>3, <1>7 DEF TreeGood
  <1>9. f = TreeTrace(p, x, C)
    <2> HIDE DEF x
    <2> QED
      BY <1>3, <1>5, TraceIs DEF ReferenceNodes
  <1> HIDE DEF list, T, f, table, x, C
  <1>10. T # {} /\ DOMAIN f = TraceNodes(T, Len(list))
    <2>1. IsTraceOf(HMFTrace(p).nodes[x.tree], list, x.targets) /\ x.targets # {}
      BY <1>2, <1>3, <1>4, TraceSays, PlanSays
    <2> QED
      BY <1>3, <2>1 DEF IsTraceOf, f, ReferenceNodes
  <1>11. TracesTree(f, RegionTree(list))
    <2> HIDE DEF IsAddress
    <2> QED
      BY <1>2, <1>3, <1>5, <1>6, <1>8, <1>9, TreeNodesAre
  <1>12. k \in TraceNodes(T, Len(list)) /\ k = <<k[1], k[2]>> /\ k[1] \in Nat
    <2>1. k \in TraceNodes(T, Len(list))
      BY <1>10 DEF f
    <2>2. BitsLen[Len(list) - 1] \in Nat
      BY <1>2, WidthsAre
    <2>3. \A j \in TraceNodes(T, Len(list)) : j = <<j[1], j[2]>> /\ j[1] \in 0..BitsLen[Len(list) - 1]
      BY <1>2, <1>10, TraceShape
    <2> QED
      BY <2>1, <2>2, <2>3
  <1>13. f[k] = NodeOf(list, k)
    <2> DEFINE l == k[1]
               c == k[2]
    <2>1. k = <<l, c>> /\ l \in Nat
      BY <1>12
    <2>2. NodeOf(list, k) = RegionTree(list)[l + 1][c + 1]
      BY DEF NodeOf
    <2> HIDE DEF l, c
    <2> QED
      BY <1>10, <1>11, <1>12, <2>1, <2>2 DEF TracesTree
  <1>14. table[k] = NodeOf(list, k)
    <2>1. k \in DOMAIN table
      BY DEF table
    <2> QED
      BY <1>2, <1>10, <1>12, <2>1, StoredNodesAre
  <1> QED
    BY <1>13, <1>14 DEF f, table

\* A plan has the leaf counts and the indices of these rows.
PlanShows(A, store, proof) ==
    /\ TreesOf(proof) = TreesAbove(A)
    /\ \A t \in TreesAbove(A) : CountOf(proof, t) = store.count[t]
    /\ \A x \in proof.plan.trees : x.tree \in TreesAbove(A) /\ x.leafCount = store.count[x.tree]
    /\ \A t \in TreesAbove(A) \ {GlobalTreeRef} :
          /\ \A l \in proof.plan.links : l.child = t => l.index = store.index[t]
          /\ \E l \in proof.plan.links : l.child = t

\* What a plan says of the rows it was made from.
LEMMA PlanTells ==
    ASSUME NEW A, NEW store, NEW proof, proof.plan = PlanBuilt(A, store)
    PROVE  PlanShows(A, store, proof)
  <1> DEFINE F(t) == PlanFor(A, store, t)
             K(t) == LinkFor(store, t)
             trees == TreesAbove(A)
  <1>1. proof.plan.trees = {F(t) : t \in trees} /\ proof.plan.links = {K(t) : t \in trees \ {GlobalTreeRef}}
    BY DEF PlanBuilt
  <1>2. \A t : F(t).tree = t /\ F(t).leafCount = store.count[t]
    BY DEF PlanFor
  <1>3. \A t : K(t).child = t /\ K(t).index = store.index[t]
    BY DEF LinkFor
  <1> HIDE DEF F, K, trees
  <1>4. TreesOf(proof) = trees
    BY <1>1, <1>2 DEF TreesOf
  <1>5. ASSUME NEW t \in trees
        PROVE  CountOf(proof, t) = store.count[t]
    <2>1. F(t) \in proof.plan.trees /\ \A x \in proof.plan.trees : x.tree = t => x = F(t)
      BY <1>1, <1>2
    <2>2. (CHOOSE x \in proof.plan.trees : x.tree = t) = F(t)
      BY <1>2, <2>1
    <2> QED
      BY <1>2, <2>2 DEF CountOf
  <1>6. \A x \in proof.plan.trees : x.tree \in trees /\ x.leafCount = store.count[x.tree]
    BY <1>1, <1>2
  <1>7. \A t \in trees \ {GlobalTreeRef} :
           /\ \A l \in proof.plan.links : l.child = t => l.index = store.index[t]
           /\ \E l \in proof.plan.links : l.child = t
    BY <1>1, <1>3
  <1> QED
    BY <1>4, <1>5, <1>6, <1>7 DEF trees, PlanShows

LEMMA IndGivesExact == IndInv => LocalizesExactly
  <1> SUFFICES ASSUME IndInv, NEW A \in UpTo(MaxAddresses, Leaves(Store)), NEW p \in BuildProof(Store, A),
                      NEW h \in ChangedHashes(p)
               PROVE  LET changed == {ref \in DOMAIN h : HashAt(p, ref) # h[ref]}
                          answers == Localize(Store, WithHashes(p, h), A, TrustedRoot)
                      IN IF changed = {} THEN answers = {}
                         ELSE \E answer \in answers : Blames(answer, changed, A)
    BY DEF LocalizesExactly
  <1>1. A \subseteq Leaves(Store) /\ A # {}
    BY AuditAssumption, UpToIs
  <1>2. p = ProofBuilt(A, Store)
    BY <1>1, GenuineProof
  <1>3. DOMAIN h \subseteq Refs(p)
    <2>1. \/ \E R \in UpTo(2, Refs(p)) : h = [ref \in R |-> Foreign]
          \/ \E R \in kSubset(2, Refs(p)) : h = [ref \in R |-> HashAt(p, CHOOSE other \in R : other # ref)]
      BY DEF ChangedHashes
    <2>2. \A R \in UpTo(2, Refs(p)) : R \subseteq Refs(p)
      BY UpToIs
    <2>3. \A R \in kSubset(2, Refs(p)) : R \subseteq Refs(p)
      BY DEF kSubset
    <2> QED
      BY <2>1, <2>2, <2>3
  <1> DEFINE changed == {ref \in DOMAIN h : HashAt(p, ref) # h[ref]}
             answers == Localize(Store, WithHashes(p, h), A, TrustedRoot)
  <1>4. /\ \A answer \in answers : changed # {} /\ Blames(answer, changed, A)
        /\ changed # {} => answers # {}
    BY <1>1, <1>2, <1>3, LocalizationBlames
  <1> HIDE DEF changed, answers
  <1>5. IF changed = {} THEN answers = {} ELSE \E answer \in answers : Blames(answer, changed, A)
    BY <1>4
  <1> QED
    BY <1>5 DEF changed, answers

\* Rows that give the same plans.
RowsAgree(A, other, store) ==
    /\ \A t \in TreesAbove(A) : other.count[t] = store.count[t]
    /\ \A t \in TreesAbove(A) \ {GlobalTreeRef} : other.index[t] = store.index[t]

\* What a change of a store makes of its rows.
LEMMA ChangesAre ==
    ASSUME NEW N, NEW C, NEW I, NEW S, NEW store,
           store = [nodes |-> N, count |-> C, index |-> I, sealed |-> S], NEW t, NEW x
    PROVE  /\ Recounted(store, t, x) = [nodes |-> N, count |-> [C EXCEPT ![t] = x], index |-> I, sealed |-> S]
           /\ Moved(store, t, x) = [nodes |-> N, count |-> C, index |-> [I EXCEPT ![t] = x], sealed |-> S]
           /\ Exchanged(store, t, x) =
                 [nodes |-> N, count |-> C, index |-> [[I EXCEPT ![t] = I[x]] EXCEPT ![x] = I[t]], sealed |-> S]
  <1>1. Recounted(store, t, x) = [nodes |-> N, count |-> [C EXCEPT ![t] = x], index |-> I, sealed |-> S]
    BY DEF Recounted
  <1>2. Moved(store, t, x) = [nodes |-> N, count |-> C, index |-> [I EXCEPT ![t] = x], sealed |-> S]
    BY DEF Moved
  <1> DEFINE once == [store EXCEPT !.index[t] = store.index[x]]
             J == [I EXCEPT ![t] = I[x]]
  <1>3. Exchanged(store, t, x) = [once EXCEPT !.index[x] = store.index[t]]
    BY DEF Exchanged
  <1>4. once = [nodes |-> N, count |-> C, index |-> J, sealed |-> S]
    OBVIOUS
  <1> HIDE DEF once, J
  <1>5. [once EXCEPT !.index[x] = store.index[t]] = [nodes |-> N, count |-> C, index |-> [J EXCEPT ![x] = I[t]], sealed |-> S]
    BY <1>4
  <1> QED
    BY <1>1, <1>2, <1>3, <1>5 DEF J

\* A function of the trees with rows.
IsRow(f, D) == f = [t \in D |-> f[t]]

\* The changed metadata differ from the store's in a row that a plan shows.
LEMMA ChangedMetadataIs ==
    ASSUME NEW A, NEW N, NEW C, NEW I, NEW S, NEW store,
           store = [nodes |-> N, count |-> C, index |-> I, sealed |-> S],
           NEW D, IsRow(C, D), IsRow(I, D), TreesAbove(A) \subseteq D,
           \A t \in TreesAbove(A) : C[t] \in Nat,
           NEW other \in ChangedMetadata(store, A)
    PROVE  /\ \A t \in TreesAbove(A) : other.count[t] \in Nat
           /\ RowsAgree(A, other, store) => other = store
  <1> DEFINE trees == TreesAbove(A)
             movable == trees \ {GlobalTreeRef}
             Of(c, i) == [nodes |-> N, count |-> c, index |-> i, sealed |-> S]
             Count(t, c) == [C EXCEPT ![t] = c]
             Index(t, i) == [I EXCEPT ![t] = i]
             Swap(t, u) == [[I EXCEPT ![t] = I[u]] EXCEPT ![u] = I[t]]
  <1>1. \/ \E t \in trees, c \in 1..4 : other = Recounted(store, t, c)
        \/ \E t \in movable, i \in 0..3 : other = Moved(store, t, i)
        \/ \E t, u \in movable : other = Exchanged(store, t, u)
    BY DEF ChangedMetadata
  <1>2. /\ store = Of(C, I) /\ store.count = C /\ store.index = I
        /\ \A c, i : Of(c, i).count = c /\ Of(c, i).index = i
    OBVIOUS
  <1>3. ASSUME NEW t, NEW x
        PROVE  /\ Recounted(store, t, x) = Of(Count(t, x), I)
               /\ Moved(store, t, x) = Of(C, Index(t, x))
               /\ Exchanged(store, t, x) = Of(C, Swap(t, x))
    BY ChangesAre
  <1>6. \/ \E t \in trees, c \in 1..4 : other = Of(Count(t, c), I)
        \/ \E t \in movable, i \in 0..3 : other = Of(C, Index(t, i))
        \/ \E t, u \in movable : other = Of(C, Swap(t, u))
    <2> HIDE DEF Of, Count, Index, Swap, trees, movable
    <2> QED
      BY <1>1, <1>3
  <1>7. movable \subseteq trees
    OBVIOUS
  <1> HIDE DEF Of, trees, movable
  <1>8. ASSUME NEW t \in trees, NEW c \in 1..4, other = Of(Count(t, c), I)
        PROVE  (\A v \in trees : other.count[v] \in Nat) /\ (RowsAgree(A, other, store) => other = store)
    <2>1. other.count = [v \in D |-> IF v = t THEN c ELSE C[v]] /\ other.count = Count(t, c)
      BY <1>2, <1>8 DEF trees, IsRow
    <2>2. \A v \in trees : other.count[v] \in Nat
      BY <2>1 DEF trees
    <2>3. ASSUME RowsAgree(A, other, store)
          PROVE  other = store
      <3>1. c = C[t]
        BY <1>2, <2>1, <2>3 DEF RowsAgree, trees
      <3>2. Count(t, c) = C
        BY <2>1, <3>1 DEF IsRow
      <3> QED
        BY <1>2, <1>8, <3>2
    <2> QED
      BY <2>2, <2>3
  <1>9. ASSUME NEW t \in movable, NEW i \in 0..3, other = Of(C, Index(t, i))
        PROVE  (\A v \in trees : other.count[v] \in Nat) /\ (RowsAgree(A, other, store) => other = store)
    <2>1. other.count = C /\ other.index = [v \in D |-> IF v = t THEN i ELSE I[v]] /\ other.index = Index(t, i)
      BY <1>2, <1>9 DEF IsRow
    <2>2. ASSUME RowsAgree(A, other, store)
          PROVE  other = store
      <3>0. t \in D
        BY <1>7 DEF trees
      <3>1. i = I[t]
        BY <1>2, <2>1, <2>2, <3>0 DEF RowsAgree, movable, trees
      <3>2. Index(t, i) = I
        BY <2>1, <3>1 DEF IsRow
      <3> QED
        BY <1>2, <1>9, <3>2
    <2> QED
      BY <2>1, <2>2 DEF trees
  <1>10. ASSUME NEW t \in movable, NEW u \in movable, other = Of(C, Swap(t, u))
         PROVE  (\A v \in trees : other.count[v] \in Nat) /\ (RowsAgree(A, other, store) => other = store)
    <2>0. t \in D /\ u \in D
      BY <1>7 DEF trees
    <2>1. /\ other.count = C /\ other.index = Swap(t, u)
          /\ other.index = [v \in D |-> IF v = u THEN I[t] ELSE IF v = t THEN I[u] ELSE I[v]]
      BY <1>2, <1>10 DEF IsRow
    <2>2. ASSUME RowsAgree(A, other, store)
          PROVE  other = store
      <3>1. \A v \in movable : other.index[v] = I[v]
        BY <1>2, <2>2 DEF RowsAgree, movable, trees
      <3>2. I[t] = I[u]
        BY <2>0, <2>1, <3>1
      <3>3. Swap(t, u) = I
        BY <2>1, <3>2 DEF IsRow
      <3> QED
        BY <1>2, <1>10, <3>3
    <2> QED
      BY <2>1, <2>2 DEF trees
  <1>11. (\A v \in trees : other.count[v] \in Nat) /\ (RowsAgree(A, other, store) => other = store)
    <2> HIDE DEF Count, Index, Swap
    <2> QED
      BY <1>6, <1>8, <1>9, <1>10
  <1> QED
    BY <1>11 DEF trees

\* The store is a record of its nodes, its rows and its segments.
LEMMA StoreIsRecord ==
    /\ Store = [nodes |-> Store.nodes, count |-> Store.count, index |-> Store.index, sealed |-> Store.sealed]
    /\ Store.count = [t \in DOMAIN Store.count |-> Store.count[t]]
    /\ Store.index = [t \in DOMAIN Store.count |-> Store.index[t]]
  <1> DEFINE live == {sh \in Shards : forest.shard[sh].count > 0}
             regions == {sh[1] : sh \in live}
             segments == UNION {{<<Segment, sh[1], sh[2], i - 1>> : i \in DOMAIN segmentTrees[sh]} : sh \in live}
             upper == {<<Shard, sh[1], sh[2], 0>> : sh \in live} \cup {<<Region, r, 0, 0>> : r \in regions}
                        \cup (IF live = {} THEN {} ELSE {GlobalTreeRef})
             trees == segments \cup upper
             Nodes(t) == CASE t[1] = Segment -> segmentTrees[<<t[2], t[3]>>][t[4] + 1]
                           [] t[1] = Shard -> emitted.shard[<<t[2], t[3]>>]
                           [] t[1] = Region -> emitted.region[t[2]]
                           [] t[1] = Global -> emitted.global
             Count(t) == CASE t[1] = Segment -> Cardinality({k \in DOMAIN Nodes(t) : k[1] = 0})
                           [] t[1] = Shard -> forest.shard[<<t[2], t[3]>>].count
                           [] t[1] = Region -> NumShards
                           [] t[1] = Global -> NumRegions
             Index(t) == CASE t[1] = Segment -> t[4] [] t[1] = Shard -> t[3] [] t[1] = Region -> t[2] [] OTHER -> 0
  <1>1. Store = [nodes |-> [t \in trees |-> Nodes(t)], count |-> [t \in trees |-> Count(t)],
                 index |-> [t \in trees |-> Index(t)], sealed |-> segments]
    BY DEF Store
  <1> HIDE DEF trees, Nodes, Count, Index, segments
  <1> QED
    BY <1>1

\* A proof of another shape: its leaf counts are numbers and its plan is not the genuine one.
LEMMA ShapeIsOther ==
    ASSUME IndInv, NEW A, A # {}, A \subseteq Leaves(Store), NEW q \in ChangedShapes(Store, A)
    PROVE  /\ IsProofRecord(q) /\ TreesOf(q) = TreesAbove(A) /\ \A x \in q.plan.trees : x.leafCount \in Nat
           /\ \E other : q.plan = PlanBuilt(A, other)
           /\ q.plan # PlanBuilt(A, Store)
  <1>1. PICK other \in ChangedMetadata(Store, A) \ {Store} : IsProofRecord(q) /\ q.plan = PlanBuilt(A, other)
    BY ChangedShapeIs
  <1> DEFINE N == Store.nodes
             C == Store.count
             I == Store.index
             S == Store.sealed
             D == DOMAIN Store.count
  <1>2. /\ Store = [nodes |-> N, count |-> C, index |-> I, sealed |-> S]
        /\ IsRow(C, D) /\ IsRow(I, D)
    BY StoreIsRecord DEF IsRow
  <1>3. \A t \in TreesAbove(A) : t \in D /\ C[t] \in Nat
    <2>1. \A t \in TreesAbove(A) : HoldsTree(A, t)
      BY StoreHoldsTrees
    <2>2. HasRows(Store, ForestLeaves, SealedDigests, A)
      BY StoreHasRows
    <2> QED
      BY <2>1, <2>2 DEF HoldsTree, HasRows, IsList
  <1> HIDE DEF N, C, I, S, D
  <1>4. /\ \A t \in TreesAbove(A) : other.count[t] \in Nat
        /\ RowsAgree(A, other, Store) => other = Store
    <2> DEFINE store == Store
    <2>1. store = [nodes |-> N, count |-> C, index |-> I, sealed |-> S] /\ other \in ChangedMetadata(store, A)
      BY <1>2
    <2>2. TreesAbove(A) \subseteq D
      BY <1>3
    <2> HIDE DEF store
    <2>3. /\ \A t \in TreesAbove(A) : other.count[t] \in Nat
          /\ RowsAgree(A, other, store) => other = store
      BY <1>2, <1>3, <2>1, <2>2, ChangedMetadataIs
    <2> QED
      BY <2>3 DEF store
  <1>5. TreesOf(q) = TreesAbove(A) /\ \A x \in q.plan.trees : x.leafCount \in Nat
    <2>1. PlanShows(A, other, q)
      BY <1>1, PlanTells
    <2> QED
      BY <1>4, <2>1 DEF PlanShows
  <1>6. ASSUME q.plan = PlanBuilt(A, Store)
        PROVE  FALSE
    <2>1. PlanShows(A, other, q)
      BY <1>1, PlanTells
    <2>2. PlanShows(A, Store, q)
      BY <1>6, PlanTells
    <2>3. RowsAgree(A, other, Store)
      BY <2>1, <2>2 DEF RowsAgree, PlanShows
    <2> QED
      BY <1>1, <1>4, <2>3
  <1> QED
    BY <1>1, <1>5, <1>6

\* There is an answer, and it blames something of the shape or of the hashes.
LEMMA IndGivesShapes == IndInv => LocalizesShapes
  <1> SUFFICES ASSUME IndInv, NEW A \in UpTo(MaxAddresses, Leaves(Store)), NEW q \in ChangedShapes(Store, A),
                      NEW trace \in TraceHMFProof(q, A)
               PROVE  \E answer \in Localize(Store, q, A, TrustedRoot) :
                         LET blamed == answer.result.leafSuspects \cup answer.result.nodeSuspects
                         IN /\ answer.result.topology = {t \in TreesAbove(A) : CountOf(q, t) # Store.count[t]}
                            /\ answer.result.topology = {} => blamed # {}
                            /\ \A ref \in blamed : ~SameNode(ref[2], trace.nodes[ref[1]], Store.nodes[ref[1]])
    BY DEF LocalizesShapes, CountOf
  <1> DEFINE p == ProofBuilt(A, Store)
             Answer(r) == [failed |-> q, reference |-> r,
                           result |-> Analyze(A, q, r, HMFTrace(q), CHOOSE t \in TraceHMFProof(r, A) : TRUE)]
             result == Analyze(A, q, p, HMFTrace(q), HMFTrace(p))
             blamed == result.leafSuspects \cup result.nodeSuspects
  <1>1. A \subseteq Leaves(Store) /\ A # {}
    BY AuditAssumption, UpToIs
  <1>2. /\ WellShaped(p, A) /\ p.plan = PlanBuilt(A, Store)
        /\ BuildProof(Store, A) = {p} /\ WellFormed(p, A) /\ Verified(p, A, TrustedRoot)
    BY <1>1, GenuineIsShaped, GenuineProof
  <1>3. /\ IsProofRecord(q) /\ TreesOf(q) = TreesAbove(A) /\ \A x \in q.plan.trees : x.leafCount \in Nat
        /\ \E other : q.plan = PlanBuilt(A, other)
        /\ q.plan # PlanBuilt(A, Store)
    BY <1>1, ShapeIsOther
  <1>4. trace = HMFTrace(q) /\ WellFormed(q, A)
    BY DEF TraceHMFProof
  <1>5. TraceHMFProof(p, A) = {HMFTrace(p)} /\ GlobalRoot(HMFTrace(p)) = TrustedRoot
    BY <1>2 DEF TraceHMFProof, Verified
  <1> HIDE DEF p
  <1>6. WellShaped(q, A)
    <2>1. ASSUME NEW n \in Nat
          PROVE  \E list : IsList(list) /\ Len(list) = n
      <3> DEFINE list == [i \in 1..n |-> i]
      <3>1. IsList(list) /\ Len(list) = n
        <4>1. list = [i \in 1..n |-> i]
          OBVIOUS
        <4> HIDE DEF list
        <4> QED
          BY <4>1, ListIs
      <3> HIDE DEF list
      <3> QED
        BY <3>1
    <2>2. \A a \in A : IsAddress(a)
      BY <1>2 DEF WellShaped
    <2> HIDE DEF IsAddress
    <2> QED
      BY <1>3, <1>4, <2>1, <2>2 DEF WellShaped
  <1>7. GlobalRoot(HMFTrace(q)) # TrustedRoot
    <2> SUFFICES ASSUME GlobalRoot(HMFTrace(q)) = TrustedRoot
                 PROVE  FALSE
      OBVIOUS
    <2>1. Verified(q, A, TrustedRoot)
      BY <1>4 DEF Verified, TraceHMFProof
    <2>2. q = p
      BY <1>1, <1>3, <2>1, AcceptedIsGenuine DEF p
    <2> QED
      BY <1>2, <1>3, <2>2
  <1>8. TreesOf(p) = TreesAbove(A) /\ \A t \in TreesAbove(A) : CountOf(p, t) = Store.count[t]
    BY <1>2, PlanTells DEF PlanShows
  <1>9. Answer(p) \in Localize(Store, q, A, TrustedRoot)
    <2>1. p \in BuildAndVerify(Store, A, TrustedRoot)
      BY <1>2 DEF BuildAndVerify
    <2>2. PICK r : r \in AuthenticatedReference(Store, q, A, TrustedRoot)
      BY <2>1 DEF AuthenticatedReference
    <2>3. r = p
      <3>1. IsProofRecord(r) /\ Verified(r, A, TrustedRoot)
        BY <1>3, <2>2, ReferencesAre
      <3>2. \E x : r.plan = PlanBuilt(A, x)
        BY <1>3, <2>2, ReferencesAre
      <3> QED
        BY <1>1, <3>1, <3>2, AcceptedIsGenuine DEF p
    <2> QED
      BY <1>4, <1>7, <2>2, <2>3, AnswersAre
  <1>10. Answer(p).result = result
    BY <1>5
  <1>11. /\ \A t : t \in result.topology <=> t \in TreesOf(p) /\ CountOf(q, t) # CountOf(p, t)
         /\ \A ref \in blamed : \E t \in TreesOf(p) : \E k \in EndsOf(q, p, t) : ref = <<t, k>>
         /\ GlobalRoot(HMFTrace(q)) # GlobalRoot(HMFTrace(p)) /\ result.topology = {} => blamed # {}
    BY <1>2, <1>3, <1>6, <1>8, ShapesBlame
  <1> HIDE DEF result, blamed, Answer
  <1>13. result.topology = {t \in TreesAbove(A) : CountOf(q, t) # Store.count[t]}
    BY <1>8, <1>11
  <1>14. result.topology = {} => blamed # {}
    BY <1>5, <1>7, <1>11
  <1>15. ASSUME NEW ref \in blamed
         PROVE  ~SameNode(ref[2], trace.nodes[ref[1]], Store.nodes[ref[1]])
    <2>1. PICK t \in TreesAbove(A) : \E k \in EndsOf(q, p, t) : ref = <<t, k>>
      BY <1>8, <1>11
    <2>2. PICK k \in EndsOf(q, p, t) : ref = <<t, k>>
      BY <2>1
    <2>3. /\ k \in DOMAIN AuditorNodes(q, t) /\ k \in DOMAIN ReferenceNodes(p, t)
          /\ AuditorNodes(q, t)[k] # ReferenceNodes(p, t)[k]
      BY DEF EndsOf, Ends, Different, Both
    <2>4. k \in DOMAIN Store.nodes[t] => Store.nodes[t][k] = ReferenceNodes(p, t)[k]
      BY <1>1, <2>3, TraceIsStored DEF p
    <2>5. ~SameNode(k, AuditorNodes(q, t), Store.nodes[t])
      BY <2>3, <2>4 DEF SameNode
    <2> QED
      BY <1>4, <2>2, <2>5 DEF AuditorNodes
  <1>16. \E answer \in Localize(Store, q, A, TrustedRoot) : answer.result = result
    BY <1>9, <1>10
  <1> QED
    BY <1>13, <1>14, <1>15, <1>16 DEF blamed

LEMMA IndGivesNeverMisleads == IndInv => AlteredStoreNeverMisleads
  <1> SUFFICES ASSUME IndInv, NEW A \in UpTo(1, Leaves(Store)), NEW p \in BuildProof(Store, A),
                      NEW ref \in Refs(p), NEW store,
                      NEW answer \in Localize(store, WithHashes(p, [r \in {ref} |-> Foreign]), A, TrustedRoot)
               PROVE  Blames(answer, {ref}, A) /\ VerifyProof(answer, A, TrustedRoot)
    BY DEF AlteredStoreNeverMisleads
  <1> DEFINE h == [r \in {ref} |-> Foreign]
             changed == {r \in DOMAIN h : HashAt(p, r) # h[r]}
  <1>1. A \subseteq Leaves(Store) /\ A # {}
    BY UpToIs
  <1>2. p = ProofBuilt(A, Store)
    BY <1>1, GenuineProof
  <1>3. DOMAIN h = {ref}
    OBVIOUS
  <1> HIDE DEF h
  <1>4. DOMAIN h \subseteq Refs(p)
    BY <1>3
  <1>5. answer \in Localize(store, WithHashes(p, h), A, TrustedRoot)
    BY DEF h
  <1>6. changed # {} /\ Blames(answer, changed, A) /\ VerifyProof(answer, A, TrustedRoot)
    BY <1>1, <1>2, <1>4, <1>5, LocalizationBlames
  <1>7. changed = {ref}
    BY <1>3, <1>6
  <1> QED
    BY <1>6, <1>7

\* README.md:15, "Batch Merkle proofs", in every reachable state of a forest of any size and
\* for any number of addresses: BuildAndVerify (proof.go) finds in the nodes that
\* the updates wrote a proof of any sealed leaves, which verifies against the root in memory
\* and carries their digests; for a batch with any other address it returns none.
THEOREM StoredProofsVerify == Spec => []ProofsVerify
  BY IndInvHolds, IndGivesVerify, PTL

\* VerifyProof (verifier.go) against the root of the forest in memory accepts, of all proofs
\* there can be, exactly those that are the proof of BuildProof for the addresses whose
\* segment has a plan, with one digest for every other address.
OnlyGenuinePlansPass ==
    \A q, A : IsProof(q) /\ (\A a \in A : IsAddress(a)) =>
        (Verified(q, A, TrustedRoot) <=> GenuineWherePlanned(Store, q, A))

\* What README.md:5, "prove that stored cloud logs were not altered", comes down to, in every
\* reachable state: a proof of any shape and with any hashes is accepted if and only if it is
\* genuine wherever it has a plan.  The digest of an address without one is not checked, for
\* verifier.go never asks that every requested segment have a plan.
THEOREM AcceptedProofs == Spec => []OnlyGenuinePlansPass
  <1>1. IndInv => OnlyGenuinePlansPass
    <2> SUFFICES ASSUME IndInv, NEW q, NEW A, IsProof(q), \A a \in A : IsAddress(a)
                 PROVE  Verified(q, A, TrustedRoot) <=> GenuineWherePlanned(Store, q, A)
      BY DEF OnlyGenuinePlansPass
    <2> QED
      BY AcceptedWherePlanned
  <1> QED
    BY <1>1, IndInvHolds, PTL

\* The same of the altered proofs that are checked: hashes replaced or exchanged, other
\* metadata, a part missing or doubled, whole branches left out.
THEOREM AlteredProofs == Spec => []OnlyPlansAreVerified
  BY IndInvHolds, IndGivesPlansVerified, PTL

\* README.md:17, "identifies the exact leaf or authentication node that differs from the
\* committed state": for one or two hashes replaced or exchanged Localize (service.go) finds
\* an authenticated reference, and analyze.go blames exactly those hashes and their shards,
\* however high the trees and however many levels a pruning round goes down; with nothing
\* changed there is no answer.
THEOREM ChangedHashesAreLocalized == Spec => []LocalizesExactly
  BY IndInvHolds, IndGivesExact, PTL

\* analyze.go for a failed proof whose plan was made from other metadata: Localize finds an
\* authenticated reference, the trees whose leaf count is misstated are reported, some node is
\* blamed when there are none, and only nodes whose traced hash is not the stored one.
THEOREM ChangedShapesAreLocalized == Spec => []LocalizesShapes
  BY IndInvHolds, IndGivesShapes, PTL

\* service.go:82, "That rebuild succeeds only when those nodes are the committed ones": an
\* answer from an altered store blames the hash that was changed in the failed proof and
\* nothing else, and VerifyProof replays it.
THEOREM AlteredStoresNeverMislead == Spec => []AlteredStoreNeverMisleads
  BY IndInvHolds, IndGivesNeverMisleads, PTL
=============================================================================
