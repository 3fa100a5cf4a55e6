------------------------------- MODULE Merkle -------------------------------
(***************************************************************************)
(* Reference definition of the trees of HMFTrees, over all leaves at once: *)
(* the root over a list of leaves splits the list at the largest power of  *)
(* two below its length; node (l, i) is the root over its 2^l leaves, or   *)
(* over as many of them as there are.                                      *)
(***************************************************************************)
EXTENDS HMFTrees

\* The root over n leaves after the first i, as Roots(leaves)[n][i].
Roots(leaves) ==
    LET root[n \in 1..Len(leaves)] ==
            [i \in 0..(Len(leaves) - n) |->
                IF n = 1 THEN leaves[i + 1]
                ELSE LET k == Pow2[BitsLen[n - 1] - 1]
                     IN HashPair(root[k][i], root[n - k][i + k])]
    IN root

RootOver(leaves, i, n) == Roots(leaves)[n][i]
MerkleRoot(leaves) == RootOver(leaves, 0, Len(leaves))

RefHeight(n) == CHOOSE h \in 0..n : Pow2[h] >= n /\ \A g \in 0..(h - 1) : Pow2[g] < n

RefNodes(leaves) ==
    LET n == Len(leaves)
        keys == {k \in (0..RefHeight(n)) \X (0..(n - 1)) : k[2] * Pow2[k[1]] < n}
        size(k) == IF (k[2] + 1) * Pow2[k[1]] < n THEN Pow2[k[1]] ELSE n - k[2] * Pow2[k[1]]
    IN [k \in keys |-> RootOver(leaves, k[2] * Pow2[k[1]], size(k))]
=============================================================================
