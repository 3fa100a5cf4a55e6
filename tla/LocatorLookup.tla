--------------------------- MODULE LocatorLookup ---------------------------
(***************************************************************************)
(* The locator without concurrency: every insert is persisted before the   *)
(* next one.  A log that is submitted again, because its caller was told   *)
(* of an error, is inserted under the same key again.                      *)
(***************************************************************************)
EXTENDS LocatorRange

CONSTANTS Keys,        \* keys of the entries
          MaxInserts,  \* inserts in a run
          MaxCopies    \* inserts of one key

ASSUME LookupAssumption ==
    Keys \subseteq Nat \ {0} /\ MaxInserts \in Nat /\ MaxCopies \in Nat

VARIABLES tree,    \* the live tree
          stored,  \* table all_pages
          copies   \* how often a key was inserted

vars == <<tree, stored, copies>>

Init ==
    /\ tree = NewLocatorTree
    /\ stored = <<>>
    /\ copies = [k \in Keys |-> 0]

\* InsertWithUpdate, and PersistUpdate of its update.
InsertWithUpdate(k) ==
    /\ tree.count < MaxInserts /\ copies[k] < MaxCopies
    /\ tree' = Insert(tree, k)
    /\ stored' = [id \in tree'.changed |-> MarshalPage(tree'.pages, id)] @@ stored
    /\ copies' = [copies EXCEPT ![k] = @ + 1]

Next == \E k \in Keys : InsertWithUpdate(k)

Spec == Init /\ [][Next]_vars
-----------------------------------------------------------------------------
Ranges ==
    LET bounds == 0..(Max(Keys) + 1) IN {r \in bounds \X bounds : r[1] < r[2]}

Resolve(r) == ResolveRange(stored, tree.root, RootHash(tree), r[1], r[2])

InRange(r) == {k \in Keys : copies[k] > 0 /\ r[1] <= k /\ k < r[2]}
Distinct == \A k \in Keys : copies[k] <= 1

\* The updates of the inserts, splits of every kind included, name every page they
\* changed: the table holds the live tree.
StoredIsTree ==
    tree.count > 0 => stored = [id \in DOMAIN tree.pages |-> MarshalPage(tree.pages, id)]

\* Whatever the order of the inserts, every range can be resolved with a proof that
\* the verifier accepts, unless a key was inserted twice.
EveryRangeResolves ==
    tree.count > 0 /\ Distinct => \A r \in Ranges : Resolve(r) # {}

\* A range that is resolved has exactly the keys of the range that were inserted,
\* each once and in order; around a key that is there twice, where the search meets
\* only one of the copies, it is refused.
RangesAreExact ==
    tree.count > 0 =>
        \A r \in Ranges :
            \A result \in Resolve(r) :
                LET entries == result.entries
                IN /\ {e.key : e \in ToSet(entries)} = InRange(r)
                   /\ \A i \in 1..(Len(entries) - 1) : entries[i].key < entries[i + 1].key

LeafProofs ==
    {MakeLeafProof(stored, FindLeaf(stored, tree.root, k, <<>>)) : k \in {x \in Keys : copies[x] > 0}}

\* No choice among the tree's leaves passes for the whole range: a result made of
\* genuine leaf proofs with some left out is accepted only if no entry of the range
\* is missing.
VerifierIsSound ==
    tree.count > 0 /\ Distinct =>
        \A some \in SUBSET LeafProofs, r \in Ranges :
            LET leaves == SetToSortSeq(some, LAMBDA p, q : p.keys[1] < q.keys[1])
                claim == Expected(FlattenProofEntries(leaves), r[1], r[2])
            IN VerifyLocatorRangeResult(r[1], r[2], [leaves |-> leaves] @@ claim, RootHash(tree))
                => {e.key : e \in ToSet(claim.entries)} = InRange(r)
=============================================================================
