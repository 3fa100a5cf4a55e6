---------------------------- MODULE ForestAudit ----------------------------
(***************************************************************************)
(* Proofs and localization over a forest whose updates have all been       *)
(* persisted: what HPP and Localization give for the stored nodes, for     *)
(* every forest HMF can build, against proofs that were altered.           *)
(***************************************************************************)
EXTENDS HMF, Localization

CONSTANTS MaxAddresses,  \* bound: addresses in one request
          MaxAudited,    \* bound: segments in a forest that is audited
          MaxLeaves,     \* bound: leaves in such a forest
          AuditedShards  \* bound: shards that have segments in such a forest

ASSUME AuditAssumption ==
    /\ MaxAddresses \in Nat \ {0} /\ {MaxAudited, MaxLeaves} \subseteq Nat
    /\ AuditedShards \subseteq Shards

\* The number of leaves in the sealed segments of a shard.
SealedLeaves(sh) ==
    MapThenSumSet(LAMBDA i : Cardinality({k \in DOMAIN segmentTrees[sh][i] : k[1] = 0}), DOMAIN segmentTrees[sh])

\* The properties below are checked in these forests; those of HMF in all.
Audited ==
    /\ MapThenSumSet(SealedLeaves, AuditedShards) <= MaxLeaves
    /\ MapThenSumSet(LAMBDA sh : forest.shard[sh].count, AuditedShards) <= MaxAudited
    /\ \A sh \in Shards \ AuditedShards : forest.shard[sh].count = 0

\* The rows and nodes the updates of the forest have written; trees without a
\* segment have none.
Store ==
    LET live == {sh \in Shards : forest.shard[sh].count > 0}
        regions == {sh[1] : sh \in live}
        segments == UNION {{<<Segment, sh[1], sh[2], i - 1>> : i \in DOMAIN segmentTrees[sh]} : sh \in live}
        upper == {<<Shard, sh[1], sh[2], 0>> : sh \in live} \cup {<<Region, r, 0, 0>> : r \in regions}
                   \cup (IF live = {} THEN {} ELSE {GlobalTreeRef})
        Nodes(t) == CASE t[1] = Segment -> segmentTrees[<<t[2], t[3]>>][t[4] + 1]
                      [] t[1] = Shard -> emitted.shard[<<t[2], t[3]>>]
                      [] t[1] = Region -> emitted.region[t[2]]
                      [] t[1] = Global -> emitted.global
    IN [nodes |-> [t \in segments \cup upper |-> Nodes(t)],
        count |-> [t \in segments \cup upper |->
            CASE t[1] = Segment -> Cardinality({k \in DOMAIN Nodes(t) : k[1] = 0})
              [] t[1] = Shard -> forest.shard[<<t[2], t[3]>>].count
              [] t[1] = Region -> NumShards
              [] t[1] = Global -> NumRegions],
        index |-> [t \in segments \cup upper |->
            CASE t[1] = Segment -> t[4] [] t[1] = Shard -> t[3] [] t[1] = Region -> t[2] [] OTHER -> 0],
        sealed |-> segments]

TrustedRoot == CommitGlobalRoot(forest.global)

\* The sealed leaves, and positions beside them that hold none.
Leaves(store) == UNION {{<<t[2], t[3], t[4], i>> : i \in 0..(store.count[t] - 1)} : t \in store.sealed}
NoLeaves(store) ==
    {<<t[2], t[3], t[4], store.count[t]>> : t \in store.sealed}
      \cup {<<sh[1], sh[2], forest.shard[sh].count, 0>> : sh \in Shards}
Digest(a) == <<<<a[1], a[2]>>, a[3], a[4] + 1>>

UpTo(n, S) == UNION {kSubset(k, S) : k \in 1..n}

\* README.md:15, "Batch Merkle proofs": for every set of sealed leaves there is a
\* proof in the stored nodes that verifies against the root in memory and carries
\* the digests of those leaves; the planner asks for nothing that was never written
\* and looks into the buckets the writer used.  With any other address there is none.
ProofsVerify ==
    Audited => LET store == Store IN
       \A A \in UpTo(MaxAddresses, Leaves(store) \cup NoLeaves(store)) :
          LET proofs == BuildAndVerify(store, A, TrustedRoot)
          IN IF A \subseteq Leaves(store)
             THEN \E p \in proofs : p.leaves = {<<a, Digest(a)>> : a \in A}
             ELSE proofs = {}

-----------------------------------------------------------------------------
(* Altered proofs *)

\* One or two hashes replaced, or two exchanged.
ChangedHashes(p) ==
    {[ref \in R |-> Foreign] : R \in UpTo(2, Refs(p))}
      \cup {[ref \in R |-> HashAt(p, CHOOSE other \in R : other # ref)] : R \in kSubset(2, Refs(p))}

\* A plan made from other metadata: one leaf count changed, a tree moved to another
\* leaf of its parent, two trees exchanged.
Recounted(store, t, c) == [store EXCEPT !.count[t] = c]
Moved(store, t, i) == [store EXCEPT !.index[t] = i]
Exchanged(store, t, u) == [store EXCEPT !.index[t] = store.index[u], !.index[u] = store.index[t]]
ChangedMetadata(store, A) ==
    LET trees == TreesAbove(A)
        movable == trees \ {GlobalTreeRef}
    IN {Recounted(store, t, c) : t \in trees, c \in 1..4}
         \cup {Moved(store, t, i) : t \in movable, i \in 0..3}
         \cup {Exchanged(store, t, u) : t, u \in movable}

\* The proof for such a plan, with every node that the forest has and Foreign
\* for those that it has not.
ChangedShapes(store, A) ==
    LET Hash(t, k) == IF k \in DOMAIN store.nodes[t] THEN store.nodes[t][k] ELSE Foreign
        Proof(plan) == [plan |-> plan, leaves |-> {<<a, Digest(a)>> : a \in A},
                        nodes |-> UNION {{<<q.tree, k, Hash(q.tree, k)>> : k \in q.required} : q \in plan.trees}]
    IN UNION {{Proof(plan) : plan \in Plan(A, other)} : other \in ChangedMetadata(store, A) \ {store}}

\* Something left out, or given twice.
ChangedParts(p) ==
    {[p EXCEPT !.nodes = @ \ {n}] : n \in p.nodes}
      \cup {[p EXCEPT !.nodes = @ \cup {<<n[1], n[2], Foreign>>}] : n \in p.nodes}
      \cup {[p EXCEPT !.leaves = @ \cup {<<l[1], Foreign>>}] : l \in p.leaves}
      \cup {[p EXCEPT !.plan.links = @ \ {l}] : l \in p.plan.links}
      \cup {[p EXCEPT !.plan.links = @ \cup {[l EXCEPT !.index = @ + 1]}] : l \in p.plan.links}
      \cup {[p EXCEPT !.plan.trees = @ \ {q}] : q \in p.plan.trees}
      \cup {[p EXCEPT !.plan.trees = {[r EXCEPT !.targets = IF r = q THEN @ \cup {0} ELSE @] : r \in @}] :
               q \in p.plan.trees}

\* The proof p of other addresses given for A: the digests of the rest are the stored ones,
\* or others for the foreign.
GivenFor(A, p, rest, foreign) ==
    [p EXCEPT !.plan.addresses = A,
              !.leaves = @ \cup {<<a, IF a \in foreign THEN Foreign ELSE Digest(a)>> : a \in rest}]

\* No plan for the segments of some addresses, nor for what is above them alone.
LeftOut(store, A) ==
    UNION {{GivenFor(A, p, A \ B, foreign) : p \in BuildProof(store, B), foreign \in SUBSET (A \ B)} :
              B \in (SUBSET A) \ {A}}

\* The addresses whose segment has a plan, and what a proof brings for them.
PlannedAddresses(q) == {a \in q.plan.addresses : SegmentTreeRef(a) \in {t.tree : t \in q.plan.trees}}
PlannedPart(q) ==
    [q EXCEPT !.plan.addresses = PlannedAddresses(q), !.leaves = {l \in @ : l[1] \in PlannedAddresses(q)}]

\* Wherever it has a plan the proof is the one that BuildProof gives; for each of the other
\* addresses it brings one digest, whatever that is.
GenuineWherePlanned(store, q, A) ==
    /\ ValidProofLeaves(q, A)
    /\ PlannedPart(q) \in BuildProof(store, PlannedAddresses(q))

\* README.md:5, "prove that stored cloud logs were not altered": with hashes replaced or
\* exchanged, the shape or the place of a tree misstated, or parts missing or doubled,
\* a proof verifies against the root exactly when it is genuine wherever it has a plan.
\* The verifier never asks for a plan of every requested segment (verifier.go:71): the
\* digests of the addresses without one are not checked, and may be any.
OnlyPlansAreVerified ==
    Audited =>
        LET store == Store
        IN \A A \in UpTo(MaxAddresses, Leaves(store)) : \A p \in BuildProof(store, A) :
              \A q \in {WithHashes(p, h) : h \in ChangedHashes(p)} \cup ChangedShapes(store, A)
                         \cup ChangedParts(p) \cup LeftOut(store, A) :
                  Verified(q, A, TrustedRoot) <=> GenuineWherePlanned(store, q, A)

\* The suspects are exactly the leaves and nodes whose hash was changed, classified,
\* with the shards they belong to.
Blames(answer, changed, A) ==
    /\ answer.result.topology = {}
    /\ answer.result.leafSuspects = changed \cap {TargetRef(a) : a \in A}
    /\ answer.result.nodeSuspects = changed \ {TargetRef(a) : a \in A}
    /\ answer.result.badShards = {IF ref[1][1] = Segment THEN ParentTree(ref[1]) ELSE ref[1] :
                                     ref \in {c \in changed : c[1][1] \in {Segment, Shard}}}

\* README.md:17, "identifies the exact leaf or authentication node that differs from
\* the committed state": also with several changes in one or in different trees.
LocalizesExactly ==
    Audited =>
        LET store == Store
        IN \A A \in UpTo(MaxAddresses, Leaves(store)) : \A p \in BuildProof(store, A) :
              \A h \in ChangedHashes(p) :
                  LET changed == {ref \in DOMAIN h : HashAt(p, ref) # h[ref]}
                      answers == Localize(store, WithHashes(p, h), A, TrustedRoot)
                  IN IF changed = {} THEN answers = {}
                     ELSE \E answer \in answers : Blames(answer, changed, A)

\* A misstated shape never goes without a suspect: trees whose leaf count differs
\* are reported as such, and a node is blamed only when the hash that the failed
\* proof leads to is not the one the forest has there.
LocalizesShapes ==
    Audited =>
        LET store == Store
        IN \A A \in UpTo(MaxAddresses, Leaves(store)) : \A q \in ChangedShapes(store, A) :
              LET Count(t) == (CHOOSE x \in q.plan.trees : x.tree = t).leafCount
              IN \A trace \in TraceHMFProof(q, A) : \E answer \in Localize(store, q, A, TrustedRoot) :
                    LET blamed == answer.result.leafSuspects \cup answer.result.nodeSuspects
                    IN /\ answer.result.topology = {t \in TreesAbove(A) : Count(t) # store.count[t]}
                       /\ answer.result.topology = {} => blamed # {}
                       /\ \A ref \in blamed : ~SameNode(ref[2], trace.nodes[ref[1]], store.nodes[ref[1]])

\* service.go:82, "That rebuild succeeds only when those nodes are the committed
\* ones": when the reference store is altered as well, localization may fail, but it
\* never blames anything else than what the failed proof changed, and the auditor can
\* replay whatever it returns.
AlteredStoreNeverMisleads ==
    Audited =>
        LET store == Store
        IN \A A \in UpTo(1, Leaves(store)) : \A p \in BuildProof(store, A) :
              \A ref \in Refs(p), bad \in Refs(p) :
                  LET altered == [store EXCEPT !.nodes[bad[1]][bad[2]] = Foreign]
                  IN \A answer \in Localize(altered, WithHashes(p, [r \in {ref} |-> Foreign]), A, TrustedRoot) :
                        Blames(answer, {ref}, A) /\ VerifyProof(answer, A, TrustedRoot)
=============================================================================
