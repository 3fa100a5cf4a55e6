---------------------------- MODULE Localization ----------------------------
(***************************************************************************)
(* Tamper localization (internal/localization): compares the trace of a    *)
(* proof that failed with the trace of an authenticated reference proof,   *)
(* from the roots down, and names the nodes that differ.                   *)
(***************************************************************************)
EXTENDS HPP

CONSTANT JumpLevels  \* DefaultJumpLevels, 63: levels a pruning round goes down

ASSUME JumpAssumption == JumpLevels \in Nat \ {0}

\* canDescend: both traces have the node's first child.
CanDescend(position, left, right) ==
    position[1] > 0 /\ <<position[1] - 1, 2 * position[2]>> \in DOMAIN left \cap DOMAIN right

\* Mutant: only the first child is visited.
ChildrenOfFirstOnly(position, left, right) == {<<position[1] - 1, 2 * position[2]>>}

\* The nodes below a node that a trace has.
ChildrenOf(position, left, right) ==
    {<<position[1] - 1, i>> : i \in {2 * position[2], 2 * position[2] + 1}} \cap (DOMAIN left \cup DOMAIN right)

\* collectFrontier, one level: a node that has nothing below it stays.
LevelBelow(frontier, left, right) ==
    UNION {IF CanDescend(p, left, right) THEN ChildrenOf(p, left, right) ELSE {p} : p \in frontier}

\* collectFrontier: the nodes on the target level below a position, and above it
\* those that have nothing below them.
CollectFrontier(position, target, left, right) ==
    LET below[n \in 0..(position[1] - target)] ==
            IF n = 0 THEN {position} ELSE LevelBelow(below[n - 1], left, right)
    IN IF position[1] <= target THEN {position} ELSE below[position[1] - target]

\* Equality of the hashes two traces have at a position; a hash that a trace does
\* not have differs from any.
SameNode(position, left, right) ==
    position \in DOMAIN left \cap DOMAIN right /\ left[position] = right[position]

\* treeMismatch
TreeMismatch(tree, auditor, reference) == ~SameNode(tree, auditor.committed, reference.committed)

\* One round: compare the frontier, go on below the nodes that differ.
PruningRound(search, left, right) ==
    LET from == (CHOOSE p \in search.active : TRUE)[1]
        target == IF from > JumpLevels THEN from - JumpLevels ELSE 0
        frontier == UNION {CollectFrontier(p, target, left, right) : p \in search.active}
        mismatches == {p \in frontier : ~SameNode(p, left, right)}
    IN [active |-> {p \in mismatches : CanDescend(p, left, right)},
        rounds |-> search.rounds \cup
            {[from |-> from, target |-> target, frontier |-> frontier, mismatches |-> mismatches]}]

\* The rounds of one tree, as long as something differs; a round ends on a lower
\* level than it started from.
PruningRounds(top, left, right) ==
    LET search[n \in 0..(top[1] + 1)] ==
            IF n = 0 THEN [active |-> {top}, rounds |-> {}]
            ELSE IF search[n - 1].active = {} THEN search[n - 1]
            ELSE PruningRound(search[n - 1], left, right)
    IN search[top[1] + 1].rounds

\* Mutant: a leaf that is the root of a tree in the proof is never blamed.
NodeSuspectsSkipsRoots(tree, rounds, proof, auditor, reference) ==
    {<<tree, p>> : p \in {q \in UNION {r.mismatches : r \in rounds} :
        /\ ~CanDescend(q, auditor.nodes[tree], reference.nodes[tree])
        /\ ~\E l \in proof.plan.links : l.parent = tree /\ l.index = q[2] /\ q[1] = 0}}

\* The nodes of a tree to blame: those that differ and have nothing to compare below
\* them, except leaves that are the root of a tree that is searched itself.
NodeSuspects(tree, rounds, proof, auditor, reference) ==
    LET Covered(p) == p[1] = 0 /\ \E l \in proof.plan.links :
                          /\ l.parent = tree /\ l.index = p[2]
                          /\ TreeMismatch(l.child, auditor, reference)
    IN {<<tree, p>> : p \in {q \in UNION {r.mismatches : r \in rounds} :
                               ~CanDescend(q, auditor.nodes[tree], reference.nodes[tree]) /\ ~Covered(q)}}

\* analyze
Analyze(addresses, failed, proof, auditor, reference) ==
    LET left == {p.tree : p \in failed.plan.trees}
        right == {p.tree : p \in proof.plan.trees}
        LeafCount(plan, t) == (CHOOSE p \in plan.trees : p.tree = t).leafCount
        suspected == {t \in left \cup right : TreeMismatch(t, auditor, reference)}
        comparable == {t \in suspected \cap left \cap right :
                          LeafCount(failed.plan, t) = LeafCount(proof.plan, t)}
        top(t) == <<BitsLen[LeafCount(proof.plan, t) - 1], 0>>
        rounds == [t \in comparable |-> PruningRounds(top(t), auditor.nodes[t], reference.nodes[t])]
        blamed == UNION {NodeSuspects(t, rounds[t], proof, auditor, reference) : t \in comparable}
        leaves == {TargetRef(a) : a \in addresses}
    IN [badShards |-> {t \in suspected : t[1] = Shard},
        rounds |-> rounds,
        topology |-> suspected \ comparable,
        leafSuspects |-> blamed \cap leaves,
        nodeSuspects |-> blamed \ leaves]

\* authenticatedReference: around the failed proof, or else from the store.
AuthenticatedReference(store, failed, addresses, trusted) ==
    LET rebuilt == ReferenceFromProof(store, failed, addresses, trusted)
    IN IF rebuilt # {} THEN rebuilt ELSE BuildAndVerify(store, addresses, trusted)

\* Localize, for a failed proof and the root that the auditor calculated from it.
Localize(store, failed, addresses, trusted) ==
    UNION {{[failed |-> failed, reference |-> reference,
             result |-> Analyze(addresses, failed, reference, auditor,
                                CHOOSE t \in TraceHMFProof(reference, addresses) : TRUE)] :
               reference \in AuthenticatedReference(store, failed, addresses, trusted)} :
           auditor \in {t \in TraceHMFProof(failed, addresses) : GlobalRoot(t) # trusted}}

\* VerifyProof: authenticate the reference, replay the comparison.
VerifyProof(answer, addresses, trusted) ==
    \E auditor \in TraceHMFProof(answer.failed, addresses),
       reference \in TraceHMFProof(answer.reference, addresses) :
        /\ GlobalRoot(auditor) # trusted
        /\ GlobalRoot(reference) = trusted
        /\ answer.result = Analyze(addresses, answer.failed, answer.reference, auditor, reference)
-----------------------------------------------------------------------------
(* Proofs with other hashes than the forest has, to be localized *)

\* A hash that is nowhere in the forest.
Foreign == <<<<-1, -1>>, -1, -1>>

Refs(p) == {TargetRef(l[1]) : l \in p.leaves} \cup {<<n[1], n[2]>> : n \in p.nodes}
HashAt(p, ref) ==
    IF \E l \in p.leaves : TargetRef(l[1]) = ref
    THEN (CHOOSE l \in p.leaves : TargetRef(l[1]) = ref)[2]
    ELSE (CHOOSE n \in p.nodes : <<n[1], n[2]>> = ref)[3]

\* The proof with other hashes at the references in the domain of hashes.
WithHashes(p, hashes) ==
    LET New(ref, old) == IF ref \in DOMAIN hashes THEN hashes[ref] ELSE old
    IN [p EXCEPT !.leaves = {<<l[1], New(TargetRef(l[1]), l[2])>> : l \in @},
                 !.nodes = {<<n[1], n[2], New(<<n[1], n[2]>>, n[3])>> : n \in @}]
=============================================================================
