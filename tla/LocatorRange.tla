---------------------------- MODULE LocatorRange ----------------------------
(***************************************************************************)
(* Range queries over the stored pages of the locator tree, and the        *)
(* verification of their proofs (internal/all/locator_range.go).  A range  *)
(* is [lower, upper).                                                      *)
(***************************************************************************)
EXTENDS LocatorTree

(* ResolveRangeWithReader, [lower, upper) over the stored pages *)

Step(id, index) == [id |-> id, index |-> index]

\* findLeaf: the path to the leaf of a key, <<>> when a page cannot be read.
RECURSIVE FindLeaf(_, _, _, _)
FindLeaf(table, id, key, path) ==
    LET p == table[id]
        i == FindKeyIdx(p.keys, key)
    IN IF p.leaf THEN Append(path, Step(id, 0))
       ELSE IF ReadChild(table, p, i) THEN FindLeaf(table, p.children[i + 1], key, Append(path, Step(id, i)))
       ELSE <<>>

\* Mutant: the first key after the bound.
LowerBoundStrict(keys, k) ==
    LET i == SelectInSeq(keys, LAMBDA x : k < x) IN IF i = 0 THEN Len(keys) ELSE i - 1

\* lowerBound: the index, from 0, of the first key that is not smaller.
LowerBound(keys, k) ==
    LET i == SelectInSeq(keys, LAMBDA x : k <= x) IN IF i = 0 THEN Len(keys) ELSE i - 1

Entry(id, key) == [page |-> id, key |-> key]
NoEntry == Entry(NoPage, 0)
ErrorEntry == Entry(NoPage, -1)

\* Down the right (left) edge to a leaf, and its last (first) entry.
RECURSIVE EdgeEntry(_, _, _)
EdgeEntry(table, id, right) ==
    LET p == table[id]
        i == IF right THEN Len(p.children) - 1 ELSE 0
    IN IF p.leaf
       THEN IF p.keys = <<>> THEN NoEntry ELSE Entry(id, IF right THEN Last(p.keys) ELSE Head(p.keys))
       ELSE IF ReadChild(table, p, i) THEN EdgeEntry(table, p.children[i + 1], right)
       ELSE ErrorEntry

\* The entry beside the leaf of a path: up to the nearest ancestor with a sibling
\* on that side, then down the sibling's near edge.
Beside(table, path, d) ==
    LET hasSibling(s) == LET i == s.index + d
                         IN ~table[s.id].leaf /\ i >= 0 /\ i < Len(table[s.id].children)
        level == SelectLastInSeq(path, hasSibling)
        p == table[path[level].id]
        i == path[level].index + d
    IN IF level = 0 THEN NoEntry
       ELSE IF ReadChild(table, p, i) THEN EdgeEntry(table, p.children[i + 1], d = -1)
       ELSE ErrorEntry

PredecessorEntry(table, path, index) ==
    LET id == Last(path).id
    IN IF index > 0 THEN Entry(id, table[id].keys[index]) ELSE Beside(table, path, -1)

SuccessorEntry(table, path, index) ==
    LET id == Last(path).id
    IN IF index < Len(table[id].keys) THEN Entry(id, table[id].keys[index + 1]) ELSE Beside(table, path, 1)

\* The scan along the leaf chain up to the first key from upper on.
RECURSIVE Scan(_, _, _, _, _)
Scan(table, id, index, upper, visited) ==
    LET p == table[id]
        keys == SubSeq(p.keys, index + 1, Len(p.keys))
        found == [i \in 1..LowerBound(keys, upper) |-> Entry(id, keys[i])]
    IN IF Len(found) < Len(keys) \/ p.next = NoPage THEN found
       ELSE IF p.next \in visited \cup {id} \/ ~Readable(table, p.next) \/ ~table[p.next].leaf
       THEN <<ErrorEntry>>
       ELSE found \o Scan(table, p.next, 0, upper, visited \cup {id})

\* makeLeafProof: the leaf and its path, from its parent to the root.
MakeLeafProof(table, path) ==
    LET leaf == Last(path).id
        step(s) == [keys |-> table[s.id].keys, index |-> s.index, childHashes |-> table[s.id].childHashes]
    IN [id |-> leaf, next |-> table[leaf].next, keys |-> table[leaf].keys,
        path |-> [i \in 1..(Len(path) - 1) |-> step(path[Len(path) - i])]]

RECURSIVE HashUp(_, _)
HashUp(hash, path) ==
    IF path = <<>> THEN hash
    ELSE LET s == Head(path)
         IN HashUp(InternalHash(s.keys, [s.childHashes EXCEPT ![s.index + 1] = hash]), Tail(path))

ReconstructLocatorRoot(proof) == HashUp(LeafHash(proof.id, proof.next, proof.keys), proof.path)

\* orderLeafProofs: from the one leaf without a predecessor along the next links;
\* <<>> unless that reaches all of them.
RECURSIVE Chain(_, _)
Chain(proofs, leaf) ==
    LET next == {p \in proofs : p.id = leaf.next}
    IN <<leaf>> \o IF next = {} THEN <<>> ELSE Chain(proofs \ next, CHOOSE p \in next : TRUE)

OrderLeafProofs(proofs) ==
    LET heads == {p \in proofs : \A q \in proofs : q.next # p.id}
        chain == Chain(proofs, CHOOSE p \in heads : TRUE)
    IN IF Cardinality(heads) = 1 /\ Len(chain) = Cardinality(proofs) THEN chain ELSE <<>>

\* buildRangeProof: proofs of the start leaf and of the leaf of every entry, the
\* neighbours included, found by the first entry on it; <<>> for an error.
BuildRangeProof(table, root, startPath, answer, trusted) ==
    LET entries == SelectSeq(<<answer.pred>> \o answer.entries \o <<answer.succ>>, LAMBDA e : e # NoEntry)
        firsts == {e \in {entries[i] : i \in {x \in DOMAIN entries :
                                  \A j \in 1..(x - 1) : entries[j].page # entries[x].page}} :
                      e.page # Last(startPath).id}
        pathOf(e) == FindLeaf(table, root, e.key, <<>>)
        paths == {startPath} \cup {pathOf(e) : e \in firsts}
        proofs == {MakeLeafProof(table, path) : path \in paths}
    IN IF /\ <<>> \notin paths
          /\ \A e \in firsts : Last(pathOf(e)).id = e.page
          /\ \A proof \in proofs : ReconstructLocatorRoot(proof) = trusted
       THEN OrderLeafProofs(proofs)
       ELSE <<>>

-----------------------------------------------------------------------------
(* VerifyLocatorRangeResult *)

VerifyLocatorPathProofs(leaves, trusted) ==
    leaves # <<>> /\ \A i \in DOMAIN leaves : ReconstructLocatorRoot(leaves[i]) = trusted

FlattenProofEntries(leaves) ==
    FlattenSeq([i \in DOMAIN leaves |-> [k \in DOMAIN leaves[i].keys |-> Entry(leaves[i].id, leaves[i].keys[k])]])

\* Mutant: the next link is not compared.
VerifyConsecutiveUnlinked(leaves) ==
    LET entries == FlattenProofEntries(leaves)
    IN /\ \A i, j \in DOMAIN leaves : i # j => leaves[i].id # leaves[j].id
       /\ \A i \in 1..(Len(entries) - 1) : entries[i].key < entries[i + 1].key

\* Mutant: equal keys are in order.
VerifyConsecutiveLoose(leaves) ==
    LET entries == FlattenProofEntries(leaves)
    IN /\ \A i, j \in DOMAIN leaves : i # j => leaves[i].id # leaves[j].id
       /\ \A i \in 1..(Len(leaves) - 1) : leaves[i].next = leaves[i + 1].id
       /\ \A i \in 1..(Len(entries) - 1) : entries[i].key <= entries[i + 1].key

\* verifyConsecutiveLeafProofs
VerifyConsecutive(leaves) ==
    LET entries == FlattenProofEntries(leaves)
    IN /\ \A i, j \in DOMAIN leaves : i # j => leaves[i].id # leaves[j].id
       /\ \A i \in DOMAIN leaves : /\ Len(leaves[i].path) = Len(leaves[1].path)
                                    /\ Len(leaves) > 1 => leaves[i].keys # <<>>
       /\ \A i \in 1..(Len(leaves) - 1) : leaves[i].next = leaves[i + 1].id
       /\ \A i \in 1..(Len(entries) - 1) : entries[i].key < entries[i + 1].key

IsLeftmost(leaf) == \A i \in DOMAIN leaf.path : leaf.path[i].index = 0
IsRightmost(leaf) == \A i \in DOMAIN leaf.path : leaf.path[i].index = Len(leaf.path[i].childHashes) - 1

\* What the entries of a proof say about the range.
Expected(entries, lower, upper) ==
    LET before == SelectSeq(entries, LAMBDA e : e.key < lower)
        after == SelectSeq(entries, LAMBDA e : e.key >= upper)
    IN [entries |-> SelectSeq(entries, LAMBDA e : e.key >= lower /\ e.key < upper),
        pred |-> IF before = <<>> THEN NoEntry ELSE Last(before),
        succ |-> IF after = <<>> THEN NoEntry ELSE Head(after)]

VerifyLocatorRangeResult(lower, upper, result, trusted) ==
    /\ VerifyLocatorPathProofs(result.leaves, trusted)
    /\ VerifyConsecutive(result.leaves)
    /\ LET expected == Expected(FlattenProofEntries(result.leaves), lower, upper)
       IN /\ expected.pred = NoEntry => IsLeftmost(Head(result.leaves))
          /\ expected.succ = NoEntry => /\ Last(result.leaves).next = NoPage
                                        /\ IsRightmost(Last(result.leaves))
          /\ result.pred = expected.pred
          /\ result.succ = expected.succ
          /\ result.entries = expected.entries

\* The answer before its proof: the scan and the two neighbours of the range.
Answer(table, start, end, lower, upper) ==
    LET keys(path) == table[Last(path).id].keys
        index == LowerBound(keys(start), lower)
    IN [entries |-> Scan(table, Last(start).id, index, upper, {}),
        pred |-> PredecessorEntry(table, start, index),
        succ |-> SuccessorEntry(table, end, LowerBound(keys(end), upper))]

\* Mutant: the leaf chain is trusted for the end of the range, nothing is proved.
ResolveRangeByChain(table, root, trusted, lower, upper) ==
    LET start == FindLeaf(table, root, lower, <<>>)
        entries == Scan(table, Last(start).id, LowerBound(table[Last(start).id].keys, lower), upper, {})
    IN IF /\ Readable(table, root) /\ table[root].hash = trusted
          /\ start # <<>> /\ ErrorEntry \notin ToSet(entries)
       THEN {[entries |-> entries]} ELSE {}

\* The set of the verified result, or the empty set for an error.
ResolveRange(table, root, trusted, lower, upper) ==
    LET start == FindLeaf(table, root, lower, <<>>)
        end == FindLeaf(table, root, upper, <<>>)
        answer == Answer(table, start, end, lower, upper)
        leaves == BuildRangeProof(table, root, start, answer, trusted)
        result == [leaves |-> leaves] @@ answer
    IN IF /\ Readable(table, root) /\ table[root].hash = trusted
          /\ start # <<>> /\ end # <<>>
          /\ ErrorEntry \notin ToSet(answer.entries) \cup {answer.pred, answer.succ}
          /\ leaves # <<>>
          /\ VerifyLocatorRangeResult(lower, upper, result, trusted)
       THEN {result} ELSE {}
=============================================================================
