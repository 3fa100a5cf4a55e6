---------------------------- MODULE LocatorTree ----------------------------
(***************************************************************************)
(* The authenticated log locator's Merkle B+ tree (internal/all): insert   *)
(* with splits and path hashes, and the stored form of a page.             *)
(*                                                                         *)
(* A tree is its pages, by page ID, and the fields of LocatorTree.  Keys   *)
(* are numbers in the order of LocatorKey.Compare.  A leaf's value goes    *)
(* with its key through every operation and every hash, so a key of a leaf *)
(* stands for the entry.  Hashes are terms and do not collide.             *)
(***************************************************************************)
EXTENDS Integers, Sequences, SequencesExt

CONSTANT Order   \* most children of an internal page

ASSUME OrderAssumption == Order \in Nat /\ Order >= 3

NoPage == -1

LeafHash(id, next, keys) == <<"LEAF", id, next, keys>>
InternalHash(keys, childHashes) == <<"INTERNAL", keys, childHashes>>

ChildHashes(pages, children) == <<>> \o [i \in DOMAIN children |-> pages[children[i]].hash]

\* leafHash, internalHash of a page of the tree.
PageHash(pages, id) ==
    LET p == pages[id]
    IN IF p.leaf THEN LeafHash(id, p.next, p.keys)
       ELSE InternalHash(p.keys, ChildHashes(pages, p.children))

Rehash(pages, id) == [pages EXCEPT ![id].hash = PageHash(pages, id)]

Leaf(keys, parent, next) ==
    [leaf |-> TRUE, keys |-> keys, children |-> <<>>, parent |-> parent, next |-> next, hash |-> <<>>]
Internal(keys, children, parent) ==
    [leaf |-> FALSE, keys |-> keys, children |-> children, parent |-> parent, next |-> NoPage, hash |-> <<>>]

\* findKeyIdx: the index, from 0, of the first larger key.
FindKeyIdx(keys, k) ==
    LET i == SelectInSeq(keys, LAMBDA x : k < x) IN IF i = 0 THEN Len(keys) ELSE i - 1

NewLocatorTree ==
    [pages |-> Rehash([id \in {0} |-> Leaf(<<>>, NoPage, NoPage)], 0),
     root |-> 0, nextID |-> 1, height |-> 0, count |-> 0, changed |-> {}]

\* updates.add
Changed(t, ids) == [t EXCEPT !.changed = @ \cup ids]

SetRoot(t, id) == Changed([t EXCEPT !.root = id, !.pages[id].parent = NoPage], {id})

\* A new page gets the next page ID.
AddPage(t, page) ==
    [t EXCEPT !.pages = (t.nextID :> page) @@ @, !.nextID = @ + 1]

Adopt(t, parent, ids) ==
    Changed([t EXCEPT !.pages = [id \in DOMAIN @ |->
                IF id \in ids THEN [@[id] EXCEPT !.parent = parent] ELSE @[id]]], ids)

RECURSIVE InsertParent(_, _, _, _), InternalSplit(_, _)

\* insertParent: the right page and its key are put into the parent, or both pages
\* under a new root.
InsertParent(t, cur, right, key) ==
    LET parent == t.pages[cur].parent
        new == AddPage(t, Internal(<<key>>, <<cur, right>>, NoPage))
        adopted == Adopt(new, t.nextID, {cur, right})
        idx == SelectInSeq(t.pages[parent].children, LAMBDA c : c = cur)
        linked == [t EXCEPT !.pages[parent].keys = InsertAt(@, idx, key),
                            !.pages[parent].children = InsertAt(@, idx + 1, right)]
    IN IF parent = NoPage
       THEN InternalSplit(SetRoot([adopted EXCEPT !.pages = Rehash(@, t.nextID), !.height = @ + 1],
                                  t.nextID),
                          t.nextID)
       ELSE InternalSplit(Changed(Adopt(linked, parent, {right}), {parent}), parent)

\* Mutant: the children that move to the right page are not in the update.
InternalSplitQuiet(t, cur) ==
    LET p == t.pages[cur]
        mid == Len(p.keys) \div 2
        children == SubSeq(p.children, mid + 2, Len(p.children))
        new == AddPage(t, Internal(SubSeq(p.keys, mid + 2, Len(p.keys)), children, p.parent))
        adopted == [Adopt(new, t.nextID, ToSet(children)) EXCEPT !.changed = t.changed]
        right == [adopted EXCEPT !.pages = Rehash(@, t.nextID)]
        left == [right EXCEPT !.pages[cur].keys = SubSeq(@, 1, mid),
                              !.pages[cur].children = SubSeq(@, 1, mid + 1)]
    IN IF Len(p.children) <= Order THEN t
       ELSE InsertParent(Changed([left EXCEPT !.pages = Rehash(@, cur)], {cur, t.nextID}),
                         cur, t.nextID, p.keys[mid + 1])

\* internalSplit: the children of the right half move to a new page.
InternalSplit(t, cur) ==
    LET p == t.pages[cur]
        mid == Len(p.keys) \div 2
        children == SubSeq(p.children, mid + 2, Len(p.children))
        new == AddPage(t, Internal(SubSeq(p.keys, mid + 2, Len(p.keys)), children, p.parent))
        adopted == Adopt(new, t.nextID, ToSet(children))
        right == [adopted EXCEPT !.pages = Rehash(@, t.nextID)]
        left == [right EXCEPT !.pages[cur].keys = SubSeq(@, 1, mid),
                              !.pages[cur].children = SubSeq(@, 1, mid + 1)]
    IN IF Len(p.children) <= Order THEN t
       ELSE InsertParent(Changed([left EXCEPT !.pages = Rehash(@, cur)], {cur, t.nextID}),
                         cur, t.nextID, p.keys[mid + 1])

\* leafSplit: the left page is hashed before it loses the right half.
LeafSplit(t, cur) ==
    LET p == t.pages[cur]
        mid == Len(p.keys) \div 2
        rightKeys == SubSeq(p.keys, mid + 1, Len(p.keys))
        new == AddPage(t, Leaf(rightKeys, p.parent, p.next))
        hashed == [new EXCEPT !.pages = Rehash(Rehash(@, cur), t.nextID)]
        left == [hashed EXCEPT !.pages[cur].keys = SubSeq(@, 1, mid), !.pages[cur].next = t.nextID]
    IN InsertParent(Changed(left, {cur, t.nextID}), cur, t.nextID, rightKeys[1])

\* updatePathHashes: from the leaf up; the last page becomes the root.
RECURSIVE UpdatePathHashes(_, _)
UpdatePathHashes(t, cur) ==
    LET hashed == Changed([t EXCEPT !.pages = Rehash(@, cur)], {cur})
        parent == t.pages[cur].parent
    IN IF parent = NoPage THEN SetRoot(hashed, cur) ELSE UpdatePathHashes(hashed, parent)

\* The leaf a key belongs to.
RECURSIVE LeafFor(_, _, _)
LeafFor(t, id, key) ==
    LET p == t.pages[id]
    IN IF p.leaf THEN id ELSE LeafFor(t, p.children[FindKeyIdx(p.keys, key) + 1], key)

\* InsertWithUpdate: the tree after the insert; changed are the pages of the update.
Insert(tree, key) ==
    LET cur == LeafFor(tree, tree.root, key)
        t == [tree EXCEPT !.changed = {},
                          !.pages[cur].keys = InsertAt(@, FindKeyIdx(@, key) + 1, key)]
        split == IF Len(t.pages[cur].keys) >= Order THEN LeafSplit(t, cur) ELSE t
    IN UpdatePathHashes([split EXCEPT !.count = @ + 1], cur)

RootHash(t) == t.pages[t.root].hash

-----------------------------------------------------------------------------
(* Stored pages *)

\* MarshalPage and the columns beside it: a child is its ID and its hash.
MarshalPage(pages, id) ==
    LET p == pages[id]
    IN [leaf |-> p.leaf, keys |-> p.keys, children |-> p.children,
        childHashes |-> ChildHashes(pages, p.children), parent |-> p.parent,
        next |-> p.next, hash |-> p.hash]

\* UnmarshalStoredPage accepts the page: its contents give its hash.
Readable(table, id) ==
    /\ id \in DOMAIN table
    /\ LET p == table[id]
       IN p.hash = IF p.leaf THEN LeafHash(id, p.next, p.keys) ELSE InternalHash(p.keys, p.childHashes)

\* readChild: child i of p, counted from 0, is readable and the one p refers to.
ReadChild(table, p, i) ==
    LET id == p.children[i + 1]
    IN Readable(table, id) /\ table[id].hash = p.childHashes[i + 1]

=============================================================================
