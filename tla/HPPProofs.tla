----------------------------- MODULE HPPProofs ------------------------------
(***************************************************************************)
(* What a proof that verifies says, for trees of every size: the hashes    *)
(* that it carries in a tree it has a plan for are those of the trees      *)
(* behind the trusted root.                                                *)
(***************************************************************************)
EXTENDS HPP, MerkleProofs

-----------------------------------------------------------------------------
(* Planning and reconstruction, level by level *)

\* The nodes of level l on the way from the targets to the root.
Active(targets, l) == {Ancestor(i, l) : i \in targets}

LEMMA ActiveUp ==
    ASSUME NEW targets, targets \subseteq Nat
    PROVE  /\ Active(targets, 0) = targets
           /\ \A l \in Nat : /\ Active(targets, l) \subseteq Nat
                             /\ Active(targets, l + 1) = {i \div 2 : i \in Active(targets, l)}
  <1>1. \A i \in targets : /\ Ancestor(i, 0) = i
                           /\ \A l \in Nat : /\ Ancestor(i, l) \in Nat
                                             /\ Ancestor(i, l + 1) = Ancestor(i, l) \div 2
    BY AncestorUp
  <1>2. Active(targets, 0) = targets
    BY <1>1 DEF Active
  <1>3. ASSUME NEW l \in Nat
        PROVE  /\ Active(targets, l) \subseteq Nat
               /\ Active(targets, l + 1) = {i \div 2 : i \in Active(targets, l)}
    <2> DEFINE Half(i) == i \div 2
    <2>1. \A i \in targets : Ancestor(i, l) \in Nat /\ Ancestor(i, l + 1) = Half(Ancestor(i, l))
      BY <1>1
    <2> HIDE DEF Half
    <2>2. {Ancestor(i, l + 1) : i \in targets} = {Half(j) : j \in {Ancestor(i, l) : i \in targets}}
      BY <2>1, ZenonT(30)
    <2> QED
      BY <2>1, <2>2 DEF Active, Half
  <1> QED
    BY <1>2, <1>3

\* The levels of a tree over n leaves: one width per level, the last one wide.
Widths(leaves) == [l \in 0..BitsLen[Len(leaves) - 1] |-> Len(RegionTree(leaves)[l + 1])]

LEMMA WidthsAre ==
    ASSUME NEW leaves, IsList(leaves), Len(leaves) > 0
    PROVE  LET top == BitsLen[Len(leaves) - 1]
               width == Widths(leaves)
           IN /\ top \in Nat
              /\ \A l \in 0..top : width[l] \in Nat /\ width[l] > 0
              /\ width[0] = Len(leaves)
              /\ width[top] = 1
              /\ \A l \in 0..(top - 1) : width[l + 1] = (width[l] + 1) \div 2
  <1> DEFINE top == BitsLen[Len(leaves) - 1]
             tree == RegionTree(leaves)
             width == Widths(leaves)
  <1>1. top \in Nat
    BY RefHeightIs DEF IsList
  <1>2. tree = Build(leaves, top)
    BY DEF RegionTree
  <1>3. /\ tree[1] = leaves
        /\ \A l \in 1..(top + 1) : IsList(tree[l])
        /\ \A l \in 1..top : Len(tree[l + 1]) = (Len(tree[l]) + 1) \div 2
        /\ \A l \in 0..top : Len(tree[l + 1]) > 0
        /\ \A l \in 0..top : Len(tree[l + 1]) = 1 <=> l = top
    <2>1. top <= top /\ BitsLen[Len(leaves) - 1] <= top
      BY <1>1
    <2>2. tree[1] = leaves
      BY <1>1, <1>2, BuildLevels
    <2>3. /\ \A l \in 1..(top + 1) : IsList(tree[l])
          /\ \A l \in 1..top : Len(tree[l + 1]) = (Len(tree[l]) + 1) \div 2
      BY <1>1, <1>2, BuildWidths
    <2>4. \A l \in 0..top : Len(tree[l + 1]) > 0
      BY <1>1, <1>2, BuildSpans
    <2>5. \A l \in 0..top : Len(tree[l + 1]) = 1 <=> l = top
      BY <1>1, <1>2, <2>1, TopIsSingle
    <2> QED
      BY <2>2, <2>3, <2>4, <2>5
  <1>4. \A l \in 0..top : width[l] = Len(tree[l + 1])
    BY DEF Widths
  <1> HIDE DEF top, tree, width
  <1>5. ASSUME NEW l \in 0..top
        PROVE  width[l] \in Nat /\ width[l] > 0
    <2>1. l + 1 \in 1..(top + 1)
      BY <1>1
    <2> QED
      BY <1>3, <1>4, <2>1 DEF IsList
  <1>6. width[0] = Len(leaves) /\ width[top] = 1
    <2>1. 0 \in 0..top /\ top \in 0..top /\ 0 + 1 = 1
      BY <1>1
    <2> QED
      BY <1>3, <1>4, <2>1
  <1>7. ASSUME NEW l \in 0..(top - 1)
        PROVE  width[l + 1] = (width[l] + 1) \div 2
    <2>1. l \in 0..top /\ l + 1 \in 0..top /\ l + 1 \in 1..top
      BY <1>1
    <2> QED
      BY <1>3, <1>4, <2>1
  <1> QED
    BY <1>1, <1>5, <1>6, <1>7 DEF top, width

\* The recursive functions of planTree and reconstructTreeTrace exist.
LEMMA RequiredAboveDef ==
    ASSUME NEW targets, NEW leafCount, BitsLen[leafCount - 1] \in Nat
    PROVE  LET top == BitsLen[leafCount - 1]
           IN \E above : /\ RequiredAbove(targets, leafCount) = above[top].required
                         /\ above[0] = [active |-> targets, width |-> leafCount, required |-> {}]
                         /\ \A l \in 0..(top - 1) : above[l + 1] = PlanUp(above[l], l)
  <1> DEFINE top == BitsLen[leafCount - 1]
             start == [active |-> targets, width |-> leafCount, required |-> {}]
             Is(f, n) == f = [l \in 0..n |-> IF l = 0 THEN start ELSE PlanUp(f[l - 1], l - 1)]
             T == {n \in Nat : \E f : Is(f, n)}
  <1> HIDE DEF start, top
  <1>1. 0 \in T
    <2> DEFINE g == [l \in 0..0 |-> start]
    <2>1. Is(g, 0)
      OBVIOUS
    <2> HIDE DEF Is, g
    <2> QED
      BY <2>1
  <1>2. ASSUME NEW n \in Nat, n \in T
        PROVE  n + 1 \in T
    <2>1. PICK f : Is(f, n)
      BY <1>2
    <2> DEFINE g == [l \in 0..(n + 1) |-> IF l = n + 1 THEN PlanUp(f[n], n) ELSE f[l]]
    <2>2. ASSUME NEW l \in 0..(n + 1)
          PROVE  g[l] = IF l = 0 THEN start ELSE PlanUp(g[l - 1], l - 1)
      <3>1. CASE l = n + 1
        BY <3>1
      <3>2. CASE l # n + 1
        <4>1. l \in 0..n /\ (l # 0 => l - 1 \in 0..(n + 1) /\ l - 1 # n + 1)
          BY <3>2
        <4>2. f[l] = IF l = 0 THEN start ELSE PlanUp(f[l - 1], l - 1)
          BY <2>1, <4>1
        <4>3. g[l] = f[l] /\ (l # 0 => g[l - 1] = f[l - 1])
          BY <3>2, <4>1
        <4> HIDE DEF g
        <4> QED
          BY <4>2, <4>3
      <3> QED
        BY <3>1, <3>2
    <2>3. Is(g, n + 1)
      BY <2>2
    <2> HIDE DEF g, Is
    <2> QED
      BY <2>3
  <1>3. \E f : Is(f, top)
    <2> HIDE DEF T
    <2>1. top \in T
      BY <1>1, <1>2, NatInduct DEF top
    <2> QED
      BY <2>1 DEF T
  <1> DEFINE above == CHOOSE f : Is(f, top)
  <1>4. Is(above, top)
    BY <1>3
  <1>5. RequiredAbove(targets, leafCount) = above[top].required
    BY DEF RequiredAbove, start, top
  <1> HIDE DEF above
  <1>6. top \in Nat
    BY DEF top
  <1>7. above[0] = start
    BY <1>4, <1>6
  <1>8. \A l \in 0..(top - 1) : above[l + 1] = PlanUp(above[l], l)
    <2> SUFFICES ASSUME NEW l \in 0..(top - 1)
                 PROVE  above[l + 1] = PlanUp(above[l], l)
      OBVIOUS
    <2>1. l + 1 \in 0..top /\ l + 1 # 0 /\ (l + 1) - 1 = l
      BY <1>6
    <2> QED
      BY <1>4, <2>1
  <1> QED
    BY <1>5, <1>7, <1>8 DEF start, top


\* Leaves to start from are pairs of <<0, index>> and hash.
TargetsOf(leaves) == {l[1][2] : l \in leaves}

IsReconstruction(above, leafCount, leaves, supplied) ==
    LET top == BitsLen[leafCount - 1]
    IN /\ ReconstructAbove(leafCount, leaves, supplied) = AsFunction(above[top].known)
       /\ above[0] = [active |-> TargetsOf(leaves), width |-> leafCount, known |-> leaves \cup supplied]
       /\ \A l \in 0..(top - 1) : above[l + 1] = ReconstructUp(above[l], l)

LEMMA ReconstructAboveDef ==
    ASSUME NEW leafCount, NEW leaves, NEW supplied, BitsLen[leafCount - 1] \in Nat
    PROVE  \E above : IsReconstruction(above, leafCount, leaves, supplied)
  <1> DEFINE top == BitsLen[leafCount - 1]
             start == [active |-> TargetsOf(leaves), width |-> leafCount, known |-> leaves \cup supplied]
             Is(f, n) == f = [l \in 0..n |-> IF l = 0 THEN start ELSE ReconstructUp(f[l - 1], l - 1)]
             T == {n \in Nat : \E f : Is(f, n)}
  <1> HIDE DEF start, top
  <1>1. 0 \in T
    <2> DEFINE g == [l \in 0..0 |-> start]
    <2>1. Is(g, 0)
      OBVIOUS
    <2> HIDE DEF Is, g
    <2> QED
      BY <2>1
  <1>2. ASSUME NEW n \in Nat, n \in T
        PROVE  n + 1 \in T
    <2>1. PICK f : Is(f, n)
      BY <1>2
    <2> DEFINE g == [l \in 0..(n + 1) |-> IF l = n + 1 THEN ReconstructUp(f[n], n) ELSE f[l]]
    <2>2. ASSUME NEW l \in 0..(n + 1)
          PROVE  g[l] = IF l = 0 THEN start ELSE ReconstructUp(g[l - 1], l - 1)
      <3>1. CASE l = n + 1
        BY <3>1
      <3>2. CASE l # n + 1
        <4>1. l \in 0..n /\ (l # 0 => l - 1 \in 0..(n + 1) /\ l - 1 # n + 1)
          BY <3>2
        <4>2. f[l] = IF l = 0 THEN start ELSE ReconstructUp(f[l - 1], l - 1)
          BY <2>1, <4>1
        <4>3. g[l] = f[l] /\ (l # 0 => g[l - 1] = f[l - 1])
          BY <3>2, <4>1
        <4> HIDE DEF g
        <4> QED
          BY <4>2, <4>3
      <3> QED
        BY <3>1, <3>2
    <2>3. Is(g, n + 1)
      BY <2>2
    <2> HIDE DEF g, Is
    <2> QED
      BY <2>3
  <1>3. \E f : Is(f, top)
    <2> HIDE DEF T
    <2>1. top \in T
      BY <1>1, <1>2, NatInduct DEF top
    <2> QED
      BY <2>1 DEF T
  <1> DEFINE above == CHOOSE f : Is(f, top)
  <1>4. Is(above, top)
    BY <1>3
  <1>5. ReconstructAbove(leafCount, leaves, supplied) = AsFunction(above[top].known)
    BY DEF ReconstructAbove, start, top, TargetsOf
  <1> HIDE DEF above
  <1>6. top \in Nat
    BY DEF top
  <1>7. above[0] = start
    BY <1>4, <1>6
  <1>8. \A l \in 0..(top - 1) : above[l + 1] = ReconstructUp(above[l], l)
    <2> SUFFICES ASSUME NEW l \in 0..(top - 1)
                 PROVE  above[l + 1] = ReconstructUp(above[l], l)
      OBVIOUS
    <2>1. l + 1 \in 0..top /\ l + 1 # 0 /\ (l + 1) - 1 = l
      BY <1>6
    <2> QED
      BY <1>4, <2>1
  <1> QED
    BY <1>5, <1>7, <1>8 DEF start, top, IsReconstruction

\* planTree asks for the siblings of the active nodes of every level but the last.
LEMMA RequiredIs ==
    ASSUME NEW leaves, IsList(leaves), Len(leaves) > 0, NEW targets, targets \subseteq Nat
    PROVE  RequiredAbove(targets, Len(leaves)) =
               UNION {RequiredNodes(Active(targets, l), Widths(leaves)[l], l) :
                         l \in 0..(BitsLen[Len(leaves) - 1] - 1)}
  <1> DEFINE n == Len(leaves)
             top == BitsLen[n - 1]
             width == Widths(leaves)
             Level(l) == RequiredNodes(Active(targets, l), width[l], l)
  <1>1. /\ top \in Nat /\ width[0] = n
        /\ \A l \in 0..(top - 1) : width[l + 1] = (width[l] + 1) \div 2
    BY WidthsAre
  <1>2. PICK above : /\ RequiredAbove(targets, n) = above[top].required
                     /\ above[0] = [active |-> targets, width |-> n, required |-> {}]
                     /\ \A l \in 0..(top - 1) : above[l + 1] = PlanUp(above[l], l)
    BY <1>1, RequiredAboveDef
  <1> HIDE DEF top, width, n
  <1> DEFINE Good(l) == /\ above[l].active = Active(targets, l)
                        /\ above[l].width = width[l]
                        /\ above[l].required = UNION {Level(k) : k \in 0..(l - 1)}
             T == {l \in Nat : l <= top => Good(l)}
  <1>3. 0 \in T
    <2>1. above[0].active = targets /\ above[0].width = n /\ above[0].required = {}
      BY <1>2
    <2>2. UNION {Level(k) : k \in 0..(0 - 1)} = {}
      <3> HIDE DEF Level
      <3>1. 0..(0 - 1) = {}
        OBVIOUS
      <3> QED
        BY <3>1
    <2> HIDE DEF Level
    <2> QED
      BY <1>1, <2>1, <2>2, ActiveUp
  <1>4. ASSUME NEW l \in Nat, l \in T
        PROVE  l + 1 \in T
    <2> SUFFICES ASSUME l + 1 <= top
                 PROVE  Good(l + 1)
      OBVIOUS
    <2>1. Good(l) /\ l \in 0..(top - 1)
      BY <1>1, <1>4
    <2>2. above[l + 1] = PlanUp(above[l], l)
      BY <1>2, <2>1
    <2>3. /\ above[l + 1].active = {i \div 2 : i \in Active(targets, l)}
          /\ above[l + 1].width = (width[l] + 1) \div 2
          /\ above[l + 1].required = (UNION {Level(k) : k \in 0..(l - 1)}) \cup Level(l)
      <3> DEFINE old == above[l]
      <3>1. /\ old.active = Active(targets, l) /\ old.width = width[l]
            /\ old.required = UNION {Level(k) : k \in 0..(l - 1)}
        BY <2>1
      <3>2. /\ above[l + 1].active = {i \div 2 : i \in old.active}
            /\ above[l + 1].width = (old.width + 1) \div 2
            /\ above[l + 1].required = old.required \cup RequiredNodes(old.active, old.width, l)
        BY <2>2 DEF PlanUp
      <3> HIDE DEF old
      <3>3. {i \div 2 : i \in old.active} = {i \div 2 : i \in Active(targets, l)}
        BY <3>1, Zenon
      <3>4. RequiredNodes(old.active, old.width, l) = Level(l)
        BY <3>1, Zenon
      <3> HIDE DEF Level
      <3> QED
        BY <3>1, <3>2, <3>3, <3>4
    <2>4. (UNION {Level(k) : k \in 0..(l - 1)}) \cup Level(l) = UNION {Level(k) : k \in 0..((l + 1) - 1)}
      <3> DEFINE A == 0..(l - 1)
                 B == 0..((l + 1) - 1)
      <3>1. B = A \cup {l}
        OBVIOUS
      <3> HIDE DEF Level, A, B
      <3>2. (UNION {Level(k) : k \in A}) \cup Level(l) = UNION {Level(k) : k \in B}
        <4>1. ASSUME NEW x
              PROVE  x \in (UNION {Level(k) : k \in A}) \cup Level(l) <=> x \in UNION {Level(k) : k \in B}
          BY <3>1
        <4> QED
          BY <4>1
      <3> QED
        BY <3>2 DEF A, B
    <2>5. /\ l + 1 \in Nat /\ width[l + 1] = (width[l] + 1) \div 2
          /\ Active(targets, l + 1) = {i \div 2 : i \in Active(targets, l)}
      <3>1. l + 1 \in Nat /\ width[l + 1] = (width[l] + 1) \div 2
        BY <1>1, <2>1
      <3> QED
        BY <3>1, ActiveUp
    <2> HIDE DEF Level
    <2> QED
      BY <2>3, <2>4, <2>5
  <1>5. Good(top)
    <2> HIDE DEF T
    <2>1. top \in T
      BY <1>1, <1>3, <1>4, NatInduct
    <2> QED
      BY <1>1, <2>1 DEF T
  <1> QED
    BY <1>2, <1>5 DEF top, width, n

\* The active nodes are nodes of the tree, and the root is one of them.
LEMMA ActiveInTree ==
    ASSUME NEW leaves, IsList(leaves), Len(leaves) > 0, NEW targets, targets \subseteq 0..(Len(leaves) - 1)
    PROVE  LET top == BitsLen[Len(leaves) - 1]
           IN /\ \A l \in 0..top : Active(targets, l) \subseteq 0..(Widths(leaves)[l] - 1)
              /\ targets # {} => Active(targets, top) = {0}
  <1> DEFINE n == Len(leaves)
             top == BitsLen[n - 1]
             width == Widths(leaves)
  <1>1. /\ top \in Nat /\ width[0] = n /\ width[top] = 1
        /\ \A l \in 0..top : width[l] \in Nat /\ width[l] > 0
        /\ \A l \in 0..(top - 1) : width[l + 1] = (width[l] + 1) \div 2
    BY WidthsAre
  <1>2. n \in Nat
    BY DEF IsList
  <1> HIDE DEF top, width
  <1>3. /\ Active(targets, 0) = targets
        /\ \A l \in Nat : /\ Active(targets, l) \subseteq Nat
                          /\ Active(targets, l + 1) = {i \div 2 : i \in Active(targets, l)}
    <2>1. targets \subseteq Nat
      BY <1>2
    <2> QED
      BY <2>1, ActiveUp
  <1> DEFINE Good(l) == Active(targets, l) \subseteq 0..(width[l] - 1) /\ (targets # {} => Active(targets, l) # {})
             T == {l \in Nat : l <= top => Good(l)}
  <1>4. 0 \in T
    BY <1>1, <1>3
  <1>5. ASSUME NEW l \in Nat, l \in T
        PROVE  l + 1 \in T
    <2> SUFFICES ASSUME l + 1 <= top
                 PROVE  Good(l + 1)
      OBVIOUS
    <2>1. Good(l) /\ l \in 0..(top - 1)
      BY <1>1, <1>5
    <2>2. width[l] \in Nat /\ width[l] > 0 /\ width[l + 1] = (width[l] + 1) \div 2
      BY <1>1, <2>1
    <2>3. Active(targets, l + 1) = {i \div 2 : i \in Active(targets, l)}
      BY <1>3
    <2>4. ASSUME NEW i \in Active(targets, l)
          PROVE  i \div 2 \in 0..(width[l + 1] - 1)
      <3> DEFINE w == width[l]
      <3>1. i \in Nat /\ i < w /\ w \in Nat
        BY <2>1, <2>2
      <3> HIDE DEF w
      <3>2. i \div 2 \in 0..(((w + 1) \div 2) - 1)
        BY <3>1
      <3> QED
        BY <2>2, <3>2 DEF w
    <2>5. Active(targets, l + 1) \subseteq 0..(width[l + 1] - 1)
      BY <2>3, <2>4
    <2>6. targets # {} => Active(targets, l + 1) # {}
      BY <2>1, <2>3
    <2> QED
      BY <2>5, <2>6
  <1>6. \A l \in 0..top : Good(l)
    <2> SUFFICES ASSUME NEW l \in 0..top
                 PROVE  Good(l)
      OBVIOUS
    <2> HIDE DEF T
    <2>1. \A m \in Nat : m \in T
      BY <1>4, <1>5, NatInduct
    <2>2. l \in Nat /\ l <= top
      BY <1>1
    <2>3. l \in T
      BY <2>1, <2>2
    <2> QED
      BY <2>2, <2>3 DEF T
  <1>7. targets # {} => Active(targets, top) = {0}
    <2>1. Good(top)
      BY <1>1, <1>6
    <2> QED
      BY <1>1, <2>1
  <1> QED
    BY <1>6, <1>7 DEF top, width, n

\* Every child of an active node is active itself or among the nodes S.
Covers(S, targets, width, height) ==
    \A l \in 0..(height - 1) : \A i \in Active(targets, l + 1), c \in Nat :
        c \in {2 * i, 2 * i + 1} /\ c < width[l] => c \in Active(targets, l) \/ <<l, c>> \in S

LEMMA RequiredCovers ==
    ASSUME NEW leaves, IsList(leaves), Len(leaves) > 0, NEW targets, targets \subseteq 0..(Len(leaves) - 1)
    PROVE  /\ Covers(RequiredAbove(targets, Len(leaves)), targets, Widths(leaves), BitsLen[Len(leaves) - 1])
           /\ \A k \in RequiredAbove(targets, Len(leaves)) :
                 \E l \in 0..(BitsLen[Len(leaves) - 1] - 1), c \in Nat :
                    /\ k = <<l, c>> /\ c < Widths(leaves)[l] /\ c \notin Active(targets, l)
                    /\ \E i \in Active(targets, l + 1) : c \in {2 * i, 2 * i + 1}
  <1> DEFINE n == Len(leaves)
             top == BitsLen[n - 1]
             width == Widths(leaves)
             required == RequiredAbove(targets, n)
             Sibling(i) == IF i % 2 = 0 THEN i + 1 ELSE i - 1
  <1>1. /\ top \in Nat /\ \A l \in 0..top : width[l] \in Nat
    BY WidthsAre
  <1>2. targets \subseteq Nat
    BY DEF IsList
  <1>3. required = UNION {RequiredNodes(Active(targets, l), width[l], l) : l \in 0..(top - 1)}
    BY <1>2, RequiredIs
  <1>4. \A l \in Nat : /\ Active(targets, l) \subseteq Nat
                       /\ Active(targets, l + 1) = {i \div 2 : i \in Active(targets, l)}
    BY <1>2, ActiveUp
  <1> HIDE DEF top, width, required
  <1>5. \A l \in 0..(top - 1) : l \in 0..top /\ l \in Nat
    BY <1>1
  <1>6. ASSUME NEW l \in 0..(top - 1), NEW i \in Active(targets, l + 1), NEW c \in Nat,
               c \in {2 * i, 2 * i + 1}, c < width[l], c \notin Active(targets, l)
        PROVE  <<l, c>> \in required
    <2>1. PICK a \in Active(targets, l) : i = a \div 2
      BY <1>4, <1>5
    <2>2. a \in Nat
      BY <1>4, <1>5, <2>1
    <2>3. c = Sibling(a)
      <3>1. a # c
        BY <1>6
      <3>2. a = 2 * i \/ a = 2 * i + 1
        BY <2>1, <2>2
      <3>3. i \in Nat
        BY <1>4, <1>5
      <3> QED
        BY <1>6, <3>1, <3>2, <3>3
    <2>4. c \in 0..(width[l] - 1)
      BY <1>1, <1>5, <1>6
    <2>5. <<l, c>> \in RequiredNodes(Active(targets, l), width[l], l)
      <3> HIDE DEF Sibling
      <3>1. c \in {Sibling(j) : j \in Active(targets, l)}
        BY <2>3
      <3> QED
        BY <1>6, <2>4, <3>1 DEF RequiredNodes, Sibling
    <2> QED
      BY <1>3, <2>5
  <1>7. ASSUME NEW k \in required
        PROVE  \E l \in 0..(top - 1), c \in Nat :
                  /\ k = <<l, c>> /\ c < width[l] /\ c \notin Active(targets, l)
                  /\ \E i \in Active(targets, l + 1) : c \in {2 * i, 2 * i + 1}
    <2>1. PICK l \in 0..(top - 1) : k \in RequiredNodes(Active(targets, l), width[l], l)
      BY <1>3
    <2>2. PICK a \in Active(targets, l) : k = <<l, Sibling(a)>> /\ Sibling(a) \in (0..(width[l] - 1)) \ Active(targets, l)
      BY <2>1 DEF RequiredNodes
    <2>3. a \in Nat /\ a \div 2 \in Active(targets, l + 1)
      BY <1>4, <1>5, <2>2
    <2>4. Sibling(a) \in {2 * (a \div 2), 2 * (a \div 2) + 1}
      BY <2>3
    <2>5. Sibling(a) \in Nat /\ Sibling(a) < width[l]
      BY <1>1, <1>5, <2>2
    <2> QED
      BY <2>2, <2>3, <2>4, <2>5
  <1> QED
    BY <1>6, <1>7 DEF Covers, top, width, required, n


\* A set of pairs that is a map.
Keys(pairs) == {p[1] : p \in pairs}
Functional(pairs) == \A p, q \in pairs : p[1] = q[1] => p[2] = q[2]

LEMMA ValueIs ==
    ASSUME NEW pairs, Functional(pairs), NEW p \in pairs
    PROVE  Value(pairs, p[1]) = p[2]
  <1> DEFINE q == CHOOSE q \in pairs : q[1] = p[1]
  <1>1. q \in pairs /\ q[1] = p[1]
    OBVIOUS
  <1>2. Value(pairs, p[1]) = q[2]
    BY DEF Value
  <1> HIDE DEF q
  <1> QED
    BY <1>1, <1>2 DEF Functional

LEMMA AsFunctionIs ==
    ASSUME NEW pairs
    PROVE  /\ DOMAIN AsFunction(pairs) = Keys(pairs)
           /\ \A k \in Keys(pairs) : AsFunction(pairs)[k] = Value(pairs, k)
  BY DEF AsFunction, Keys

\* A map extended at other keys keeps its values.
LEMMA ExtendIs ==
    ASSUME NEW old, Functional(old), NEW new, Functional(new), Keys(old) \cap Keys(new) = {}
    PROVE  /\ Functional(old \cup new)
           /\ Keys(old \cup new) = Keys(old) \cup Keys(new)
           /\ \A k \in Keys(old) : Value(old \cup new, k) = Value(old, k)
           /\ \A p \in new : Value(old \cup new, p[1]) = p[2]
  <1>1. Functional(old \cup new)
    BY DEF Functional, Keys
  <1>2. Keys(old \cup new) = Keys(old) \cup Keys(new)
    BY DEF Keys
  <1>3. ASSUME NEW k \in Keys(old)
        PROVE  Value(old \cup new, k) = Value(old, k)
    <2>1. PICK p \in old : k = p[1]
      BY DEF Keys
    <2>2. p \in old \cup new
      BY <2>1
    <2> QED
      BY <1>1, <2>1, <2>2, ValueIs
  <1>4. ASSUME NEW p \in new
        PROVE  Value(old \cup new, p[1]) = p[2]
    BY <1>1, <1>4, ValueIs, p \in old \cup new
  <1> QED
    BY <1>1, <1>2, <1>3, <1>4

\* What reconstructTreeTrace records: the hashes it was given, and over them the
\* nodes on the way to the root.
OnTheWay(targets, height) == UNION {{<<l, i>> : i \in Active(targets, l)} : l \in 0..height}

IsLeafMap(leaves) == Functional(leaves) /\ \A p \in leaves : p[1] = <<0, p[1][2]>>

IsTrace(known, width, height, leaves, supplied) ==
    /\ Functional(known)
    /\ Keys(known) = OnTheWay(TargetsOf(leaves), height) \cup Keys(supplied)
    /\ leaves \cup supplied \subseteq known
    /\ \A l \in 0..(height - 1) : \A i \in Active(TargetsOf(leaves), l + 1) :
          Value(known, <<l + 1, i>>) = IF 2 * i + 1 < width[l]
                                       THEN HashPair(Value(known, <<l, 2 * i>>), Value(known, <<l, 2 * i + 1>>))
                                       ELSE Value(known, <<l, 2 * i>>)

\* The nodes on the way are no supplied ones: planTree asks for none of them.
LEMMA WayNotRequired ==
    ASSUME NEW list, IsList(list), Len(list) > 0, NEW targets, targets \subseteq 0..(Len(list) - 1),
           NEW l \in Nat, NEW i \in Active(targets, l)
    PROVE  <<l, i>> \notin RequiredAbove(targets, Len(list))
  <1>1. ASSUME <<l, i>> \in RequiredAbove(targets, Len(list))
        PROVE  FALSE
    <2>1. PICK m \in 0..(BitsLen[Len(list) - 1] - 1), c \in Nat :
             <<l, i>> = <<m, c>> /\ c \notin Active(targets, m)
      BY <1>1, RequiredCovers
    <2>2. l = m /\ i = c
      BY <2>1
    <2> QED
      BY <2>1, <2>2
  <1> QED
    BY <1>1

LEMMA ReconstructIs ==
    ASSUME NEW list, IsList(list), Len(list) > 0,
           NEW leaves, IsLeafMap(leaves), TargetsOf(leaves) \subseteq 0..(Len(list) - 1),
           NEW supplied, Functional(supplied), Keys(supplied) = RequiredAbove(TargetsOf(leaves), Len(list))
    PROVE  \E known : /\ ReconstructAbove(Len(list), leaves, supplied) = AsFunction(known)
                      /\ IsTrace(known, Widths(list), BitsLen[Len(list) - 1], leaves, supplied)
  <1> DEFINE n == Len(list)
             top == BitsLen[n - 1]
             width == Widths(list)
             targets == TargetsOf(leaves)
             start == leaves \cup supplied
  <1>1. /\ top \in Nat /\ width[0] = n
        /\ \A l \in 0..(top - 1) : width[l + 1] = (width[l] + 1) \div 2
    BY WidthsAre
  <1>2. PICK above : /\ ReconstructAbove(n, leaves, supplied) = AsFunction(above[top].known)
                     /\ above[0] = [active |-> targets, width |-> n, known |-> start]
                     /\ \A l \in 0..(top - 1) : above[l + 1] = ReconstructUp(above[l], l)
    <2>1. BitsLen[n - 1] \in Nat
      BY <1>1
    <2>2. PICK above : IsReconstruction(above, n, leaves, supplied)
      <3> HIDE DEF n
      <3> QED
        BY <2>1, ReconstructAboveDef
    <2> QED
      BY <2>2 DEF IsReconstruction
  <1>r. \A l \in Nat : \A i \in Active(targets, l) : <<l, i>> \notin Keys(supplied)
    BY WayNotRequired
  <1> HIDE DEF top, width, n, targets
  <1>3. /\ Active(targets, 0) = targets
        /\ \A l \in Nat : /\ Active(targets, l) \subseteq Nat
                          /\ Active(targets, l + 1) = {i \div 2 : i \in Active(targets, l)}
    <2>1. targets \subseteq Nat
      BY DEF IsList, targets
    <2> QED
      BY <2>1, ActiveUp
  <1>c. \A l \in 0..(top - 1) : \A i \in Active(targets, l + 1), c \in Nat :
           c \in {2 * i, 2 * i + 1} /\ c < width[l] => c \in Active(targets, l) \/ <<l, c>> \in Keys(supplied)
    <2>1. Covers(RequiredAbove(targets, Len(list)), targets, Widths(list), BitsLen[Len(list) - 1])
      BY RequiredCovers DEF targets
    <2> QED
      BY <2>1 DEF Covers, top, width, n, targets
  <1>w. \A l \in 0..top : Active(targets, l) \subseteq 0..(width[l] - 1) /\ width[l] \in Nat
    <2>1. \A l \in 0..top : Active(targets, l) \subseteq 0..(width[l] - 1)
      BY ActiveInTree DEF top, width, n, targets
    <2> QED
      BY <2>1, WidthsAre DEF top, width, n
  <1> DEFINE Good(l) == /\ above[l].active = Active(targets, l)
                        /\ above[l].width = width[l]
                        /\ IsTrace(above[l].known, width, l, leaves, supplied)
             T == {l \in Nat : l <= top => Good(l)}
  <1>4. 0 \in T
    <2>1. above[0].active = targets /\ above[0].width = n /\ above[0].known = start
      BY <1>2
    <2>2. OnTheWay(targets, 0) = {<<0, i>> : i \in targets}
      <3>1. 0..0 = {0}
        OBVIOUS
      <3> QED
        BY <1>3, <3>1 DEF OnTheWay
    <2>3. Keys(leaves) = OnTheWay(targets, 0)
      <3>1. \A p \in leaves : p[1] = <<0, p[1][2]>>
        BY DEF IsLeafMap
      <3> QED
        <4>1. ASSUME NEW p \in leaves
              PROVE  p[1] \in OnTheWay(targets, 0)
          BY <2>2, <3>1 DEF targets, TargetsOf
        <4>2. ASSUME NEW k \in OnTheWay(targets, 0)
              PROVE  \E p \in leaves : k = p[1]
          <5>1. PICK p \in leaves : k = <<0, p[1][2]>>
            BY <2>2 DEF targets, TargetsOf
          <5> QED
            BY <3>1, <5>1
        <4> QED
          BY <4>1, <4>2 DEF Keys
    <2>4. Keys(leaves) \cap Keys(supplied) = {}
      BY <1>r, <1>3, <2>2, <2>3
    <2>5. Functional(start) /\ Keys(start) = OnTheWay(targets, 0) \cup Keys(supplied)
      BY <2>3, <2>4, ExtendIs DEF IsLeafMap
    <2>6. 0..(0 - 1) = {}
      OBVIOUS
    <2>7. leaves \cup supplied \subseteq start
      OBVIOUS
    <2> HIDE DEF start
    <2>8. IsTrace(start, width, 0, leaves, supplied)
      BY <2>5, <2>6, <2>7 DEF IsTrace, targets
    <2> QED
      BY <1>1, <1>3, <2>1, <2>8
  <1>5. ASSUME NEW l \in Nat, l \in T
        PROVE  l + 1 \in T
    <2> SUFFICES ASSUME l + 1 <= top
                 PROVE  Good(l + 1)
      OBVIOUS
    <2>1. Good(l) /\ l \in 0..(top - 1)
      BY <1>1, <1>5
    <2> DEFINE old == above[l].known
               next == Active(targets, l + 1)
               Up(i) == IF 2 * i + 1 < width[l]
                        THEN HashPair(Value(old, <<l, 2 * i>>), Value(old, <<l, 2 * i + 1>>))
                        ELSE Value(old, <<l, 2 * i>>)
               fresh == {<<<<l + 1, i>>, Up(i)>> : i \in next}
               new == old \cup fresh
    <2>2. above[l + 1] = ReconstructUp(above[l], l)
      BY <1>2, <2>1
    <2>3. next = {i \div 2 : i \in above[l].active} /\ above[l].width = width[l]
      <3>1. above[l].active = Active(targets, l)
        BY <2>1
      <3>2. {i \div 2 : i \in above[l].active} = {i \div 2 : i \in Active(targets, l)}
        BY <3>1, Zenon
      <3> QED
        BY <1>3, <2>1, <3>2
    <2>4. /\ above[l + 1].active = next
          /\ above[l + 1].width = (width[l] + 1) \div 2
          /\ above[l + 1].known = new
      <3> DEFINE below == above[l]
                 Child(i) == Value(below.known, <<l, i>>)
                 Hash(i) == IF 2 * i + 1 < below.width THEN HashPair(Child(2 * i), Child(2 * i + 1))
                                                       ELSE Child(2 * i)
                 active == {i \div 2 : i \in below.active}
      <3>1. /\ above[l + 1].active = active
            /\ above[l + 1].width = (below.width + 1) \div 2
            /\ above[l + 1].known = below.known \cup {<<<<l + 1, i>>, Hash(i)>> : i \in active}
        BY <2>2 DEF ReconstructUp
      <3>2. \A i : Hash(i) = Up(i)
        BY <2>3
      <3> HIDE DEF Hash, Up
      <3>3. {<<<<l + 1, i>>, Hash(i)>> : i \in active} = {<<<<l + 1, i>>, Up(i)>> : i \in next}
        BY <2>3, <3>2, Zenon
      <3> HIDE DEF active, next
      <3> QED
        BY <2>3, <3>1, <3>3 DEF active
    <2>5. IsTrace(old, width, l, leaves, supplied)
      BY <2>1
    <2> HIDE DEF old
    <2>6. Functional(old) /\ Keys(old) = OnTheWay(targets, l) \cup Keys(supplied)
      BY <2>5 DEF IsTrace, targets
    <2>7. Functional(fresh) /\ Keys(fresh) = {<<l + 1, i>> : i \in next}
      <3>1. \A p \in fresh : \E i \in next : p = <<<<l + 1, i>>, Up(i)>>
        OBVIOUS
      <3>2. \A i \in next : <<<<l + 1, i>>, Up(i)>> \in fresh
        OBVIOUS
      <3> HIDE DEF Up, next, fresh
      <3>3. \A p, q \in fresh : p[1] = q[1] => p[2] = q[2]
        BY <3>1
      <3>4. \A k : k \in Keys(fresh) <=> \E i \in next : k = <<l + 1, i>>
        <4>1. ASSUME NEW p \in fresh
              PROVE  \E i \in next : p[1] = <<l + 1, i>>
          BY <3>1
        <4>2. ASSUME NEW i \in next
              PROVE  \E p \in fresh : <<l + 1, i>> = p[1]
          BY <3>2
        <4> QED
          BY <4>1, <4>2 DEF Keys
      <3> QED
        BY <3>3, <3>4 DEF Functional
    <2>8. ASSUME NEW m \in 0..l, NEW i
           PROVE  <<m, i>> \notin Keys(fresh)
      BY <2>7, m # l + 1
    <2>9. Keys(old) \cap Keys(fresh) = {}
      <3>1. \A k \in OnTheWay(targets, l) : \E m \in 0..l : \E i : k = <<m, i>>
        BY DEF OnTheWay
      <3>2. \A i \in next : <<l + 1, i>> \notin Keys(supplied)
        BY <1>r
      <3> HIDE DEF fresh, next
      <3> QED
        BY <2>6, <2>7, <2>8, <3>1, <3>2
    <2> HIDE DEF fresh
    <2>10. /\ Functional(new) /\ Keys(new) = Keys(old) \cup Keys(fresh)
           /\ \A k \in Keys(old) : Value(new, k) = Value(old, k)
           /\ \A p \in fresh : Value(new, p[1]) = p[2]
      <3>1. Functional(old) /\ Functional(fresh) /\ Keys(old) \cap Keys(fresh) = {}
        BY <2>6, <2>7, <2>9
      <3> QED
        BY ZenonT(60), <3>1, ExtendIs
    <2>11. \A i \in next : Value(new, <<l + 1, i>>) = Up(i)
      <3> HIDE DEF Up, next
      <3>1. \A i \in next : <<<<l + 1, i>>, Up(i)>> \in fresh
        BY DEF fresh
      <3> QED
        BY <2>10, <3>1
    <2>12. leaves \cup supplied \subseteq new
      BY <2>5 DEF IsTrace
    <2> HIDE DEF new
    <2>13. OnTheWay(targets, l + 1) = OnTheWay(targets, l) \cup {<<l + 1, i>> : i \in next}
      <3>1. \A k : k \in 0..(l + 1) <=> k \in 0..l \/ k = l + 1
        OBVIOUS
      <3> QED
        BY <3>1 DEF OnTheWay
    <2>14. \A m \in 0..l : \A i \in Active(targets, m) : <<m, i>> \in OnTheWay(targets, l)
      BY DEF OnTheWay
    <2>15. ASSUME NEW m \in 0..((l + 1) - 1), NEW i \in Active(targets, m + 1)
           PROVE  Value(new, <<m + 1, i>>) = IF 2 * i + 1 < width[m]
                                             THEN HashPair(Value(new, <<m, 2 * i>>), Value(new, <<m, 2 * i + 1>>))
                                             ELSE Value(new, <<m, 2 * i>>)
      <3>1. m \in 0..l /\ m \in 0..(top - 1) /\ m + 1 \in 0..top
        BY <1>1, <2>1
      <3>2. i \in Nat /\ i <= width[m + 1] - 1 /\ width[m + 1] = (width[m] + 1) \div 2 /\ width[m] \in Nat
        BY <1>1, <1>w, <3>1
      <3>3. 2 * i \in Nat /\ 2 * i + 1 \in Nat /\ 2 * i < width[m]
        BY <3>2
      <3>4. ASSUME NEW c \in Nat, c \in {2 * i, 2 * i + 1}, c < width[m]
            PROVE  Value(new, <<m, c>>) = Value(old, <<m, c>>)
        <4>1. c \in Active(targets, m) \/ <<m, c>> \in Keys(supplied)
          BY <1>c, <3>1, <3>4
        <4>2. <<m, c>> \in Keys(old)
          BY <2>6, <2>14, <3>1, <4>1
        <4> QED
          BY <2>10, <4>2
      <3>5. CASE m = l
        <4>1. Value(new, <<m + 1, i>>) = Up(i)
          BY <2>11, <3>5
        <4> QED
          BY <3>3, <3>4, <3>5, <4>1
      <3>6. CASE m # l
        <4>1. m \in 0..(l - 1) /\ m + 1 \in 0..l
          BY <3>1, <3>6
        <4>2. <<m + 1, i>> \in Keys(old)
          BY <2>6, <2>14, <4>1
        <4>3. Value(new, <<m + 1, i>>) = Value(old, <<m + 1, i>>)
          BY <2>10, <4>2
        <4>4. Value(old, <<m + 1, i>>) = IF 2 * i + 1 < width[m]
                                         THEN HashPair(Value(old, <<m, 2 * i>>), Value(old, <<m, 2 * i + 1>>))
                                         ELSE Value(old, <<m, 2 * i>>)
          BY <2>5, <4>1 DEF IsTrace, targets
        <4> QED
          BY <3>3, <3>4, <4>3, <4>4
      <3> QED
        BY <3>5, <3>6
    <2>16. Keys(new) = OnTheWay(targets, l + 1) \cup Keys(supplied)
      BY <2>6, <2>7, <2>10, <2>13
    <2>17. IsTrace(new, width, l + 1, leaves, supplied)
      BY <2>10, <2>12, <2>15, <2>16 DEF IsTrace, targets
    <2> QED
      BY <1>1, <2>1, <2>4, <2>17
  <1>6. Good(top)
    <2> HIDE DEF T
    <2>1. \A l \in Nat : l \in T
      BY <1>4, <1>5, NatInduct
    <2>2. top \in T
      BY <1>1, <2>1
    <2> QED
      BY <1>1, <2>2 DEF T
  <1> QED
    BY <1>2, <1>6 DEF top, width, n

-----------------------------------------------------------------------------
(* One tree: the root determines the hashes that were used to reach it *)

LEMMA TreeLevels ==
    ASSUME NEW list, IsList(list), Len(list) > 0
    PROVE  LET top == BitsLen[Len(list) - 1]
               tree == RegionTree(list)
           IN /\ tree[1] = list
              /\ tree[top + 1][1] = MerkleRoot(list)
              /\ \A l \in 0..top : Widths(list)[l] = Len(tree[l + 1])
              /\ \A l \in 0..(top - 1) : \A i \in 0..(Widths(list)[l + 1] - 1) :
                    tree[l + 2][i + 1] = ParentHash(tree[l + 1], i)
  <1> DEFINE top == BitsLen[Len(list) - 1]
             tree == RegionTree(list)
             width == Widths(list)
  <1>1. top \in Nat
    BY WidthsAre
  <1>2. /\ tree[1] = list /\ Len(tree) = top + 1
        /\ \A l \in 1..top : tree[l + 1] = NextLevel(tree[l])
    BY <1>1, BuildLevels DEF RegionTree
  <1>3. tree[top + 1][1] = MerkleRoot(list)
    <2>1. Root(tree) = MerkleRoot(list)
      BY RegionTreeNodes
    <2> QED
      BY <1>2, <2>1 DEF Root, Last
  <1>4. \A l \in 0..top : width[l] = Len(tree[l + 1])
    BY DEF Widths
  <1>5. /\ \A l \in 1..(top + 1) : IsList(tree[l])
        /\ \A l \in 1..top : Len(tree[l + 1]) = (Len(tree[l]) + 1) \div 2
    BY <1>1, BuildWidths DEF RegionTree
  <1> HIDE DEF top, tree, width
  <1>6. ASSUME NEW l \in 0..(top - 1), NEW i \in 0..(width[l + 1] - 1)
        PROVE  tree[l + 2][i + 1] = ParentHash(tree[l + 1], i)
    <2>1. l + 1 \in 0..top /\ l + 1 \in 1..top /\ l + 1 \in 1..(top + 1) /\ (l + 1) + 1 = l + 2
      BY <1>1
    <2>2. tree[l + 2] = NextLevel(tree[l + 1])
      BY <1>2, <2>1
    <2>3. width[l + 1] = (Len(tree[l + 1]) + 1) \div 2
      BY <1>4, <1>5, <2>1
    <2>4. IsList(tree[l + 1])
      BY <1>5, <2>1
    <2> HIDE DEF IsList
    <2> QED
      BY <2>2, <2>3, <2>4, NextLevelIs
  <1> QED
    BY <1>2, <1>3, <1>4, <1>6 DEF top, tree, width

\* A node is in the tree, and its parent on the way.
LiesBelow(list, targets, l, c) ==
    /\ l \in 0..BitsLen[Len(list) - 1] /\ c \in Nat /\ c < Widths(list)[l]
    /\ l < BitsLen[Len(list) - 1] => c \div 2 \in Active(targets, l + 1)
    /\ l = BitsLen[Len(list) - 1] => c = 0

\* The parent of a node that a trace has is a node on the way.
LEMMA ParentOnTheWay ==
    ASSUME NEW list, IsList(list), Len(list) > 0, NEW targets, targets \subseteq 0..(Len(list) - 1),
           NEW l \in Nat, NEW c,
           <<l, c>> \in OnTheWay(targets, BitsLen[Len(list) - 1]) \cup RequiredAbove(targets, Len(list))
    PROVE  LiesBelow(list, targets, l, c)
  <1> DEFINE top == BitsLen[Len(list) - 1]
             width == Widths(list)
             required == RequiredAbove(targets, Len(list))
  <1>1. /\ top \in Nat /\ width[top] = 1
        /\ \A m \in 0..top : width[m] \in Nat
    BY WidthsAre
  <1>2. \A m \in 0..top : Active(targets, m) \subseteq 0..(width[m] - 1)
    BY ActiveInTree
  <1>3. \A k \in required :
           \E m \in 0..(top - 1), d \in Nat :
              /\ k = <<m, d>> /\ d < width[m]
              /\ \E i \in Active(targets, m + 1) : d \in {2 * i, 2 * i + 1}
    BY ZenonT(60), RequiredCovers
  <1>4. targets \subseteq Nat
    BY DEF IsList
  <1> HIDE DEF top, width, required
  <1>5. CASE <<l, c>> \in OnTheWay(targets, top)
    <2>1. PICK m \in 0..top : <<l, c>> \in {<<m, i>> : i \in Active(targets, m)}
      BY <1>5 DEF OnTheWay
    <2>2. l \in 0..top /\ c \in Active(targets, l)
      BY <2>1
    <2>3. c \in Nat /\ c < width[l]
      BY <1>1, <1>2, <2>2
    <2>4. c \div 2 \in Active(targets, l + 1)
      <3>1. Active(targets, l + 1) = {i \div 2 : i \in Active(targets, l)}
        BY <1>4, ActiveUp
      <3> QED
        BY <2>2, <3>1
    <2>5. l = top => c = 0
      BY <1>1, <2>3
    <2> QED
      BY <2>2, <2>3, <2>4, <2>5 DEF top, width, LiesBelow
  <1>6. CASE <<l, c>> \in required
    <2>1. PICK m \in 0..(top - 1), d \in Nat :
             /\ <<l, c>> = <<m, d>> /\ d < width[m]
             /\ \E i \in Active(targets, m + 1) : d \in {2 * i, 2 * i + 1}
      BY <1>3, <1>6
    <2>2. l = m /\ c = d
      BY <2>1
    <2>3. l \in 0..top /\ l < top
      BY <1>1, <2>2
    <2>4. PICK i \in Active(targets, l + 1) : c \in {2 * i, 2 * i + 1}
      BY <2>1, <2>2
    <2>5. i \in Nat
      <3>1. \A h \in Nat : Active(targets, h) \subseteq Nat
        BY <1>4, ActiveUp
      <3>2. l + 1 \in Nat
        OBVIOUS
      <3> QED
        BY <3>1, <3>2
    <2>6. c \div 2 = i
      BY <2>4, <2>5
    <2> QED
      BY <2>1, <2>2, <2>3, <2>4, <2>6 DEF top, width, LiesBelow
  <1> QED
    BY <1>5, <1>6 DEF top, required

\* reconstructTreeTrace reaches the root of a tree only from that tree's nodes.
LEMMA TraceIsTree ==
    ASSUME NEW list, IsList(list), Len(list) > 0,
           NEW leaves, TargetsOf(leaves) \subseteq 0..(Len(list) - 1), TargetsOf(leaves) # {},
           NEW supplied, Keys(supplied) = RequiredAbove(TargetsOf(leaves), Len(list)),
           NEW known, IsTrace(known, Widths(list), BitsLen[Len(list) - 1], leaves, supplied),
           Value(known, <<BitsLen[Len(list) - 1], 0>>) = MerkleRoot(list)
    PROVE  \A l \in Nat : \A c : <<l, c>> \in Keys(known) =>
               Value(known, <<l, c>>) = RegionTree(list)[l + 1][c + 1]
  <1> DEFINE top == BitsLen[Len(list) - 1]
             tree == RegionTree(list)
             width == Widths(list)
             targets == TargetsOf(leaves)
             V(l, c) == Value(known, <<l, c>>)
  <1>1. top \in Nat
    BY WidthsAre
  <1>2. /\ tree[top + 1][1] = V(top, 0)
        /\ \A l \in 0..top : width[l] = Len(tree[l + 1])
        /\ \A l \in 0..(top - 1) : \A i \in 0..(width[l + 1] - 1) :
              tree[l + 2][i + 1] = ParentHash(tree[l + 1], i)
    BY TreeLevels
  <1>3. Keys(known) = OnTheWay(targets, top) \cup RequiredAbove(targets, Len(list))
    BY DEF IsTrace
  <1>4. ASSUME NEW l \in Nat, NEW c, <<l, c>> \in Keys(known)
        PROVE  /\ l \in 0..top /\ c \in Nat /\ c < width[l]
               /\ l < top => c \div 2 \in Active(targets, l + 1)
               /\ l = top => c = 0
    <2>1. LiesBelow(list, targets, l, c)
      BY <1>3, <1>4, ParentOnTheWay
    <2> QED
      BY <2>1 DEF LiesBelow
  <1>5. \A l \in 0..(top - 1) : \A i \in Active(targets, l + 1) :
           /\ <<l + 1, i>> \in Keys(known)
           /\ V(l + 1, i) = IF 2 * i + 1 < width[l] THEN HashPair(V(l, 2 * i), V(l, 2 * i + 1)) ELSE V(l, 2 * i)
    <2> SUFFICES ASSUME NEW l \in 0..(top - 1), NEW i \in Active(targets, l + 1)
                 PROVE  /\ <<l + 1, i>> \in Keys(known)
                        /\ V(l + 1, i) = IF 2 * i + 1 < width[l] THEN HashPair(V(l, 2 * i), V(l, 2 * i + 1))
                                                                ELSE V(l, 2 * i)
      OBVIOUS
    <2>1. l + 1 \in 0..top
      BY <1>1
    <2>2. <<l + 1, i>> \in Keys(known)
      BY <1>3, <2>1 DEF OnTheWay
    <2> QED
      BY <2>2 DEF IsTrace
  <1> HIDE DEF top, tree, width, targets, V
  <1> DEFINE Good(l) == \A c : <<l, c>> \in Keys(known) => V(l, c) = tree[l + 1][c + 1]
             T == {n \in Nat : n <= top => Good(top - n)}
  <1>6. 0 \in T
    BY <1>1, <1>2, <1>4
  <1>7. ASSUME NEW n \in Nat, n \in T
        PROVE  n + 1 \in T
    <2> SUFFICES ASSUME n + 1 <= top, NEW c, <<top - (n + 1), c>> \in Keys(known)
                 PROVE  V(top - (n + 1), c) = tree[(top - (n + 1)) + 1][c + 1]
      BY <1>1
    <2> DEFINE l == top - (n + 1)
    <2>1. l \in 0..(top - 1) /\ l \in Nat /\ l < top /\ l + 1 = top - n /\ n <= top /\ (l + 1) + 1 = l + 2
      BY <1>1
    <2>2. Good(l + 1)
      BY <1>7, <2>1
    <2> HIDE DEF l
    <2>3. <<l, c>> \in Keys(known)
      BY DEF l
    <2>4. PICK i \in Active(targets, l + 1) : c \in {2 * i, 2 * i + 1}
      <3>1. c \div 2 \in Active(targets, l + 1) /\ c \in Nat
        BY <1>4, <2>1, <2>3
      <3>2. c \in {2 * (c \div 2), 2 * (c \div 2) + 1}
        BY <3>1
      <3> QED
        BY <3>1, <3>2
    <2>5. c \in Nat /\ c < width[l] /\ width[l] = Len(tree[l + 1])
      BY <1>1, <1>2, <1>4, <2>1, <2>3
    <2>6. <<l + 1, i>> \in Keys(known)
      BY <1>5, <2>1
    <2>7. l + 1 \in Nat /\ i \in Nat /\ i < width[l + 1] /\ width[l + 1] \in Nat
      <3>1. l + 1 \in Nat
        BY <2>1
      <3>2. width[l + 1] \in Nat
        BY <1>1, <2>1, WidthsAre DEF width, top
      <3> QED
        BY <1>4, <2>6, <3>1, <3>2
    <2>8. V(l + 1, i) = ParentHash(tree[l + 1], i)
      <3>1. V(l + 1, i) = tree[l + 2][i + 1]
        BY <2>1, <2>2, <2>6
      <3>2. i \in 0..(width[l + 1] - 1)
        BY <2>7
      <3> QED
        BY <1>2, <2>1, <3>1, <3>2
    <2>9. CASE 2 * i + 1 < width[l]
      <3>1. HashPair(V(l, 2 * i), V(l, 2 * i + 1)) = HashPair(tree[l + 1][2 * i + 1], tree[l + 1][2 * i + 2])
        BY <1>5, <2>1, <2>5, <2>8, <2>9 DEF ParentHash
      <3>2. V(l, 2 * i) = tree[l + 1][2 * i + 1] /\ V(l, 2 * i + 1) = tree[l + 1][2 * i + 2]
        BY <3>1 DEF HashPair
      <3>3. (2 * i + 1) + 1 = 2 * i + 2
        BY <2>7
      <3>4. V(l, c) = tree[l + 1][c + 1]
        BY <2>4, <3>2, <3>3
      <3> QED
        BY <3>4 DEF l
    <2>10. CASE ~(2 * i + 1 < width[l])
      <3>1. V(l, 2 * i) = tree[l + 1][2 * i + 1]
        BY <1>5, <2>1, <2>5, <2>8, <2>10 DEF ParentHash
      <3>2. c = 2 * i
        BY <2>4, <2>5, <2>7, <2>10
      <3>3. V(l, c) = tree[l + 1][c + 1]
        BY <3>1, <3>2
      <3> QED
        BY <3>3 DEF l
    <2> QED
      BY <2>9, <2>10
  <1>8. ASSUME NEW l \in Nat, NEW c, <<l, c>> \in Keys(known)
        PROVE  V(l, c) = tree[l + 1][c + 1]
    <2> HIDE DEF T
    <2>1. \A n \in Nat : n \in T
      BY <1>6, <1>7, NatInduct
    <2>2. top - l \in Nat /\ top - (top - l) = l /\ top - l <= top
      BY <1>1, <1>4, <1>8
    <2>3. top - l \in T
      BY <2>1, <2>2
    <2>4. Good(l)
      BY <2>2, <2>3 DEF T
    <2> QED
      BY <1>8, <2>4
  <1> QED
    BY <1>8 DEF V, tree

-----------------------------------------------------------------------------
(* The layers of a proof *)

Plans(proof, layer) == {p \in proof.plan.trees : p.tree[1] = layer}
TreesOf(proof) == {p.tree : p \in proof.plan.trees}

\* The committed root that the trace of a tree leads to.
Commit(p, nodes) == CommittedRoot(p.tree, p.leafCount, nodes[<<BitsLen[p.leafCount - 1], 0>>])
TracedRoot(proof, p, committed) == Commit(p, TreeTrace(proof, p, committed))

\* A layer adds the committed roots of its trees to those of the layers below.
LEMMA TraceLayerIs ==
    ASSUME NEW proof, NEW trace, NEW layer
    PROVE  TraceLayer(proof, trace, layer).committed =
               trace.committed \cup {<<p.tree, TracedRoot(proof, p, trace.committed)>> : p \in Plans(proof, layer)}
  <1> DEFINE traced == {<<p, TreeTrace(proof, p, trace.committed)>> : p \in Plans(proof, layer)}
             new == {<<t[1].tree, Commit(t[1], t[2])>> : t \in traced}
             want == {<<p.tree, TracedRoot(proof, p, trace.committed)>> : p \in Plans(proof, layer)}
  <1>1. TraceLayer(proof, trace, layer).committed = trace.committed \cup new
    BY DEF TraceLayer, Plans, Commit
  <1>2. new = want
    <2>1. ASSUME NEW p \in Plans(proof, layer)
          PROVE  \E t \in traced : <<p.tree, TracedRoot(proof, p, trace.committed)>> = <<t[1].tree, Commit(t[1], t[2])>>
      <3> DEFINE t == <<p, TreeTrace(proof, p, trace.committed)>>
      <3>1. t \in traced /\ t[1] = p /\ t[2] = TreeTrace(proof, p, trace.committed)
        OBVIOUS
      <3> HIDE DEF t, traced
      <3> QED
        BY <3>1 DEF TracedRoot
    <2>2. ASSUME NEW t \in traced
          PROVE  \E p \in Plans(proof, layer) :
                    <<t[1].tree, Commit(t[1], t[2])>> = <<p.tree, TracedRoot(proof, p, trace.committed)>>
      <3>1. PICK p \in Plans(proof, layer) : t = <<p, TreeTrace(proof, p, trace.committed)>>
        OBVIOUS
      <3> HIDE DEF traced
      <3>2. t[1] = p /\ t[2] = TreeTrace(proof, p, trace.committed)
        BY <3>1
      <3> QED
        BY <3>2 DEF TracedRoot
    <2> HIDE DEF traced
    <2> QED
      BY <2>1, <2>2
  <1> QED
    BY <1>1, <1>2

LEMMA SubmapValue ==
    ASSUME NEW big, Functional(big), NEW small, small \subseteq big, NEW k \in Keys(small)
    PROVE  Value(small, k) = Value(big, k)
  <1>1. PICK p \in small : k = p[1]
    BY DEF Keys
  <1>2. Functional(small) /\ p \in big
    BY <1>1 DEF Functional
  <1> QED
    BY <1>1, <1>2, ValueIs

\* Every tree of a well-formed proof is in one of the four layers.
LEMMA LayerOf ==
    ASSUME NEW proof, ValidLinks(proof), NEW t \in TreesOf(proof)
    PROVE  t[1] \in Segment..Global
  <1>1. CASE t[1] = Global
    BY <1>1 DEF Segment, Global
  <1>2. CASE t[1] # Global
    <2>1. PICK l \in proof.plan.links : l.child = t
      BY <1>2 DEF ValidLinks, TreesOf
    <2>2. l.child[1] \in Segment..Region
      BY <2>1 DEF ValidLinks
    <2> QED
      BY <2>1, <2>2 DEF Segment, Region, Global
  <1> QED
    BY <1>1, <1>2

\* The leaves of a tree's trace come from the layer below.
LEMMA SameTrace ==
    ASSUME NEW proof, ValidLinks(proof), NEW p \in proof.plan.trees,
           NEW big, Functional(big), NEW small, small \subseteq big,
           \A t \in TreesOf(proof) : p.tree[1] > t[1] => t \in Keys(small)
    PROVE  TreeTrace(proof, p, small) = TreeTrace(proof, p, big)
  <1> DEFINE links == {k \in proof.plan.links : k.parent = p.tree}
             From(committed) == {<<<<0, l.index>>, Value(committed, l.child)>> : l \in links}
  <1>1. ASSUME p.tree[1] # Segment, NEW l \in links
        PROVE  Value(small, l.child) = Value(big, l.child)
    <2>1. l.child \in TreesOf(proof) /\ l.child[1] \in Segment..Region /\ p.tree = ParentTree(l.child)
      BY DEF ValidLinks, TreesOf
    <2>2. p.tree[1] > l.child[1]
      BY <2>1 DEF ParentTree, Segment, Shard, Region, Global, GlobalTreeRef
    <2>3. l.child \in Keys(small)
      BY <2>1, <2>2
    <2> QED
      BY <2>3, SubmapValue
  <1>2. p.tree[1] # Segment => From(small) = From(big)
    <2> SUFFICES ASSUME p.tree[1] # Segment
                 PROVE  From(small) = From(big)
      OBVIOUS
    <2>1. \A l \in links : Value(small, l.child) = Value(big, l.child)
      BY <1>1
    <2> HIDE DEF links
    <2> QED
      BY <2>1, Zenon
  <1> QED
    BY <1>2, Zenon DEF TreeTrace

\* What TraceHMFProof finds for the trees of a proof: for every one the committed root
\* over what it finds for its children.
LEMMA CommittedIs ==
    ASSUME NEW proof, ValidPlansAndNodes(proof), ValidLinks(proof)
    PROVE  LET C == TraceLayers(proof).committed
           IN /\ Functional(C) /\ Keys(C) = TreesOf(proof)
              /\ \A p \in proof.plan.trees : Value(C, p.tree) = TracedRoot(proof, p, C)
  <1> DEFINE T0 == [nodes |-> {}, committed |-> {}]
             T1 == TraceLayer(proof, T0, Segment)
             T2 == TraceLayer(proof, T1, Shard)
             T3 == TraceLayer(proof, T2, Region)
             T4 == TraceLayer(proof, T3, Global)
             New(C, layer) == {<<p.tree, TracedRoot(proof, p, C)>> : p \in Plans(proof, layer)}
  <1>1. TraceLayers(proof) = T4
    BY DEF TraceLayers
  <1>2. /\ T1.committed = T0.committed \cup New(T0.committed, Segment)
        /\ T2.committed = T1.committed \cup New(T1.committed, Shard)
        /\ T3.committed = T2.committed \cup New(T2.committed, Region)
        /\ T4.committed = T3.committed \cup New(T3.committed, Global)
    <2> HIDE DEF T0, T1, T2, T3
    <2>1. T1.committed = T0.committed \cup New(T0.committed, Segment)
      BY TraceLayerIs DEF T1
    <2>2. T2.committed = T1.committed \cup New(T1.committed, Shard)
      BY TraceLayerIs DEF T2
    <2>3. T3.committed = T2.committed \cup New(T2.committed, Region)
      BY TraceLayerIs DEF T3
    <2>4. T4.committed = T3.committed \cup New(T3.committed, Global)
      BY TraceLayerIs
    <2> QED
      BY <2>1, <2>2, <2>3, <2>4
  <1>3. T0.committed = {}
    OBVIOUS
  <1> HIDE DEF T0, T1, T2, T3, T4
  <1> DEFINE C == T4.committed
             Before(layer) == IF layer = 1 THEN {}
                              ELSE IF layer = 2 THEN T1.committed
                              ELSE IF layer = 3 THEN T2.committed ELSE T3.committed
  <1>4. /\ C = New(Before(1), 1) \cup New(Before(2), 2) \cup New(Before(3), 3) \cup New(Before(4), 4)
        /\ Before(2) = New(Before(1), 1)
        /\ Before(3) = New(Before(1), 1) \cup New(Before(2), 2)
        /\ Before(4) = New(Before(1), 1) \cup New(Before(2), 2) \cup New(Before(3), 3)
    <2> HIDE DEF New
    <2> QED
      BY <1>2, <1>3 DEF Segment, Shard, Region, Global
  <1>5. Before(1) = {}
    OBVIOUS
  <1> HIDE DEF Before, C
  <1>6. \A p \in proof.plan.trees : p.tree[1] \in 1..4 /\ p \in Plans(proof, p.tree[1]) /\ p.tree \in TreesOf(proof)
    BY LayerOf DEF TreesOf, Plans, Segment, Global
  <1>7. \A layer, p : p \in Plans(proof, layer) => p \in proof.plan.trees /\ p.tree[1] = layer
    BY DEF Plans
  <1>8. \A layer, D, x : x \in New(D, layer) <=> \E p \in Plans(proof, layer) : x = <<p.tree, TracedRoot(proof, p, D)>>
    OBVIOUS
  <1> HIDE DEF New
  <1>9. \A p \in proof.plan.trees : <<p.tree, TracedRoot(proof, p, Before(p.tree[1]))>> \in C
    <2> SUFFICES ASSUME NEW p \in proof.plan.trees
                 PROVE  <<p.tree, TracedRoot(proof, p, Before(p.tree[1]))>> \in C
      OBVIOUS
    <2>1. <<p.tree, TracedRoot(proof, p, Before(p.tree[1]))>> \in New(Before(p.tree[1]), p.tree[1])
      BY <1>6, <1>8
    <2> QED
      BY <1>4, <1>6, <2>1
  <1>10. \A x \in C : \E p \in proof.plan.trees : x = <<p.tree, TracedRoot(proof, p, Before(p.tree[1]))>>
    <2> SUFFICES ASSUME NEW x \in C
                 PROVE  \E p \in proof.plan.trees : x = <<p.tree, TracedRoot(proof, p, Before(p.tree[1]))>>
      OBVIOUS
    <2>1. PICK layer \in 1..4 : x \in New(Before(layer), layer)
      BY <1>4
    <2>2. PICK p \in Plans(proof, layer) : x = <<p.tree, TracedRoot(proof, p, Before(layer))>>
      BY <1>8, <2>1
    <2> QED
      BY <1>7, <2>2
  <1>11. \A p, q \in proof.plan.trees : p.tree = q.tree => p = q
    BY DEF ValidPlansAndNodes
  <1>12. Functional(C)
    <2> SUFFICES ASSUME NEW x \in C, NEW y \in C, x[1] = y[1]
                 PROVE  x[2] = y[2]
      BY DEF Functional
    <2>1. PICK p \in proof.plan.trees : x = <<p.tree, TracedRoot(proof, p, Before(p.tree[1]))>>
      BY <1>10
    <2>2. PICK q \in proof.plan.trees : y = <<q.tree, TracedRoot(proof, q, Before(q.tree[1]))>>
      BY <1>10
    <2>3. p.tree = q.tree
      BY <2>1, <2>2
    <2> QED
      BY <1>11, <2>1, <2>2, <2>3
  <1>13. Keys(C) = TreesOf(proof)
    <2>1. ASSUME NEW x \in C
          PROVE  x[1] \in TreesOf(proof)
      <3>1. PICK p \in proof.plan.trees : x = <<p.tree, TracedRoot(proof, p, Before(p.tree[1]))>>
        BY <1>10
      <3> QED
        BY <1>6, <3>1
    <2>2. ASSUME NEW t \in TreesOf(proof)
          PROVE  \E x \in C : t = x[1]
      <3>1. PICK p \in proof.plan.trees : t = p.tree
        BY DEF TreesOf
      <3> QED
        BY <1>9, <3>1
    <2> QED
      BY <2>1, <2>2 DEF Keys
  <1>14. \A layer \in 1..4 : /\ Before(layer) \subseteq C
                             /\ \A p \in proof.plan.trees : layer > p.tree[1] => p.tree \in Keys(Before(layer))
    <2>1. \A layer \in 1..4 : Before(layer) \subseteq C
      BY <1>4, <1>5
    <2>2. ASSUME NEW layer \in 1..4, NEW p \in proof.plan.trees, layer > p.tree[1]
          PROVE  p.tree \in Keys(Before(layer))
      <3> DEFINE x == <<p.tree, TracedRoot(proof, p, Before(p.tree[1]))>>
      <3>1. x \in New(Before(p.tree[1]), p.tree[1])
        BY <1>6, <1>8
      <3>2. x[1] = p.tree
        OBVIOUS
      <3> HIDE DEF x
      <3>3. x \in Before(layer)
        <4>1. p.tree[1] \in 1..4 /\ layer > p.tree[1]
          BY <1>6, <2>2
        <4> QED
          BY <1>4, <3>1, <4>1
      <3> QED
        BY <3>2, <3>3 DEF Keys
    <2> QED
      BY <2>1, <2>2
  <1>15. ASSUME NEW p \in proof.plan.trees
         PROVE  Value(C, p.tree) = TracedRoot(proof, p, C)
    <2> DEFINE B == Before(p.tree[1])
    <2>1. B \subseteq C /\ \A q \in proof.plan.trees : p.tree[1] > q.tree[1] => q.tree \in Keys(B)
      BY <1>6, <1>14
    <2> HIDE DEF B
    <2>2. \A t \in TreesOf(proof) : p.tree[1] > t[1] => t \in Keys(B)
      BY <2>1 DEF TreesOf
    <2>3. TreeTrace(proof, p, B) = TreeTrace(proof, p, C)
      BY <1>12, <2>1, <2>2, SameTrace
    <2>4. <<p.tree, TracedRoot(proof, p, B)>> \in C
      BY <1>9 DEF B
    <2>5. Value(C, p.tree) = TracedRoot(proof, p, B)
      BY <1>12, <2>4, ValueIs
    <2> QED
      BY <2>3, <2>5 DEF TracedRoot
  <1> QED
    BY <1>1, <1>12, <1>13, <1>15 DEF C

-----------------------------------------------------------------------------
(* One tree of a proof *)

\* An address is its region, shard, segment and leaf.
IsAddress(a) == a = <<a[1], a[2], a[3], a[4]>>

\* What the trace of a tree starts from, and the nodes that are supplied for it.
Starts(proof, p, committed) ==
    IF p.tree[1] = Segment
    THEN {<<<<0, l[1][4]>>, l[2]>> : l \in {k \in proof.leaves : SegmentTreeRef(k[1]) = p.tree}}
    ELSE {<<<<0, l.index>>, Value(committed, l.child)>> : l \in {k \in proof.plan.links : k.parent = p.tree}}

Supplied(proof, p) == {<<n[2], n[3]>> : n \in {k \in proof.nodes : k[1] = p.tree}}

LEMMA TreeTraceDef ==
    ASSUME NEW proof, NEW p, NEW committed
    PROVE  TreeTrace(proof, p, committed) =
               ReconstructAbove(p.leafCount, Starts(proof, p, committed), Supplied(proof, p))
  BY DEF TreeTrace, Starts, Supplied

\* validateTargets and validateTreePlanShape: the trace starts from the targets of the
\* plan, and is supplied the nodes that the plan requires, each once.
LEMMA StartsAreTargets ==
    ASSUME NEW proof, NEW addresses, WellFormed(proof, addresses), \A a \in addresses : IsAddress(a),
           NEW p \in proof.plan.trees, NEW committed
    PROVE  /\ IsLeafMap(Starts(proof, p, committed))
           /\ TargetsOf(Starts(proof, p, committed)) = p.targets
           /\ Functional(Supplied(proof, p))
           /\ Keys(Supplied(proof, p)) = RequiredAbove(p.targets, p.leafCount)
           /\ p.leafCount > 0 /\ p.targets # {} /\ p.targets \subseteq 0..(p.leafCount - 1)
  <1> DEFINE S == Starts(proof, p, committed)
  <1>1. /\ p.leafCount > 0 /\ p.targets # {} /\ p.targets \subseteq 0..(p.leafCount - 1)
        /\ p.required = RequiredAbove(p.targets, p.leafCount)
    BY DEF WellFormed, ValidPlansAndNodes, ValidTreePlanShape, PlanTree
  <1>2. ASSUME p.tree[1] = Segment
        PROVE  IsLeafMap(S) /\ TargetsOf(S) = p.targets
    <2> DEFINE mine == {k \in proof.leaves : SegmentTreeRef(k[1]) = p.tree}
    <2>1. S = {<<<<0, l[1][4]>>, l[2]>> : l \in mine}
      BY <1>2 DEF Starts
    <2>2. p.targets = {l[1][4] : l \in mine}
      BY <1>2 DEF WellFormed, ValidTargets
    <2>3. ASSUME NEW l \in mine, NEW k \in mine, l[1][4] = k[1][4]
          PROVE  l = k
      <3>1. l[1] \in addresses /\ k[1] \in addresses
        BY DEF WellFormed, ValidProofLeaves
      <3>2. SegmentTreeRef(l[1]) = SegmentTreeRef(k[1])
        OBVIOUS
      <3>3. l[1] = <<l[1][1], l[1][2], l[1][3], l[1][4]>> /\ k[1] = <<k[1][1], k[1][2], k[1][3], k[1][4]>>
        BY <3>1 DEF IsAddress
      <3>4. l[1][1] = k[1][1] /\ l[1][2] = k[1][2] /\ l[1][3] = k[1][3]
        BY <3>2 DEF SegmentTreeRef
      <3>5. l[1] = k[1]
        BY <2>3, <3>3, <3>4
      <3> QED
        BY <3>5 DEF WellFormed, ValidProofLeaves
    <2> HIDE DEF mine, S
    <2>4. \A x \in S : \E l \in mine : x = <<<<0, l[1][4]>>, l[2]>>
      BY <2>1
    <2>5. \A l \in mine : <<<<0, l[1][4]>>, l[2]>> \in S
      BY <2>1
    <2>6. IsLeafMap(S)
      <3>1. \A x \in S : x[1] = <<0, x[1][2]>>
        BY <2>4
      <3>2. ASSUME NEW x \in S, NEW y \in S, x[1] = y[1]
            PROVE  x[2] = y[2]
        <4>1. PICK l \in mine : x = <<<<0, l[1][4]>>, l[2]>>
          BY <2>4
        <4>2. PICK k \in mine : y = <<<<0, k[1][4]>>, k[2]>>
          BY <2>4
        <4>3. l[1][4] = k[1][4]
          BY <3>2, <4>1, <4>2
        <4> QED
          BY <2>3, <4>1, <4>2, <4>3
      <3> QED
        BY <3>1, <3>2 DEF IsLeafMap, Functional
    <2>7. TargetsOf(S) = p.targets
      <3>1. ASSUME NEW x \in S
            PROVE  \E l \in mine : x[1][2] = l[1][4]
        <4>1. PICK l \in mine : x = <<<<0, l[1][4]>>, l[2]>>
          BY <2>4
        <4> QED
          BY <4>1
      <3>2. ASSUME NEW l \in mine
            PROVE  \E x \in S : l[1][4] = x[1][2]
        <4>1. <<<<0, l[1][4]>>, l[2]>> \in S
          BY <2>5
        <4> QED
          BY <4>1
      <3> QED
        BY <2>2, <3>1, <3>2 DEF TargetsOf
    <2> QED
      BY <2>6, <2>7
  <1>3. ASSUME p.tree[1] # Segment
        PROVE  IsLeafMap(S) /\ TargetsOf(S) = p.targets
    <2> DEFINE mine == {k \in proof.plan.links : k.parent = p.tree}
    <2>1. S = {<<<<0, l.index>>, Value(committed, l.child)>> : l \in mine}
      BY <1>3 DEF Starts
    <2>2. p.targets = {l.index : l \in mine}
      BY <1>3 DEF WellFormed, ValidTargets
    <2>3. ASSUME NEW l \in mine, NEW k \in mine, l.index = k.index
          PROVE  l = k
      BY <2>3 DEF WellFormed, ValidLinks
    <2> HIDE DEF mine, S
    <2>4. \A x \in S : \E l \in mine : x = <<<<0, l.index>>, Value(committed, l.child)>>
      BY <2>1
    <2>5. \A l \in mine : <<<<0, l.index>>, Value(committed, l.child)>> \in S
      BY <2>1
    <2>6. IsLeafMap(S)
      <3>1. \A x \in S : x[1] = <<0, x[1][2]>>
        BY <2>4
      <3>2. ASSUME NEW x \in S, NEW y \in S, x[1] = y[1]
            PROVE  x[2] = y[2]
        <4>1. PICK l \in mine : x = <<<<0, l.index>>, Value(committed, l.child)>>
          BY <2>4
        <4>2. PICK k \in mine : y = <<<<0, k.index>>, Value(committed, k.child)>>
          BY <2>4
        <4>3. l.index = k.index
          BY <3>2, <4>1, <4>2
        <4> QED
          BY <2>3, <4>1, <4>2, <4>3
      <3> QED
        BY <3>1, <3>2 DEF IsLeafMap, Functional
    <2>7. TargetsOf(S) = p.targets
      <3>1. ASSUME NEW x \in S
            PROVE  \E l \in mine : x[1][2] = l.index
        <4>1. PICK l \in mine : x = <<<<0, l.index>>, Value(committed, l.child)>>
          BY <2>4
        <4> QED
          BY <4>1
      <3>2. ASSUME NEW l \in mine
            PROVE  \E x \in S : l.index = x[1][2]
        <4>1. <<<<0, l.index>>, Value(committed, l.child)>> \in S
          BY <2>5
        <4> QED
          BY <4>1
      <3> QED
        BY <2>2, <3>1, <3>2 DEF TargetsOf
    <2> QED
      BY <2>6, <2>7
  <1>4. Functional(Supplied(proof, p)) /\ Keys(Supplied(proof, p)) = p.required
    <2> DEFINE mine == {k \in proof.nodes : k[1] = p.tree}
               U == Supplied(proof, p)
    <2>1. U = {<<n[2], n[3]>> : n \in mine}
      BY DEF Supplied
    <2>2. ASSUME NEW n \in mine, NEW k \in mine, n[2] = k[2]
          PROVE  n = k
      BY <2>2 DEF WellFormed, ValidPlansAndNodes
    <2>3. ASSUME NEW n \in mine
          PROVE  n[2] \in p.required
      <3>1. <<n[1], n[2]>> \in UNION {{<<q.tree, r>> : r \in q.required} : q \in proof.plan.trees}
        BY DEF WellFormed, ValidPlansAndNodes
      <3>2. PICK q \in proof.plan.trees : <<n[1], n[2]>> \in {<<q.tree, r>> : r \in q.required}
        BY <3>1
      <3>3. q.tree = p.tree
        BY <3>2
      <3>4. q = p
        BY <3>3 DEF WellFormed, ValidPlansAndNodes
      <3> QED
        BY <3>2, <3>4
    <2>4. ASSUME NEW r \in p.required
          PROVE  \E n \in mine : r = n[2]
      <3>1. <<p.tree, r>> \in UNION {{<<q.tree, s>> : s \in q.required} : q \in proof.plan.trees}
        OBVIOUS
      <3>2. \A x : x \in UNION {{<<q.tree, s>> : s \in q.required} : q \in proof.plan.trees}
                    => x \in {<<n[1], n[2]>> : n \in proof.nodes}
        BY DEF WellFormed, ValidPlansAndNodes
      <3>3. <<p.tree, r>> \in {<<n[1], n[2]>> : n \in proof.nodes}
        BY <3>1, <3>2
      <3>4. PICK n \in proof.nodes : <<p.tree, r>> = <<n[1], n[2]>>
        BY <3>3
      <3>5. n[1] = p.tree /\ r = n[2]
        BY <3>4
      <3> QED
        BY <3>5
    <2> HIDE DEF mine, U
    <2>5. \A x \in U : \E n \in mine : x = <<n[2], n[3]>>
      BY <2>1
    <2>6. \A n \in mine : <<n[2], n[3]>> \in U
      BY <2>1
    <2>7. Functional(U)
      <3> SUFFICES ASSUME NEW x \in U, NEW y \in U, x[1] = y[1]
                   PROVE  x[2] = y[2]
        BY DEF Functional
      <3>1. PICK n \in mine : x = <<n[2], n[3]>>
        BY <2>5
      <3>2. PICK k \in mine : y = <<k[2], k[3]>>
        BY <2>5
      <3>3. n[2] = k[2]
        BY <3>1, <3>2
      <3> QED
        BY <2>2, <3>1, <3>2, <3>3
    <2>8. Keys(U) = p.required
      <3>1. ASSUME NEW x \in U
            PROVE  x[1] \in p.required
        <4>1. PICK n \in mine : x = <<n[2], n[3]>>
          BY <2>5
        <4> QED
          BY <2>3, <4>1
      <3>2. ASSUME NEW r \in p.required
            PROVE  \E x \in U : r = x[1]
        <4>1. PICK n \in mine : r = n[2]
          BY <2>4
        <4>2. <<n[2], n[3]>> \in U
          BY <2>6
        <4> QED
          BY <4>1, <4>2
      <3> QED
        BY <3>1, <3>2 DEF Keys
    <2> QED
      BY <2>7, <2>8 DEF U
  <1> QED
    BY <1>1, <1>2, <1>3, <1>4

\* The hashes that a proof has for a tree are those of the tree over list.
TreeHolds(proof, p, committed, list) ==
    /\ \A x \in Starts(proof, p, committed) : x[1][2] \in 0..(Len(list) - 1) /\ x[2] = list[x[1][2] + 1]
    /\ \A n \in proof.nodes : n[1] = p.tree => n[3] = RegionTree(list)[n[2][1] + 1][n[2][2] + 1]

LEMMA TreeSound ==
    ASSUME NEW proof, NEW addresses, WellFormed(proof, addresses), \A a \in addresses : IsAddress(a),
           NEW p \in proof.plan.trees, NEW committed,
           NEW list, IsList(list), Len(list) = p.leafCount,
           TreeTrace(proof, p, committed)[<<BitsLen[p.leafCount - 1], 0>>] = MerkleRoot(list)
    PROVE  TreeHolds(proof, p, committed, list)
  <1> DEFINE top == BitsLen[Len(list) - 1]
             S == Starts(proof, p, committed)
             U == Supplied(proof, p)
             tree == RegionTree(list)
  <1>1. /\ IsLeafMap(S) /\ TargetsOf(S) = p.targets
        /\ Functional(U) /\ Keys(U) = RequiredAbove(TargetsOf(S), Len(list))
        /\ Len(list) > 0 /\ TargetsOf(S) # {} /\ TargetsOf(S) \subseteq 0..(Len(list) - 1)
    <2> HIDE DEF IsAddress
    <2> QED
      BY StartsAreTargets
  <1>2. TreeTrace(proof, p, committed) = ReconstructAbove(Len(list), S, U)
    BY TreeTraceDef
  <1> HIDE DEF S, U
  <1>3. PICK known : /\ ReconstructAbove(Len(list), S, U) = AsFunction(known)
                     /\ IsTrace(known, Widths(list), top, S, U)
    BY <1>1, ReconstructIs
  <1>4. top \in Nat
    BY <1>1, WidthsAre
  <1>5. <<top, 0>> \in Keys(known)
    <2>1. Active(TargetsOf(S), top) = {0}
      BY <1>1, ActiveInTree
    <2>2. top \in 0..top
      BY <1>4
    <2>3. <<top, 0>> \in OnTheWay(TargetsOf(S), top)
      BY <2>1, <2>2 DEF OnTheWay
    <2> QED
      BY <1>3, <2>3 DEF IsTrace
  <1>6. Value(known, <<top, 0>>) = MerkleRoot(list)
    BY <1>2, <1>3, <1>5, AsFunctionIs
  <1>7. \A l \in Nat : \A c : <<l, c>> \in Keys(known) => Value(known, <<l, c>>) = tree[l + 1][c + 1]
    <2> HIDE DEF tree
    <2> QED
      BY SMTT(30), <1>1, <1>3, <1>6, TraceIsTree DEF tree
  <1>8. Functional(known) /\ S \cup U \subseteq known
    BY <1>3 DEF IsTrace
  <1>9. ASSUME NEW x \in S
        PROVE  x[1][2] \in 0..(Len(list) - 1) /\ x[2] = list[x[1][2] + 1]
    <2>1. x[1] = <<0, x[1][2]>> /\ x[1][2] \in TargetsOf(S)
      BY <1>1 DEF IsLeafMap, TargetsOf
    <2>2. Value(known, x[1]) = x[2] /\ x[1] \in Keys(known)
      BY <1>8, ValueIs DEF Keys
    <2>3. Value(known, <<0, x[1][2]>>) = tree[0 + 1][x[1][2] + 1]
      BY <1>7, <2>1, <2>2
    <2>4. tree[0 + 1] = list
      BY <1>1, TreeLevels
    <2> QED
      BY <1>1, <2>1, <2>2, <2>3, <2>4
  <1>10. ASSUME NEW n \in proof.nodes, n[1] = p.tree
         PROVE  n[3] = tree[n[2][1] + 1][n[2][2] + 1]
    <2>1. <<n[2], n[3]>> \in U
      BY <1>10 DEF U, Supplied
    <2>2. /\ Value(known, n[2]) = n[3] /\ n[2] \in Keys(known) /\ n[2] \in Keys(U)
      <3> DEFINE x == <<n[2], n[3]>>
      <3>1. x \in known /\ x \in U /\ x[1] = n[2] /\ x[2] = n[3]
        BY <1>8, <2>1
      <3> HIDE DEF x
      <3> QED
        BY <1>8, <3>1, ValueIs DEF Keys
    <2>3. PICK l \in 0..(top - 1), c \in Nat : n[2] = <<l, c>>
      <3>1. TargetsOf(S) \subseteq 0..(Len(list) - 1) /\ n[2] \in RequiredAbove(TargetsOf(S), Len(list))
        BY <1>1, <2>2
      <3> HIDE DEF top
      <3> QED
        BY <1>1, <3>1, RequiredCovers DEF top
    <2>4. l \in Nat /\ n[2][1] = l /\ n[2][2] = c
      BY <1>4, <2>3
    <2> QED
      BY <1>7, <2>2, <2>3, <2>4
  <1> QED
    BY <1>9, <1>10 DEF TreeHolds, S

-----------------------------------------------------------------------------
(* From the trusted root down to a segment *)

\* The raw root that the trace of a tree leads to.
RawRoot(proof, p, committed) == TreeTrace(proof, p, committed)[<<BitsLen[p.leafCount - 1], 0>>]

LEMMA GlobalRootIs ==
    ASSUME NEW proof, NEW addresses, NEW trusted, Verified(proof, addresses, trusted)
    PROVE  /\ WellFormed(proof, addresses)
           /\ Value(TraceLayers(proof).committed, GlobalTreeRef) = trusted
  <1> DEFINE C == TraceLayers(proof).committed
  <1>1. WellFormed(proof, addresses) /\ GlobalRoot(HMFTrace(proof)) = trusted
    BY DEF Verified, TraceHMFProof
  <1>2. GlobalTreeRef \in Keys(C)
    BY <1>1, CommittedIs DEF WellFormed, ValidLinks, TreesOf
  <1>3. HMFTrace(proof).committed = AsFunction(C)
    BY DEF HMFTrace
  <1> HIDE DEF C
  <1>4. GlobalRoot(HMFTrace(proof)) = Value(C, GlobalTreeRef)
    BY <1>2, <1>3, AsFunctionIs DEF GlobalRoot
  <1> QED
    BY <1>1, <1>4 DEF C

\* A link: the child's committed root is the leaf of the parent's tree that the link says.
LEMMA Descend ==
    ASSUME NEW proof, NEW addresses, WellFormed(proof, addresses),
           NEW committed, NEW p, NEW list, TreeHolds(proof, p, committed, list),
           NEW t \in TreesOf(proof), t[1] # Global, ParentTree(t) = p.tree, p.tree[1] # Segment
    PROVE  \E l \in proof.plan.links : /\ l.child = t /\ l.index \in 0..(Len(list) - 1)
                                       /\ Value(committed, t) = list[l.index + 1]
  <1>1. PICK l \in proof.plan.links : l.child = t
    BY DEF WellFormed, ValidLinks, TreesOf
  <1>2. l.parent = p.tree
    BY <1>1 DEF WellFormed, ValidLinks
  <1> DEFINE x == <<<<0, l.index>>, Value(committed, l.child)>>
  <1>3. x \in Starts(proof, p, committed)
    BY <1>2 DEF Starts
  <1>4. x[1][2] = l.index /\ x[2] = Value(committed, l.child)
    OBVIOUS
  <1> HIDE DEF x
  <1>5. x[1][2] \in 0..(Len(list) - 1) /\ x[2] = list[x[1][2] + 1]
    BY <1>3 DEF TreeHolds
  <1> QED
    BY <1>1, <1>4, <1>5

\* The commitments bind a raw root to the identity and the size of its tree.
LEMMA CommittedRootIs ==
    ASSUME NEW t, NEW n, NEW raw
    PROVE  /\ t[1] = Segment => CommittedRoot(t, n, raw) = <<"SEGMENT", <<t[2], t[3]>>, t[4], n, raw>>
           /\ t[1] = Shard => CommittedRoot(t, n, raw) = <<"SHARD", <<t[2], t[3]>>, n, raw>>
           /\ t[1] = Region => CommittedRoot(t, n, raw) = <<"REGION", t[2], n, raw>>
           /\ t[1] = Global => CommittedRoot(t, n, raw) = <<"GLOBAL", -1, n, raw>>
  BY DEF CommittedRoot, CommitSegmentRoot, CommitShardRoot, Segment, Shard, Region, Global

\* The leaves of the shards commit to the lists of digests of their segments.
CommitsTo(leaves, digests) ==
    \A sh \in Shards :
       /\ Len(leaves[sh]) = Len(digests[sh])
       /\ \A i \in 0..(Len(leaves[sh]) - 1) :
             /\ IsList(digests[sh][i + 1])
             /\ leaves[sh][i + 1] = CommitSegmentRoot(sh, i, Len(digests[sh][i + 1]), MerkleRoot(digests[sh][i + 1]))

DigestAt(digests, a) == digests[<<a[1], a[2]>>][a[3] + 1][a[4] + 1]

\* The address of a sealed log.
IsLeaf(digests, a) ==
    /\ <<a[1], a[2]>> \in Shards
    /\ a[3] \in 0..(Len(digests[<<a[1], a[2]>>]) - 1)
    /\ a[4] \in 0..(Len(digests[<<a[1], a[2]>>][a[3] + 1]) - 1)

\* The leaves of a tree, and the place of its root among the leaves of the tree above.
TreeList(leaves, digests, t) ==
    CASE t[1] = Segment -> digests[<<t[2], t[3]>>][t[4] + 1]
      [] t[1] = Shard -> leaves[<<t[2], t[3]>>]
      [] t[1] = Region -> RegionLeavesOf(leaves, t[2])
      [] t[1] = Global -> GlobalLeavesOf(leaves)
LeafIndex(t) == IF t[1] = Segment THEN t[4] ELSE IF t[1] = Shard THEN t[3] ELSE t[2]

IsTreeRef(t) ==
    \/ t[1] = Segment /\ t = <<Segment, t[2], t[3], t[4]>>
    \/ t[1] = Shard /\ t = <<Shard, t[2], t[3], 0>>
    \/ t[1] = Region /\ t = <<Region, t[2], 0, 0>>
    \/ t = GlobalTreeRef

\* The trees of a forest that have a leaf to prove.
IsTree(leaves, t) ==
    /\ IsTreeRef(t)
    /\ t[1] = Region => t[2] \in Regions
    /\ t[1] \in {Segment, Shard} => <<t[2], t[3]>> \in Shards
    /\ t[1] = Shard => Len(leaves[<<t[2], t[3]>>]) > 0
    /\ t[1] = Segment => t[4] \in 0..(Len(leaves[<<t[2], t[3]>>]) - 1)

LEMMA LayersAre ==
    /\ Segment = 1 /\ Shard = 2 /\ Region = 3 /\ Global = 4
    /\ GlobalTreeRef[1] = Global
    /\ \A t : /\ t[1] = Segment => ParentTree(t) = <<Shard, t[2], t[3], 0>>
              /\ t[1] = Shard => ParentTree(t) = <<Region, t[2], 0, 0>>
              /\ t[1] = Region => ParentTree(t) = GlobalTreeRef
  BY DEF Segment, Shard, Region, Global, GlobalTreeRef, ParentTree

LEMMA TreeListIs ==
    ASSUME NEW leaves, NEW digests, NEW t
    PROVE  /\ t[1] = Segment => TreeList(leaves, digests, t) = digests[<<t[2], t[3]>>][t[4] + 1]
           /\ t[1] = Shard => TreeList(leaves, digests, t) = leaves[<<t[2], t[3]>>]
           /\ t[1] = Region => TreeList(leaves, digests, t) = RegionLeavesOf(leaves, t[2])
           /\ t[1] = Global => TreeList(leaves, digests, t) = GlobalLeavesOf(leaves)
           /\ t[1] = Segment => LeafIndex(t) = t[4]
           /\ t[1] = Shard => LeafIndex(t) = t[3]
           /\ t[1] = Region => LeafIndex(t) = t[2]
  BY DEF TreeList, LeafIndex, Segment, Shard, Region, Global

LEMMA TreeIsList ==
    ASSUME NEW forest, NEW leaves, ForestOver(forest, leaves), NEW digests, CommitsTo(leaves, digests),
           NEW t, IsTree(leaves, t)
    PROVE  IsList(TreeList(leaves, digests, t))
  <1> DEFINE sh == <<t[2], t[3]>>
             list == TreeList(leaves, digests, t)
  <1>a. \A u : /\ u[1] = Segment => TreeList(leaves, digests, u) = digests[<<u[2], u[3]>>][u[4] + 1]
               /\ u[1] = Shard => TreeList(leaves, digests, u) = leaves[<<u[2], u[3]>>]
               /\ u[1] = Region => TreeList(leaves, digests, u) = RegionLeavesOf(leaves, u[2])
               /\ u[1] = Global => TreeList(leaves, digests, u) = GlobalLeavesOf(leaves)
    BY DEF TreeList, Segment, Shard, Region, Global
  <1>1. CASE t[1] = Segment
    <2>1. list = digests[sh][t[4] + 1]
      BY <1>1, <1>a
    <2>2. sh \in Shards /\ t[4] \in 0..(Len(leaves[sh]) - 1)
      BY <1>1 DEF IsTree
    <2> QED
      BY <2>1, <2>2 DEF CommitsTo
  <1>2. CASE t[1] = Shard
    <2>1. list = leaves[sh]
      BY <1>2, <1>a
    <2>2. sh \in Shards
      BY <1>2 DEF IsTree
    <2> QED
      BY <2>1, <2>2 DEF ForestOver, ShardOver
  <1>3. CASE t[1] = Region
    <2>1. list = RegionLeavesOf(leaves, t[2])
      BY <1>3, <1>a
    <2> QED
      BY <2>1, UpperLeaves
  <1>4. CASE t[1] = Global
    <2>1. list = GlobalLeavesOf(leaves)
      BY <1>4, <1>a
    <2> QED
      BY <2>1, UpperLeaves
  <1> QED
    BY <1>1, <1>2, <1>3, <1>4, LayersAre DEF IsTree, IsTreeRef

\* A leaf of a tree is the commitment of the tree below it, and of no other.
LEMMA LeafIsCommitment ==
    ASSUME NEW forest, NEW leaves, ForestOver(forest, leaves), NEW digests, CommitsTo(leaves, digests),
           NEW up, IsTree(leaves, up), up[1] # Segment, NEW i \in 0..(Len(TreeList(leaves, digests, up)) - 1)
    PROVE  \A t, n, raw :
              IsTreeRef(t) /\ t[1] # Global /\ ParentTree(t) = up /\ n # 0
                /\ CommittedRoot(t, n, raw) = TreeList(leaves, digests, up)[i + 1]
              => /\ IsTree(leaves, t) /\ LeafIndex(t) = i
                 /\ n = Len(TreeList(leaves, digests, t)) /\ raw = MerkleRoot(TreeList(leaves, digests, t))
  <1>a. \A u : /\ u[1] = Segment => TreeList(leaves, digests, u) = digests[<<u[2], u[3]>>][u[4] + 1]
               /\ u[1] = Shard => TreeList(leaves, digests, u) = leaves[<<u[2], u[3]>>]
               /\ u[1] = Region => TreeList(leaves, digests, u) = RegionLeavesOf(leaves, u[2])
               /\ u[1] = Global => TreeList(leaves, digests, u) = GlobalLeavesOf(leaves)
               /\ u[1] = Segment => LeafIndex(u) = u[4]
               /\ u[1] = Shard => LeafIndex(u) = u[3]
               /\ u[1] = Region => LeafIndex(u) = u[2]
    BY TreeListIs
  <1> SUFFICES ASSUME NEW t, NEW n, NEW raw, IsTreeRef(t), t[1] # Global, ParentTree(t) = up, n # 0,
                      CommittedRoot(t, n, raw) = TreeList(leaves, digests, up)[i + 1]
               PROVE  /\ IsTree(leaves, t) /\ LeafIndex(t) = i
                      /\ n = Len(TreeList(leaves, digests, t))
                      /\ raw = MerkleRoot(TreeList(leaves, digests, t))
    OBVIOUS
  <1> DEFINE sh == <<t[2], t[3]>>
             list == TreeList(leaves, digests, up)
             own == TreeList(leaves, digests, t)
  <1>1. CASE t[1] = Segment
    <2>1. up = <<Shard, t[2], t[3], 0>> /\ up[1] = Shard /\ up[2] = t[2] /\ up[3] = t[3]
      BY <1>1, LayersAre
    <2>2. sh \in Shards /\ list = leaves[sh]
      <3>1. list = leaves[<<up[2], up[3]>>]
        BY <2>1, <1>a
      <3>2. <<up[2], up[3]>> \in Shards
        BY <2>1 DEF IsTree
      <3> QED
        BY <2>1, <3>1, <3>2
    <2> DEFINE d == digests[sh][i + 1]
    <2>3. list[i + 1] = CommitSegmentRoot(sh, i, Len(d), MerkleRoot(d)) /\ i \in 0..(Len(leaves[sh]) - 1)
      BY <2>2 DEF CommitsTo
    <2> HIDE DEF d, list, sh
    <2>4. <<"SEGMENT", sh, t[4], n, raw>> = <<"SEGMENT", sh, i, Len(d), MerkleRoot(d)>>
      BY <1>1, <2>3, CommittedRootIs DEF CommitSegmentRoot, list, sh
    <2>5. t[4] = i /\ n = Len(d) /\ raw = MerkleRoot(d)
      BY <2>4
    <2>6. own = d
      <3>1. own = digests[<<t[2], t[3]>>][t[4] + 1]
        BY <1>1, <1>a
      <3> QED
        BY <2>5, <3>1 DEF d, sh
    <2>7. IsTree(leaves, t)
      BY <1>1, <2>2, <2>3, <2>5, LayersAre DEF IsTree, sh
    <2> QED
      BY <1>1, <2>5, <2>6, <2>7, <1>a
  <1>2. CASE t[1] = Shard
    <2>1. up = <<Region, t[2], 0, 0>> /\ up[1] = Region /\ up[2] = t[2]
      BY <1>2, LayersAre
    <2>2. t[2] \in Regions /\ list = RegionLeavesOf(leaves, t[2])
      <3>1. list = RegionLeavesOf(leaves, up[2])
        BY <2>1, <1>a
      <3>2. up[2] \in Regions
        BY <2>1 DEF IsTree
      <3> QED
        BY <2>1, <3>1, <3>2
    <2>3. i + 1 \in 1..NumShards /\ (i + 1) - 1 = i /\ i \in 0..(NumShards - 1)
      BY <2>2, UpperLeaves
    <2> DEFINE at == <<t[2], i>>
               m == Len(leaves[at])
               root == IF m = 0 THEN ZeroHash ELSE MerkleRoot(leaves[at])
    <2>4. list[i + 1] = <<"SHARD", at, m, root>>
      BY <2>2, <2>3 DEF RegionLeavesOf
    <2> HIDE DEF at, m, root, list, sh
    <2>5. <<"SHARD", sh, n, raw>> = <<"SHARD", at, m, root>>
      BY <1>2, <2>4, CommittedRootIs DEF list, sh
    <2>6. sh = at /\ n = m /\ raw = root
      BY <2>5
    <2>7. t[3] = i
      BY <2>6 DEF sh, at
    <2>8. own = leaves[at] /\ m # 0 /\ root = MerkleRoot(leaves[at])
      BY <1>2, <2>6, <1>a DEF sh, root
    <2>9. sh \in Shards
      BY <2>2, <2>3, <2>7 DEF sh, Shards
    <2>10. IsTree(leaves, t)
      <3>1. Len(leaves[sh]) \in Nat /\ Len(leaves[sh]) # 0
        BY <2>6, <2>8, <2>9 DEF ForestOver, ShardOver, IsList, m
      <3> QED
        BY <1>2, <2>9, <3>1, LayersAre DEF IsTree, sh
    <2> QED
      BY <1>2, <2>6, <2>7, <2>8, <2>10, <1>a DEF m
  <1>3. CASE t[1] = Region
    <2>1. up = GlobalTreeRef /\ up[1] = Global
      BY <1>3, LayersAre
    <2>2. list = GlobalLeavesOf(leaves)
      BY <2>1, <1>a
    <2>3. i + 1 \in 1..NumRegions /\ (i + 1) - 1 = i /\ i \in 0..(NumRegions - 1)
      BY <2>2, UpperLeaves
    <2> DEFINE root == MerkleRoot(RegionLeavesOf(leaves, i))
    <2>4. list[i + 1] = <<"REGION", i, NumShards, root>>
      BY <2>2, <2>3 DEF GlobalLeavesOf
    <2> HIDE DEF root, list, sh
    <2>5. <<"REGION", t[2], n, raw>> = <<"REGION", i, NumShards, root>>
      BY <1>3, <2>4, CommittedRootIs DEF list
    <2>6. t[2] = i /\ n = NumShards /\ raw = root
      BY <2>5
    <2>7. own = RegionLeavesOf(leaves, i) /\ Len(own) = NumShards
      <3>1. own = RegionLeavesOf(leaves, t[2])
        BY <1>3, <1>a
      <3> QED
        BY <2>6, <3>1, UpperLeaves
    <2>8. IsTree(leaves, t)
      BY <1>3, <2>3, <2>6, LayersAre DEF IsTree, Regions
    <2> QED
      BY <1>3, <2>6, <2>7, <2>8, <1>a DEF root
  <1> QED
    BY <1>1, <1>2, <1>3, LayersAre DEF IsTreeRef

\* Every tree of a proof that is well formed is on the way from an address.
LEMMA TreeRefsAre ==
    ASSUME NEW proof, NEW addresses, WellFormed(proof, addresses), \A a \in addresses : IsAddress(a),
           NEW p \in proof.plan.trees
    PROVE  /\ IsTreeRef(p.tree)
           /\ p.tree[1] = Segment => \E a \in addresses : p.tree = SegmentTreeRef(a)
  <1>1. p.targets # {}
    <2> HIDE DEF IsAddress
    <2> QED
      BY StartsAreTargets
  <1>2. CASE p.tree[1] = Segment
    <2>1. p.targets = {l[1][4] : l \in {k \in proof.leaves : SegmentTreeRef(k[1]) = p.tree}}
      BY <1>2 DEF WellFormed, ValidTargets
    <2>2. PICK l \in proof.leaves : SegmentTreeRef(l[1]) = p.tree
      BY <1>1, <2>1
    <2>3. l[1] \in addresses
      BY DEF WellFormed, ValidProofLeaves
    <2>4. IsTreeRef(p.tree)
      BY <1>2, <2>2 DEF IsTreeRef, SegmentTreeRef
    <2> QED
      BY <2>2, <2>3, <2>4
  <1>3. CASE p.tree[1] # Segment
    <2>1. p.targets = {l.index : l \in {k \in proof.plan.links : k.parent = p.tree}}
      BY <1>3 DEF WellFormed, ValidTargets
    <2>2. PICK l \in proof.plan.links : l.parent = p.tree
      BY <1>1, <2>1
    <2>3. p.tree = ParentTree(l.child) /\ l.child[1] \in Segment..Region
      BY <2>2 DEF WellFormed, ValidLinks
    <2>4. l.child[1] \in {Segment, Shard, Region}
      BY <2>3, LayersAre
    <2>5. IsTreeRef(p.tree)
      BY <2>3, <2>4, LayersAre DEF IsTreeRef
    <2> QED
      BY <1>3, <2>5
  <1> QED
    BY <1>2, <1>3

\* A tree of a proof is the forest's: its size, and the hashes that the proof has of it.
TreeGood(proof, leaves, digests, p) ==
    /\ IsTree(leaves, p.tree)
    /\ p.leafCount = Len(TreeList(leaves, digests, p.tree))
    /\ TreeHolds(proof, p, TraceLayers(proof).committed, TreeList(leaves, digests, p.tree))

LEMMA GlobalGood ==
    ASSUME NEW forest, NEW leaves, ForestOver(forest, leaves), NEW digests,
           NEW proof, NEW addresses, \A a \in addresses : IsAddress(a),
           Verified(proof, addresses, CommitGlobalRoot(forest.global)),
           NEW p \in proof.plan.trees, p.tree = GlobalTreeRef
    PROVE  TreeGood(proof, leaves, digests, p)
  <1> DEFINE C == TraceLayers(proof).committed
             G == GlobalLeavesOf(leaves)
  <1>1. WellFormed(proof, addresses) /\ Value(C, GlobalTreeRef) = CommitGlobalRoot(forest.global)
    BY GlobalRootIs
  <1>2. IsList(G) /\ Len(G) = NumRegions /\ NumRegions \in Nat /\ NumRegions > 0
    BY UpperLeaves
  <1>3. CommitGlobalRoot(forest.global) = <<"GLOBAL", -1, NumRegions, MerkleRoot(G)>>
    <2> HIDE DEF G
    <2>1. forest.global = RegionTree(G)
      BY DEF ForestOver, G
    <2>2. forest.global[1] = G /\ Root(forest.global) = MerkleRoot(G)
      BY <1>2, <2>1, RegionTreeNodes
    <2> QED
      BY <1>2, <2>2 DEF CommitGlobalRoot
  <1> HIDE DEF C, G
  <1>4. Value(C, GlobalTreeRef) = CommittedRoot(p.tree, p.leafCount, RawRoot(proof, p, C))
    BY <1>1, CommittedIs DEF WellFormed, TracedRoot, Commit, RawRoot, C
  <1>5. <<"GLOBAL", -1, p.leafCount, RawRoot(proof, p, C)>> = <<"GLOBAL", -1, NumRegions, MerkleRoot(G)>>
    BY <1>1, <1>3, <1>4, LayersAre, CommittedRootIs
  <1>6. p.leafCount = NumRegions /\ RawRoot(proof, p, C) = MerkleRoot(G)
    BY <1>5
  <1>7. TreeHolds(proof, p, C, G)
    BY <1>1, <1>2, <1>6, TreeSound DEF RawRoot
  <1>8. TreeList(leaves, digests, p.tree) = G
    <2>1. \A u : u[1] = Global => TreeList(leaves, digests, u) = GlobalLeavesOf(leaves)
      BY DEF TreeList, Segment, Shard, Region, Global
    <2> QED
      BY <2>1, <1>1, LayersAre DEF G
  <1>9. IsTree(leaves, p.tree)
    BY LayersAre DEF IsTree, IsTreeRef
  <1> QED
    BY <1>2, <1>6, <1>7, <1>8, <1>9 DEF TreeGood, C

\* From a tree to those whose roots are its leaves.
LEMMA BelowGood ==
    ASSUME NEW forest, NEW leaves, ForestOver(forest, leaves), NEW digests, CommitsTo(leaves, digests),
           NEW proof, NEW addresses, \A a \in addresses : IsAddress(a), WellFormed(proof, addresses),
           NEW g \in proof.plan.trees, TreeGood(proof, leaves, digests, g), g.tree[1] # Segment,
           NEW p \in proof.plan.trees, p.tree[1] # Global, ParentTree(p.tree) = g.tree
    PROVE  /\ TreeGood(proof, leaves, digests, p)
           /\ \A l \in proof.plan.links : l.child = p.tree => l.index = LeafIndex(p.tree)
  <1> DEFINE C == TraceLayers(proof).committed
             t == p.tree
             up == TreeList(leaves, digests, g.tree)
             list == TreeList(leaves, digests, t)
             raw == RawRoot(proof, p, C)
  <1>1. IsTreeRef(t)
    <2> HIDE DEF IsAddress
    <2> QED
      BY TreeRefsAre
  <1>2. IsTree(leaves, g.tree) /\ TreeHolds(proof, g, C, up)
    BY DEF TreeGood
  <1>3. PICK l \in proof.plan.links : /\ l.child = t /\ l.index \in 0..(Len(up) - 1)
                                      /\ Value(C, t) = up[l.index + 1]
    <2>1. t \in TreesOf(proof)
      BY DEF TreesOf
    <2> HIDE DEF up, C
    <2> QED
      BY <1>2, <2>1, Descend
  <1>4. Value(C, t) = CommittedRoot(t, p.leafCount, raw)
    BY CommittedIs DEF WellFormed, TracedRoot, Commit, RawRoot
  <1>5. p.leafCount # 0
    <2>1. p.leafCount > 0
      <3> HIDE DEF IsAddress
      <3> QED
        BY StartsAreTargets
    <2> QED
      BY <2>1
  <1> HIDE DEF t, raw, C
  <1>6. /\ IsTree(leaves, t) /\ LeafIndex(t) = l.index
        /\ p.leafCount = Len(list) /\ raw = MerkleRoot(list)
    <2>1. CommittedRoot(t, p.leafCount, raw) = up[l.index + 1] /\ t[1] # Global /\ ParentTree(t) = g.tree
      BY <1>3, <1>4 DEF t
    <2>2. \A u, n, r :
             IsTreeRef(u) /\ u[1] # Global /\ ParentTree(u) = g.tree /\ n # 0
               /\ CommittedRoot(u, n, r) = up[l.index + 1]
             => /\ IsTree(leaves, u) /\ LeafIndex(u) = l.index
                /\ n = Len(TreeList(leaves, digests, u)) /\ r = MerkleRoot(TreeList(leaves, digests, u))
      BY <1>2, <1>3, LeafIsCommitment
    <2> HIDE DEF up, list
    <2>3. raw = MerkleRoot(TreeList(leaves, digests, t)) /\ p.leafCount = Len(TreeList(leaves, digests, t))
          /\ IsTree(leaves, t) /\ LeafIndex(t) = l.index
      BY <1>1, <1>5, <2>1, <2>2
    <2> QED
      BY <2>3 DEF list
  <1>7. IsList(list)
    BY <1>6, TreeIsList
  <1> HIDE DEF list
  <1>8. TreeHolds(proof, p, C, list)
    BY <1>6, <1>7, TreeSound DEF RawRoot, raw
  <1>9. \A k \in proof.plan.links : k.child = t => k.index = LeafIndex(t)
    BY <1>3, <1>6 DEF WellFormed, ValidLinks
  <1> QED
    BY <1>6, <1>8, <1>9 DEF TreeGood, C, list, t

LEMMA AllGood ==
    ASSUME NEW forest, NEW leaves, ForestOver(forest, leaves), NEW digests, CommitsTo(leaves, digests),
           NEW proof, NEW addresses, \A a \in addresses : IsAddress(a),
           Verified(proof, addresses, CommitGlobalRoot(forest.global))
    PROVE  /\ \A p \in proof.plan.trees : TreeGood(proof, leaves, digests, p)
           /\ \A l \in proof.plan.links : l.index = LeafIndex(l.child)
  <1> HIDE DEF IsAddress
  <1>1. WellFormed(proof, addresses)
    BY GlobalRootIs
  <1>2. ASSUME NEW p \in proof.plan.trees, p.tree[1] # Global
        PROVE  \E g \in proof.plan.trees : ParentTree(p.tree) = g.tree
    <2>1. PICK l \in proof.plan.links : l.child = p.tree
      BY <1>1, <1>2 DEF WellFormed, ValidLinks
    <2>2. l.parent = ParentTree(p.tree) /\ l.parent \in TreesOf(proof)
      BY <1>1, <2>1 DEF WellFormed, ValidLinks, TreesOf
    <2> QED
      BY <2>2 DEF TreesOf
  <1> DEFINE Good(p) == /\ TreeGood(proof, leaves, digests, p)
                        /\ p.tree[1] # Global =>
                              \A l \in proof.plan.links : l.child = p.tree => l.index = LeafIndex(p.tree)
             Layer(k) == \A p \in proof.plan.trees : p.tree[1] = k => Good(p)
  <1>3. ASSUME NEW p \in proof.plan.trees, p.tree[1] # Global, NEW k, k # Segment, Layer(k),
               ParentTree(p.tree)[1] = k
        PROVE  Good(p)
    <2>1. PICK g \in proof.plan.trees : ParentTree(p.tree) = g.tree
      BY <1>2, <1>3
    <2>2. TreeGood(proof, leaves, digests, g) /\ g.tree[1] # Segment
      BY <1>3, <2>1
    <2> QED
      BY <1>1, <1>3, <2>1, <2>2, BelowGood
  <1>4. Layer(Global)
    <2> SUFFICES ASSUME NEW p \in proof.plan.trees, p.tree[1] = Global
                 PROVE  TreeGood(proof, leaves, digests, p)
      OBVIOUS
    <2>1. p.tree = GlobalTreeRef
      BY <1>1 DEF WellFormed, ValidLinks
    <2> QED
      BY <2>1, GlobalGood
  <1> HIDE DEF Good
  <1>5. Layer(Region)
    BY <1>3, <1>4, LayersAre
  <1>6. Layer(Shard)
    BY <1>3, <1>5, LayersAre
  <1>7. Layer(Segment)
    BY <1>3, <1>6, LayersAre
  <1>8. ASSUME NEW p \in proof.plan.trees
        PROVE  Good(p)
    <2>1. IsTreeRef(p.tree)
      BY <1>1, TreeRefsAre
    <2> QED
      BY <1>4, <1>5, <1>6, <1>7, <2>1, LayersAre DEF IsTreeRef
  <1>9. ASSUME NEW l \in proof.plan.links
        PROVE  l.index = LeafIndex(l.child)
    <2>1. l.child \in TreesOf(proof) /\ l.child[1] \in Segment..Region
      BY <1>1 DEF WellFormed, ValidLinks, TreesOf
    <2>2. PICK p \in proof.plan.trees : l.child = p.tree
      BY <2>1 DEF TreesOf
    <2>3. p.tree[1] # Global
      BY <2>1, <2>2, LayersAre
    <2> QED
      BY <1>8, <2>2, <2>3 DEF Good
  <1> QED
    BY <1>8, <1>9 DEF Good

\* A leaf of a proof is that of its segment's tree.
LEMMA LeafGood ==
    ASSUME NEW leaves, NEW digests, CommitsTo(leaves, digests), NEW proof, NEW p \in proof.plan.trees,
           TreeGood(proof, leaves, digests, p),
           NEW l \in proof.leaves, SegmentTreeRef(l[1]) = p.tree
    PROVE  IsLeaf(digests, l[1]) /\ l[2] = DigestAt(digests, l[1])
  <1> DEFINE a == l[1]
             t == p.tree
             C == TraceLayers(proof).committed
             d == digests[<<a[1], a[2]>>][a[3] + 1]
             x == <<<<0, a[4]>>, l[2]>>
  <1>1. t[1] = Segment /\ t[2] = a[1] /\ t[3] = a[2] /\ t[4] = a[3]
    BY DEF SegmentTreeRef
  <1>2. TreeList(leaves, digests, t) = d
    <2>1. TreeList(leaves, digests, t) = digests[<<t[2], t[3]>>][t[4] + 1]
      BY <1>1 DEF TreeList, Segment, Shard, Region, Global
    <2> QED
      BY <1>1, <2>1
  <1>3. x \in Starts(proof, p, C)
    BY <1>1 DEF Starts
  <1>4. x[1][2] = a[4] /\ x[2] = l[2]
    OBVIOUS
  <1> HIDE DEF x, d, C
  <1>5. x[1][2] \in 0..(Len(d) - 1) /\ x[2] = d[x[1][2] + 1]
    BY <1>2, <1>3 DEF TreeGood, TreeHolds, C
  <1>6. a[4] \in 0..(Len(d) - 1) /\ l[2] = d[a[4] + 1]
    BY <1>4, <1>5
  <1>7. <<a[1], a[2]>> \in Shards /\ a[3] \in 0..(Len(leaves[<<a[1], a[2]>>]) - 1)
    BY <1>1 DEF TreeGood, IsTree
  <1>8. Len(leaves[<<a[1], a[2]>>]) = Len(digests[<<a[1], a[2]>>])
    BY <1>7 DEF CommitsTo
  <1>9. a[3] \in 0..(Len(digests[<<a[1], a[2]>>]) - 1)
    BY <1>7, <1>8
  <1> QED
    BY <1>6, <1>7, <1>9 DEF IsLeaf, DigestAt, d

\* VerifyHMFProofAgainstRoot: a proof that is accepted against the root of a forest
\* carries, for every address whose segment is one of its trees, the digest that was
\* sealed there, and the address is one of the sealed logs.  The verifier does not check
\* that the segment of an address is one of the trees; a plan that Planner.Plan made has
\* them all.
LEMMA VerifiedLeaves ==
    ASSUME NEW forest, NEW leaves, ForestOver(forest, leaves), NEW digests, CommitsTo(leaves, digests),
           NEW proof, NEW addresses, \A a \in addresses : IsAddress(a),
           Verified(proof, addresses, CommitGlobalRoot(forest.global)),
           NEW a \in addresses, SegmentTreeRef(a) \in TreesOf(proof)
    PROVE  IsLeaf(digests, a) /\ \A l \in proof.leaves : l[1] = a => l[2] = DigestAt(digests, a)
  <1> HIDE DEF IsAddress
  <1>1. WellFormed(proof, addresses)
    BY GlobalRootIs
  <1>2. PICK p \in proof.plan.trees : p.tree = SegmentTreeRef(a)
    BY DEF TreesOf
  <1>3. TreeGood(proof, leaves, digests, p)
    BY AllGood
  <1>4. ASSUME NEW l \in proof.leaves, l[1] = a
        PROVE  IsLeaf(digests, a) /\ l[2] = DigestAt(digests, a)
    BY <1>2, <1>3, <1>4, LeafGood
  <1>5. \E l \in proof.leaves : l[1] = a
    <2>1. a \in {l[1] : l \in proof.leaves}
      BY <1>1 DEF WellFormed, ValidProofLeaves
    <2> QED
      BY <2>1
  <1> QED
    BY <1>4, <1>5

-----------------------------------------------------------------------------
(* What verifies *)

\* The converse of TraceIsTree: from a tree's nodes reconstructTreeTrace reaches its root.
LEMMA TreeIsTrace ==
    ASSUME NEW list, IsList(list), Len(list) > 0,
           NEW leaves, IsLeafMap(leaves), TargetsOf(leaves) \subseteq 0..(Len(list) - 1),
           NEW supplied, Keys(supplied) = RequiredAbove(TargetsOf(leaves), Len(list)),
           NEW known, IsTrace(known, Widths(list), BitsLen[Len(list) - 1], leaves, supplied),
           \A x \in leaves : x[2] = list[x[1][2] + 1],
           \A x \in supplied : x[2] = RegionTree(list)[x[1][1] + 1][x[1][2] + 1]
    PROVE  \A l \in Nat : \A c : <<l, c>> \in Keys(known) =>
               Value(known, <<l, c>>) = RegionTree(list)[l + 1][c + 1]
  <1> DEFINE top == BitsLen[Len(list) - 1]
             tree == RegionTree(list)
             width == Widths(list)
             targets == TargetsOf(leaves)
             V(l, c) == Value(known, <<l, c>>)
  <1>1. top \in Nat /\ \A l \in 0..top : width[l] \in Nat
    BY WidthsAre
  <1>2. /\ tree[1] = list
        /\ \A l \in 0..top : width[l] = Len(tree[l + 1])
        /\ \A l \in 0..(top - 1) : \A i \in 0..(width[l + 1] - 1) :
              tree[l + 2][i + 1] = ParentHash(tree[l + 1], i)
    BY TreeLevels
  <1>3. /\ Functional(known) /\ leaves \cup supplied \subseteq known
        /\ Keys(known) = OnTheWay(targets, top) \cup Keys(supplied)
    BY DEF IsTrace
  <1>4. \A l \in 0..(top - 1) : \A i \in Active(targets, l + 1) :
           V(l + 1, i) = IF 2 * i + 1 < width[l] THEN HashPair(V(l, 2 * i), V(l, 2 * i + 1)) ELSE V(l, 2 * i)
    BY DEF IsTrace
  <1>5. Covers(RequiredAbove(targets, Len(list)), targets, width, top)
    BY RequiredCovers
  <1>6. \A l \in 0..top : Active(targets, l) \subseteq 0..(width[l] - 1)
    BY ActiveInTree
  <1>7. Active(targets, 0) = targets
    <2>1. targets \subseteq Nat
      BY DEF IsList
    <2> HIDE DEF targets
    <2> QED
      BY <2>1, ActiveUp
  <1>8. ASSUME NEW l \in Nat, NEW c, <<l, c>> \in Keys(supplied)
        PROVE  V(l, c) = tree[l + 1][c + 1]
    <2>1. PICK x \in supplied : x[1] = <<l, c>>
      BY <1>8 DEF Keys
    <2>2. Value(known, x[1]) = x[2]
      BY <1>3, <2>1, ValueIs
    <2>3. x[1][1] = l /\ x[1][2] = c
      BY <2>1
    <2> QED
      BY <2>1, <2>2, <2>3
  <1>9. ASSUME NEW l \in Nat, NEW c, <<l, c>> \in OnTheWay(targets, top)
        PROVE  l \in 0..top /\ c \in Active(targets, l)
    <2>1. PICK m \in 0..top : <<l, c>> \in {<<m, i>> : i \in Active(targets, m)}
      BY <1>9 DEF OnTheWay
    <2>2. PICK i \in Active(targets, m) : <<l, c>> = <<m, i>>
      BY <2>1
    <2>3. l = m /\ c = i
      BY <2>2
    <2> QED
      BY <2>3
  <1>10. \A l \in 0..top : \A i \in Active(targets, l) : <<l, i>> \in Keys(known)
    BY <1>3 DEF OnTheWay
  <1>11. ASSUME NEW c \in targets
         PROVE  V(0, c) = list[c + 1]
    <2>1. PICK x \in leaves : c = x[1][2]
      BY DEF TargetsOf
    <2>2. x[1] = <<0, c>>
      BY <2>1 DEF IsLeafMap
    <2>3. Value(known, x[1]) = x[2]
      BY <1>3, <2>1, ValueIs
    <2> QED
      BY <2>1, <2>2, <2>3
  <1> HIDE DEF top, tree, width, targets, V
  <1> DEFINE Good(l) == \A c : <<l, c>> \in Keys(known) => V(l, c) = tree[l + 1][c + 1]
             T == {n \in Nat : Good(n)}
  <1>12. 0 \in T
    <2> SUFFICES ASSUME NEW c, <<0, c>> \in Keys(known)
                 PROVE  V(0, c) = tree[0 + 1][c + 1]
      OBVIOUS
    <2>1. CASE <<0, c>> \in Keys(supplied)
      BY <1>8, <2>1
    <2>2. CASE <<0, c>> \in OnTheWay(targets, top)
      <3>1. c \in targets
        BY <1>7, <1>9, <2>2
      <3> QED
        BY <1>2, <1>11, <3>1
    <2> QED
      BY <1>3, <2>1, <2>2
  <1>13. ASSUME NEW l \in Nat, l \in T
         PROVE  l + 1 \in T
    <2>1. Good(l)
      BY <1>13
    <2> SUFFICES ASSUME NEW c, <<l + 1, c>> \in Keys(known)
                 PROVE  V(l + 1, c) = tree[(l + 1) + 1][c + 1]
      OBVIOUS
    <2>2. CASE <<l + 1, c>> \in Keys(supplied)
      BY <1>8, <2>2
    <2>3. CASE <<l + 1, c>> \in OnTheWay(targets, top)
      <3>1. l + 1 \in 0..top /\ c \in Active(targets, l + 1)
        BY <1>9, <2>3
      <3>2. l \in 0..(top - 1) /\ l \in 0..top /\ (l + 1) + 1 = l + 2
        BY <1>1, <3>1
      <3>3. width[l] \in Nat /\ width[l] = Len(tree[l + 1]) /\ c \in 0..(width[l + 1] - 1) /\ c \in Nat
        BY <1>1, <1>2, <1>6, <3>1, <3>2
      <3>4. tree[l + 2][c + 1] = ParentHash(tree[l + 1], c)
        BY <1>2, <3>2, <3>3
      <3>5. V(l + 1, c) = IF 2 * c + 1 < width[l] THEN HashPair(V(l, 2 * c), V(l, 2 * c + 1)) ELSE V(l, 2 * c)
        BY <1>4, <3>1, <3>2
      <3>6. ASSUME NEW d \in Nat, d \in {2 * c, 2 * c + 1}, d < width[l]
            PROVE  V(l, d) = tree[l + 1][d + 1]
        <4>1. d \in Active(targets, l) \/ <<l, d>> \in RequiredAbove(targets, Len(list))
          BY <1>5, <3>1, <3>2, <3>6 DEF Covers
        <4>2. <<l, d>> \in Keys(known)
          BY <1>3, <1>10, <3>2, <4>1 DEF targets
        <4> QED
          BY <2>1, <4>2
      <3>7. CASE 2 * c + 1 < width[l]
        <4>1. V(l, 2 * c) = tree[l + 1][2 * c + 1] /\ V(l, 2 * c + 1) = tree[l + 1][(2 * c + 1) + 1]
          BY <3>3, <3>6, <3>7
        <4>2. (2 * c + 1) + 1 = 2 * c + 2
          BY <3>3
        <4> QED
          BY <3>2, <3>3, <3>4, <3>5, <3>7, <4>1, <4>2 DEF ParentHash
      <3>8. CASE ~(2 * c + 1 < width[l])
        <4>1. 2 * c \in Nat /\ 2 * c < width[l]
          <5>1. width[l + 1] = (width[l] + 1) \div 2
            BY <3>2, WidthsAre DEF width, top
          <5> DEFINE w == width[l]
          <5>2. w \in Nat /\ c \in Nat /\ c <= ((w + 1) \div 2) - 1
            <6>1. width[l + 1] \in Nat
              BY <1>1, <3>1
            <6>2. c \in Nat /\ c <= width[l + 1] - 1
              BY <3>3, <6>1
            <6> QED
              BY <3>3, <5>1, <6>1, <6>2
          <5> HIDE DEF w
          <5>3. 2 * c \in Nat /\ 2 * c < w
            BY <5>2
          <5> QED
            BY <5>3 DEF w
        <4>2. V(l, 2 * c) = tree[l + 1][2 * c + 1]
          BY <3>6, <4>1
        <4> QED
          BY <3>2, <3>3, <3>4, <3>5, <3>8, <4>2 DEF ParentHash
      <3> QED
        BY <3>7, <3>8
    <2> QED
      BY <1>3, <2>2, <2>3
  <1>14. \A n \in Nat : n \in T
    <2> HIDE DEF T
    <2> QED
      BY <1>12, <1>13, NatInduct
  <1> QED
    BY <1>14 DEF V, tree

\* The nodes of a trace are those of a tree.
TracesTree(f, tree) ==
    \A l \in Nat : \A c : <<l, c>> \in DOMAIN f => f[<<l, c>>] = tree[l + 1][c + 1]

\* The trace of a tree that a proof has the nodes of is made of the tree's own nodes, ...
LEMMA TreeNodesAre ==
    ASSUME NEW proof, NEW addresses, WellFormed(proof, addresses), \A a \in addresses : IsAddress(a),
           NEW p \in proof.plan.trees, NEW committed,
           NEW list, IsList(list), Len(list) = p.leafCount, TreeHolds(proof, p, committed, list)
    PROVE  LET f == TreeTrace(proof, p, committed)
           IN /\ Len(list) > 0 /\ BitsLen[Len(list) - 1] \in Nat /\ <<BitsLen[Len(list) - 1], 0>> \in DOMAIN f
              /\ TracesTree(f, RegionTree(list))
  <1> DEFINE top == BitsLen[Len(list) - 1]
             S == Starts(proof, p, committed)
             U == Supplied(proof, p)
             tree == RegionTree(list)
             f == TreeTrace(proof, p, committed)
  <1>1. /\ IsLeafMap(S) /\ TargetsOf(S) = p.targets
        /\ Functional(U) /\ Keys(U) = RequiredAbove(TargetsOf(S), Len(list))
        /\ Len(list) > 0 /\ TargetsOf(S) # {} /\ TargetsOf(S) \subseteq 0..(Len(list) - 1)
    <2> HIDE DEF IsAddress
    <2> QED
      BY StartsAreTargets
  <1>2. f = ReconstructAbove(Len(list), S, U)
    BY TreeTraceDef
  <1>3. \A x \in S : x[2] = list[x[1][2] + 1]
    BY DEF TreeHolds
  <1>4. ASSUME NEW x \in U
        PROVE  x[2] = tree[x[1][1] + 1][x[1][2] + 1]
    <2>1. PICK n \in proof.nodes : n[1] = p.tree /\ x = <<n[2], n[3]>>
      BY DEF Supplied
    <2>2. x[1] = n[2] /\ x[2] = n[3]
      BY <2>1
    <2> QED
      BY <2>1, <2>2 DEF TreeHolds
  <1> HIDE DEF S, U, f
  <1>5. PICK known : /\ ReconstructAbove(Len(list), S, U) = AsFunction(known)
                     /\ IsTrace(known, Widths(list), top, S, U)
    BY <1>1, ReconstructIs
  <1>6. top \in Nat
    BY <1>1, WidthsAre
  <1>7. <<top, 0>> \in Keys(known)
    <2>1. Active(TargetsOf(S), top) = {0}
      BY <1>1, ActiveInTree
    <2>2. top \in 0..top
      BY <1>6
    <2>3. <<top, 0>> \in OnTheWay(TargetsOf(S), top)
      BY <2>1, <2>2 DEF OnTheWay
    <2> QED
      BY <1>5, <2>3 DEF IsTrace
  <1>8. \A l \in Nat : \A c : <<l, c>> \in Keys(known) => Value(known, <<l, c>>) = tree[l + 1][c + 1]
    <2> HIDE DEF tree
    <2> QED
      BY SMTT(30), <1>1, <1>3, <1>4, <1>5, TreeIsTrace DEF tree
  <1> HIDE DEF tree, top
  <1>9. DOMAIN f = Keys(known) /\ \A k \in Keys(known) : f[k] = Value(known, k)
    BY <1>2, <1>5, AsFunctionIs
  <1> QED
    BY <1>1, <1>6, <1>7, <1>8, <1>9 DEF f, tree, top, TracesTree

\* ... so it leads to the tree's root.
LEMMA TreeComplete ==
    ASSUME NEW proof, NEW addresses, WellFormed(proof, addresses), \A a \in addresses : IsAddress(a),
           NEW p \in proof.plan.trees, NEW committed,
           NEW list, IsList(list), Len(list) = p.leafCount, TreeHolds(proof, p, committed, list)
    PROVE  RawRoot(proof, p, committed) = MerkleRoot(list)
  <1> DEFINE top == BitsLen[Len(list) - 1]
             f == TreeTrace(proof, p, committed)
  <1>1. LET g == TreeTrace(proof, p, committed)
        IN /\ Len(list) > 0 /\ BitsLen[Len(list) - 1] \in Nat /\ <<BitsLen[Len(list) - 1], 0>> \in DOMAIN g
           /\ TracesTree(g, RegionTree(list))
    <2> HIDE DEF IsAddress
    <2> QED
      BY TreeNodesAre
  <1>2. RegionTree(list)[top + 1][1] = MerkleRoot(list)
    BY <1>1, TreeLevels
  <1>3. f[<<top, 0>>] = RegionTree(list)[top + 1][0 + 1]
    <2>1. top \in Nat /\ <<top, 0>> \in DOMAIN f /\ TracesTree(f, RegionTree(list))
      BY <1>1
    <2> HIDE DEF f, top
    <2> QED
      BY <2>1 DEF TracesTree
  <1> HIDE DEF f, top
  <1>4. f[<<top, 0>>] = MerkleRoot(list)
    BY <1>2, <1>3
  <1> QED
    BY <1>4 DEF RawRoot, f, top

\* The converse of LeafIsCommitment: a tree's commitment is in its place in the tree above.
LEMMA CommitmentIsLeaf ==
    ASSUME NEW forest, NEW leaves, ForestOver(forest, leaves), NEW digests, CommitsTo(leaves, digests),
           NEW t, IsTree(leaves, t), t[1] # Global
    PROVE  LET list == TreeList(leaves, digests, t)
               up == ParentTree(t)
           IN /\ IsTree(leaves, up)
              /\ LeafIndex(t) \in 0..(Len(TreeList(leaves, digests, up)) - 1)
              /\ TreeList(leaves, digests, up)[LeafIndex(t) + 1] = CommittedRoot(t, Len(list), MerkleRoot(list))
  <1> DEFINE sh == <<t[2], t[3]>>
             list == TreeList(leaves, digests, t)
             up == ParentTree(t)
             above == TreeList(leaves, digests, up)
  <1>a. \A u : /\ u[1] = Segment => TreeList(leaves, digests, u) = digests[<<u[2], u[3]>>][u[4] + 1]
               /\ u[1] = Shard => TreeList(leaves, digests, u) = leaves[<<u[2], u[3]>>]
               /\ u[1] = Region => TreeList(leaves, digests, u) = RegionLeavesOf(leaves, u[2])
               /\ u[1] = Global => TreeList(leaves, digests, u) = GlobalLeavesOf(leaves)
               /\ u[1] = Segment => LeafIndex(u) = u[4]
               /\ u[1] = Shard => LeafIndex(u) = u[3]
               /\ u[1] = Region => LeafIndex(u) = u[2]
    BY TreeListIs
  <1>1. CASE t[1] = Segment
    <2>1. up = <<Shard, t[2], t[3], 0>> /\ up[1] = Shard /\ up[2] = t[2] /\ up[3] = t[3]
      BY <1>1, LayersAre
    <2>2. sh \in Shards /\ t[4] \in 0..(Len(leaves[sh]) - 1)
      BY <1>1 DEF IsTree
    <2>3. above = leaves[sh] /\ LeafIndex(t) = t[4] /\ list = digests[sh][t[4] + 1]
      <3>1. above = leaves[<<up[2], up[3]>>]
        BY <2>1, <1>a
      <3>2. list = digests[<<t[2], t[3]>>][t[4] + 1] /\ LeafIndex(t) = t[4]
        BY <1>1, <1>a
      <3> QED
        BY <2>1, <3>1, <3>2
    <2>4. leaves[sh][t[4] + 1] = CommitSegmentRoot(sh, t[4], Len(list), MerkleRoot(list))
      BY <2>2, <2>3 DEF CommitsTo
    <2>5. CommittedRoot(t, Len(list), MerkleRoot(list)) = CommitSegmentRoot(sh, t[4], Len(list), MerkleRoot(list))
      BY <1>1, CommittedRootIs DEF CommitSegmentRoot
    <2>6. IsTree(leaves, up)
      <3>1. Len(leaves[sh]) \in Nat
        BY <2>2 DEF ForestOver, ShardOver, IsList
      <3>2. Len(leaves[sh]) > 0
        BY <2>2, <3>1
      <3> QED
        BY <2>1, <2>2, <3>2, LayersAre DEF IsTree, IsTreeRef
    <2> HIDE DEF up, list, sh
    <2> QED
      BY <2>2, <2>3, <2>4, <2>5, <2>6 DEF up, list
  <1>2. CASE t[1] = Shard
    <2>1. up = <<Region, t[2], 0, 0>> /\ up[1] = Region /\ up[2] = t[2]
      BY <1>2, LayersAre
    <2>2. sh \in Shards /\ Len(leaves[sh]) > 0
      BY <1>2 DEF IsTree
    <2>3. t[2] \in Regions /\ t[3] \in 0..(NumShards - 1)
      BY <2>2 DEF Shards
    <2>4. above = RegionLeavesOf(leaves, t[2]) /\ LeafIndex(t) = t[3] /\ list = leaves[sh]
      <3>1. above = RegionLeavesOf(leaves, up[2])
        BY <2>1, <1>a
      <3>2. list = leaves[<<t[2], t[3]>>] /\ LeafIndex(t) = t[3]
        BY <1>2, <1>a
      <3> QED
        BY <2>1, <3>1, <3>2
    <2>5. t[3] + 1 \in 1..NumShards /\ (t[3] + 1) - 1 = t[3] /\ Len(above) = NumShards
      BY <2>3, <2>4, UpperLeaves
    <2>6. RegionLeavesOf(leaves, t[2])[t[3] + 1] = <<"SHARD", sh, Len(list), MerkleRoot(list)>>
      <3> DEFINE root == IF Len(leaves[sh]) = 0 THEN ZeroHash ELSE MerkleRoot(leaves[sh])
      <3>1. RegionLeavesOf(leaves, t[2])[t[3] + 1] = <<"SHARD", sh, Len(leaves[sh]), root>>
        BY <2>5 DEF RegionLeavesOf
      <3>2. root = MerkleRoot(leaves[sh])
        BY <2>2
      <3> QED
        BY <2>4, <3>1, <3>2
    <2>7. CommittedRoot(t, Len(list), MerkleRoot(list)) = <<"SHARD", sh, Len(list), MerkleRoot(list)>>
      BY <1>2, CommittedRootIs
    <2>8. IsTree(leaves, up)
      BY <2>1, <2>3, LayersAre DEF IsTree, IsTreeRef
    <2> HIDE DEF up, list, sh, above
    <2> QED
      BY <2>3, <2>4, <2>5, <2>6, <2>7, <2>8 DEF up, list, above
  <1>3. CASE t[1] = Region
    <2>1. up = GlobalTreeRef /\ up[1] = Global
      BY <1>3, LayersAre
    <2>2. t[2] \in Regions
      BY <1>3 DEF IsTree
    <2>3. above = GlobalLeavesOf(leaves) /\ LeafIndex(t) = t[2] /\ list = RegionLeavesOf(leaves, t[2])
      BY <1>3, <2>1, <1>a
    <2>4. t[2] + 1 \in 1..NumRegions /\ (t[2] + 1) - 1 = t[2] /\ t[2] \in 0..(NumRegions - 1)
      BY <2>2, UpperLeaves DEF Regions
    <2>5. Len(above) = NumRegions /\ Len(list) = NumShards
      BY <2>3, UpperLeaves
    <2>6. GlobalLeavesOf(leaves)[t[2] + 1] = <<"REGION", t[2], NumShards, MerkleRoot(RegionLeavesOf(leaves, t[2]))>>
      BY <2>4 DEF GlobalLeavesOf
    <2>7. CommittedRoot(t, Len(list), MerkleRoot(list)) = <<"REGION", t[2], Len(list), MerkleRoot(list)>>
      BY <1>3, CommittedRootIs
    <2>8. IsTree(leaves, up)
      BY <2>1, LayersAre DEF IsTree, IsTreeRef
    <2> HIDE DEF up, list, above
    <2> QED
      BY <2>3, <2>4, <2>5, <2>6, <2>7, <2>8 DEF up, list, above
  <1> QED
    BY <1>1, <1>2, <1>3, LayersAre DEF IsTree, IsTreeRef

\* A proof of the forest as far as it has plans: sizes, nodes and links of its trees are
\* the forest's, and so are the digests of those leaves whose segment is one of its trees.
OfForest(proof, leaves, digests) ==
    /\ \A p \in proof.plan.trees :
          /\ IsTree(leaves, p.tree)
          /\ p.leafCount = Len(TreeList(leaves, digests, p.tree))
          /\ \A n \in proof.nodes :
                n[1] = p.tree => n[3] = RegionTree(TreeList(leaves, digests, p.tree))[n[2][1] + 1][n[2][2] + 1]
    /\ \A l \in proof.plan.links : l.index = LeafIndex(l.child)
    /\ \A l \in proof.leaves : SegmentTreeRef(l[1]) \in TreesOf(proof) => l[2] = DigestAt(digests, l[1])

\* The committed root that the trace of a proof has for a tree is the forest's.
Leads(proof, leaves, digests, t) ==
    Value(TraceLayers(proof).committed, t)
      = CommittedRoot(t, Len(TreeList(leaves, digests, t)), MerkleRoot(TreeList(leaves, digests, t)))

\* One tree: if those below lead to their roots, it leads to its own.
LEMMA TreeLeads ==
    ASSUME NEW forest, NEW leaves, ForestOver(forest, leaves), NEW digests, CommitsTo(leaves, digests),
           NEW proof, NEW addresses, \A a \in addresses : IsAddress(a), WellFormed(proof, addresses),
           OfForest(proof, leaves, digests),
           NEW p \in proof.plan.trees,
           \A l \in proof.plan.links : l.parent = p.tree => Leads(proof, leaves, digests, l.child)
    PROVE  Leads(proof, leaves, digests, p.tree)
  <1> DEFINE C == TraceLayers(proof).committed
             t == p.tree
             list == TreeList(leaves, digests, t)
             S == Starts(proof, p, C)
  <1>a. t[1] = Segment => list = digests[<<t[2], t[3]>>][t[4] + 1]
    BY TreeListIs
  <1>1. IsTree(leaves, t) /\ p.leafCount = Len(list)
    BY DEF OfForest
  <1>2. IsList(list)
    BY <1>1, TreeIsList
  <1>3. TargetsOf(S) \subseteq 0..(Len(list) - 1)
    <2>1. TargetsOf(S) = p.targets /\ p.targets \subseteq 0..(p.leafCount - 1)
      <3> HIDE DEF IsAddress, C
      <3> QED
        BY StartsAreTargets DEF C
    <2> QED
      BY <1>1, <2>1
  <1>4. ASSUME NEW x \in S
        PROVE  x[1][2] \in 0..(Len(list) - 1) /\ x[2] = list[x[1][2] + 1]
    <2>1. x[1][2] \in 0..(Len(list) - 1)
      BY <1>3 DEF TargetsOf
    <2>2. CASE t[1] = Segment
      <3>1. PICK l \in proof.leaves : SegmentTreeRef(l[1]) = t /\ x = <<<<0, l[1][4]>>, l[2]>>
        BY <2>2 DEF Starts
      <3>2. x[1][2] = l[1][4] /\ x[2] = l[2]
        BY <3>1
      <3>3. l[2] = DigestAt(digests, l[1])
        BY <3>1 DEF OfForest, TreesOf
      <3>4. t[2] = l[1][1] /\ t[3] = l[1][2] /\ t[4] = l[1][3]
        BY <3>1 DEF SegmentTreeRef
      <3>5. list = digests[<<t[2], t[3]>>][t[4] + 1]
        BY <2>2, <1>a
      <3> QED
        BY <2>1, <3>2, <3>3, <3>4, <3>5 DEF DigestAt
    <2>3. CASE t[1] # Segment
      <3>1. PICK l \in proof.plan.links : l.parent = t /\ x = <<<<0, l.index>>, Value(C, l.child)>>
        BY <2>3 DEF Starts
      <3>2. x[1][2] = l.index /\ x[2] = Value(C, l.child)
        BY <3>1
      <3> DEFINE u == l.child
                 own == TreeList(leaves, digests, u)
      <3>3. l.index = LeafIndex(u) /\ Leads(proof, leaves, digests, u)
        BY <3>1 DEF OfForest
      <3>4. u \in TreesOf(proof) /\ u[1] # Global /\ ParentTree(u) = t
        BY <3>1, LayersAre DEF WellFormed, ValidLinks, TreesOf
      <3>5. IsTree(leaves, u)
        BY <3>4 DEF OfForest, TreesOf
      <3>6. TreeList(leaves, digests, ParentTree(u))[LeafIndex(u) + 1]
              = CommittedRoot(u, Len(own), MerkleRoot(own))
        <4> HIDE DEF u
        <4> QED
          BY <3>4, <3>5, CommitmentIsLeaf
      <3>7. Value(C, u) = CommittedRoot(u, Len(own), MerkleRoot(own))
        BY <3>3 DEF Leads
      <3>8. list[l.index + 1] = Value(C, u)
        <4> HIDE DEF u, C, own
        <4> QED
          BY <3>3, <3>4, <3>6, <3>7
      <3> QED
        BY <2>1, <3>2, <3>8
    <2> QED
      BY <2>2, <2>3
  <1>5. \A n \in proof.nodes : n[1] = t => n[3] = RegionTree(list)[n[2][1] + 1][n[2][2] + 1]
    BY DEF OfForest
  <1>6. TreeHolds(proof, p, C, list)
    BY <1>4, <1>5 DEF TreeHolds
  <1> HIDE DEF C, list
  <1>7. RawRoot(proof, p, C) = MerkleRoot(list)
    BY <1>1, <1>2, <1>6, TreeComplete
  <1>8. Value(C, t) = CommittedRoot(t, p.leafCount, RawRoot(proof, p, C))
    BY CommittedIs DEF WellFormed, TracedRoot, Commit, RawRoot, C
  <1> QED
    BY <1>1, <1>7, <1>8 DEF Leads, C, list

LEMMA AllLead ==
    ASSUME NEW forest, NEW leaves, ForestOver(forest, leaves), NEW digests, CommitsTo(leaves, digests),
           NEW proof, NEW addresses, \A a \in addresses : IsAddress(a), WellFormed(proof, addresses),
           OfForest(proof, leaves, digests)
    PROVE  \A p \in proof.plan.trees : Leads(proof, leaves, digests, p.tree)
  <1> HIDE DEF IsAddress
  <1> DEFINE Layer(k) == \A p \in proof.plan.trees : p.tree[1] = k => Leads(proof, leaves, digests, p.tree)
  <1>1. ASSUME NEW p \in proof.plan.trees,
               NEW k, Layer(k), \A l \in proof.plan.links : l.parent = p.tree => l.child[1] = k
        PROVE  Leads(proof, leaves, digests, p.tree)
    <2>1. ASSUME NEW l \in proof.plan.links, l.parent = p.tree
          PROVE  Leads(proof, leaves, digests, l.child)
      <3>1. l.child \in TreesOf(proof)
        BY DEF WellFormed, ValidLinks, TreesOf
      <3>2. PICK q \in proof.plan.trees : l.child = q.tree
        BY <3>1 DEF TreesOf
      <3> QED
        BY <1>1, <2>1, <3>2
    <2> QED
      BY <2>1, TreeLeads
  <1>2. ASSUME NEW l \in proof.plan.links
        PROVE  /\ l.child[1] \in {Segment, Shard, Region} /\ l.parent = ParentTree(l.child)
               /\ l.parent[1] # Segment
               /\ l.parent[1] = Shard => l.child[1] = Segment
               /\ l.parent[1] = Region => l.child[1] = Shard
               /\ l.parent[1] = Global => l.child[1] = Region
    <2>1. l.child[1] \in Segment..Region /\ l.parent = ParentTree(l.child)
      BY DEF WellFormed, ValidLinks
    <2>2. l.child[1] \in {Segment, Shard, Region}
      BY <2>1, LayersAre
    <2> QED
      BY <2>1, <2>2, LayersAre
  <1> HIDE DEF Layer
  <1>3. Layer(Segment)
    <2>1. ASSUME NEW p \in proof.plan.trees, p.tree[1] = Segment
          PROVE  Leads(proof, leaves, digests, p.tree)
      <3>1. \A l \in proof.plan.links : l.parent # p.tree
        BY <1>2, <2>1
      <3> QED
        BY <3>1, TreeLeads
    <2> QED
      BY <2>1 DEF Layer
  <1>4. Layer(Shard)
    <2>1. ASSUME NEW p \in proof.plan.trees, p.tree[1] = Shard
          PROVE  \A l \in proof.plan.links : l.parent = p.tree => l.child[1] = Segment
      BY <1>2, <2>1
    <2> QED
      BY <1>1, <1>3, <2>1 DEF Layer
  <1>5. Layer(Region)
    <2>1. ASSUME NEW p \in proof.plan.trees, p.tree[1] = Region
          PROVE  \A l \in proof.plan.links : l.parent = p.tree => l.child[1] = Shard
      BY <1>2, <2>1
    <2> QED
      BY <1>1, <1>4, <2>1 DEF Layer
  <1>6. Layer(Global)
    <2>1. ASSUME NEW p \in proof.plan.trees, p.tree[1] = Global
          PROVE  \A l \in proof.plan.links : l.parent = p.tree => l.child[1] = Region
      BY <1>2, <2>1
    <2> QED
      BY <1>1, <1>5, <2>1 DEF Layer
  <1>7. ASSUME NEW p \in proof.plan.trees
        PROVE  Leads(proof, leaves, digests, p.tree)
    <2>1. IsTreeRef(p.tree)
      BY TreeRefsAre
    <2> QED
      BY <1>3, <1>4, <1>5, <1>6, <2>1, LayersAre DEF IsTreeRef, Layer
  <1> QED
    BY <1>7

\* VerifyHMFProofAgainstRoot: a well-formed proof is accepted against the root of a
\* forest if and only if every leaf count, place and node in it is that forest's, and
\* every leaf hash whose segment is one of its trees; the others may be any.
LEMMA VerifierIsExact ==
    ASSUME NEW forest, NEW leaves, ForestOver(forest, leaves), NEW digests, CommitsTo(leaves, digests),
           NEW proof, NEW addresses, \A a \in addresses : IsAddress(a), WellFormed(proof, addresses)
    PROVE  Verified(proof, addresses, CommitGlobalRoot(forest.global)) <=> OfForest(proof, leaves, digests)
  <1> DEFINE C == TraceLayers(proof).committed
             root == CommitGlobalRoot(forest.global)
             G == GlobalLeavesOf(leaves)
  <1>1. ASSUME Verified(proof, addresses, root)
        PROVE  OfForest(proof, leaves, digests)
    <2>1. /\ \A p \in proof.plan.trees : TreeGood(proof, leaves, digests, p)
          /\ \A l \in proof.plan.links : l.index = LeafIndex(l.child)
      <3> HIDE DEF IsAddress
      <3> QED
        BY <1>1, AllGood
    <2>2. ASSUME NEW l \in proof.leaves, SegmentTreeRef(l[1]) \in TreesOf(proof)
          PROVE  l[2] = DigestAt(digests, l[1])
      <3>1. PICK p \in proof.plan.trees : SegmentTreeRef(l[1]) = p.tree
        BY <2>2 DEF TreesOf
      <3> QED
        BY <2>1, <3>1, LeafGood
    <2> QED
      BY <2>1, <2>2 DEF OfForest, TreeGood, TreeHolds
  <1>2. ASSUME OfForest(proof, leaves, digests)
        PROVE  Verified(proof, addresses, root)
    <2>1. PICK p \in proof.plan.trees : p.tree = GlobalTreeRef
      BY DEF WellFormed, ValidLinks
    <2>2. Leads(proof, leaves, digests, GlobalTreeRef)
      <3> HIDE DEF IsAddress
      <3> QED
        BY <1>2, <2>1, AllLead
    <2>3. TreeList(leaves, digests, GlobalTreeRef) = G
      <3>1. \A u : u[1] = Global => TreeList(leaves, digests, u) = GlobalLeavesOf(leaves)
        BY DEF TreeList, Segment, Shard, Region, Global
      <3> QED
        BY <3>1, LayersAre
    <2>4. IsList(G) /\ Len(G) = NumRegions /\ NumRegions \in Nat /\ NumRegions > 0
      BY UpperLeaves
    <2> HIDE DEF G, C
    <2>5. Value(C, GlobalTreeRef) = <<"GLOBAL", -1, NumRegions, MerkleRoot(G)>>
      BY <2>2, <2>3, <2>4, LayersAre, CommittedRootIs DEF Leads, C
    <2>6. root = <<"GLOBAL", -1, NumRegions, MerkleRoot(G)>>
      <3>1. forest.global = RegionTree(G)
        BY DEF ForestOver, G
      <3>2. forest.global[1] = G /\ Root(forest.global) = MerkleRoot(G)
        BY <2>4, <3>1, RegionTreeNodes
      <3> QED
        BY <2>4, <3>2 DEF CommitGlobalRoot
    <2>7. GlobalRoot(HMFTrace(proof)) = Value(C, GlobalTreeRef)
      <3>1. GlobalTreeRef \in Keys(C)
        BY <2>1, CommittedIs DEF WellFormed, TreesOf, C
      <3>2. HMFTrace(proof).committed = AsFunction(C)
        BY DEF HMFTrace, C
      <3> QED
        BY <3>1, <3>2, AsFunctionIs DEF GlobalRoot
    <2> QED
      BY <2>5, <2>6, <2>7 DEF Verified, TraceHMFProof
  <1> QED
    BY <1>1, <1>2

-----------------------------------------------------------------------------
(* What BuildProof builds *)

\* planTree can plan for the targets of a tree.
CanPlan(addresses, store, t) ==
    /\ store.count[t] > 0 /\ Targets(addresses, store, t) # {}
    /\ Targets(addresses, store, t) \subseteq 0..(store.count[t] - 1)

PlanFor(addresses, store, t) ==
    [tree |-> t, leafCount |-> store.count[t], targets |-> Targets(addresses, store, t),
     required |-> RequiredAbove(Targets(addresses, store, t), store.count[t])]
LinkFor(store, t) == [child |-> t, parent |-> ParentTree(t), index |-> store.index[t]]

\* The plan for the addresses, and the proof of it with the hashes of the store.
PlanBuilt(addresses, store) ==
    [addresses |-> addresses,
     trees |-> {PlanFor(addresses, store, t) : t \in TreesAbove(addresses)},
     links |-> {LinkFor(store, t) : t \in TreesAbove(addresses) \ {GlobalTreeRef}}]
ProofBuilt(addresses, store) ==
    [plan |-> PlanBuilt(addresses, store),
     leaves |-> {<<a, store.nodes[SegmentTreeRef(a)][<<0, a[4]>>]>> : a \in addresses},
     nodes |-> UNION {{<<p.tree, k, store.nodes[p.tree][k]>> : k \in p.required} :
                         p \in PlanBuilt(addresses, store).trees}]

LEMMA PlanIs ==
    ASSUME NEW addresses, NEW store
    PROVE  /\ \A plan \in Plan(addresses, store) :
                 /\ plan = PlanBuilt(addresses, store) /\ MetadataSuffices(addresses, store)
                 /\ \A t \in TreesAbove(addresses) : CanPlan(addresses, store, t)
           /\ MetadataSuffices(addresses, store) /\ (\A t \in TreesAbove(addresses) : CanPlan(addresses, store, t))
                => Plan(addresses, store) = {PlanBuilt(addresses, store)}
  <1> DEFINE trees == TreesAbove(addresses)
             F(t) == PlanFor(addresses, store, t)
             Can(t) == CanPlan(addresses, store, t)
             One(t) == PlanTree(t, store.count[t], Targets(addresses, store, t))
             planned == UNION {One(t) : t \in trees}
             links == {[child |-> t, parent |-> ParentTree(t), index |-> store.index[t]] :
                          t \in trees \ {GlobalTreeRef}}
             built == [addresses |-> addresses, trees |-> planned, links |-> links]
             complete == {p.tree : p \in planned} = trees
  <1>1. Plan(addresses, store) = IF MetadataSuffices(addresses, store) /\ complete THEN {built} ELSE {}
    BY Zenon DEF Plan
  <1>2. \A t : One(t) = IF Can(t) THEN {F(t)} ELSE {}
    BY DEF PlanTree, PlanFor, CanPlan
  <1>3. \A t : F(t).tree = t
    BY DEF PlanFor
  <1> HIDE DEF F, Can, One
  <1>4. \A p : p \in planned <=> \E t \in trees : Can(t) /\ p = F(t)
    BY <1>2
  <1>5. complete <=> \A t \in trees : Can(t)
    <2> HIDE DEF planned, trees
    <2>1. ASSUME complete, NEW t \in trees
          PROVE  Can(t)
      <3>1. PICK p \in planned : p.tree = t
        BY <2>1
      <3> QED
        BY <1>3, <1>4, <3>1
    <2>2. ASSUME \A t \in trees : Can(t)
          PROVE  complete
      <3>1. \A p \in planned : p.tree \in trees
        BY <1>3, <1>4
      <3>2. \A t \in trees : F(t) \in planned /\ F(t).tree = t
        BY <1>3, <1>4, <2>2
      <3> QED
        BY <3>1, <3>2
    <2> QED
      BY <2>1, <2>2
  <1>6. ASSUME \A t \in trees : Can(t)
        PROVE  built = PlanBuilt(addresses, store)
    <2>1. planned = {F(t) : t \in trees}
      <3> HIDE DEF planned, trees
      <3> QED
        BY <1>4, <1>6
    <2>2. links = {LinkFor(store, t) : t \in trees \ {GlobalTreeRef}}
      BY DEF LinkFor
    <2> QED
      BY <2>1, <2>2 DEF PlanBuilt, F
  <1> HIDE DEF built, complete
  <1> QED
    BY <1>1, <1>5, <1>6 DEF Can

\* The trees above a set of addresses.
LEMMA TreesAboveAre ==
    ASSUME NEW addresses
    PROVE  LET trees == TreesAbove(addresses)
           IN /\ GlobalTreeRef \in trees
              /\ \A a \in addresses : SegmentTreeRef(a) \in trees
              /\ \A t \in trees : IsTreeRef(t)
              /\ \A t \in trees : t # GlobalTreeRef => t[1] \in {Segment, Shard, Region} /\ ParentTree(t) \in trees
              /\ \A t \in trees : t[1] = Segment => \E a \in addresses : t = SegmentTreeRef(a)
              /\ addresses # {} => \A t \in trees : t[1] # Segment =>
                    \E u \in trees : u # GlobalTreeRef /\ ParentTree(u) = t
  <1> DEFINE segments == {SegmentTreeRef(a) : a \in addresses}
             shards == {ParentTree(t) : t \in segments}
             regions == {ParentTree(t) : t \in shards}
             trees == TreesAbove(addresses)
  <1>1. trees = segments \cup shards \cup regions \cup {GlobalTreeRef}
    BY DEF TreesAbove
  <1>2. ASSUME NEW t \in segments
        PROVE  t[1] = Segment /\ IsTreeRef(t) /\ \E a \in addresses : t = SegmentTreeRef(a)
    BY DEF SegmentTreeRef, IsTreeRef
  <1>3. ASSUME NEW t \in shards
        PROVE  t[1] = Shard /\ IsTreeRef(t) /\ \E u \in segments : ParentTree(u) = t
    BY <1>2, LayersAre DEF IsTreeRef
  <1>4. ASSUME NEW t \in regions
        PROVE  t[1] = Region /\ IsTreeRef(t) /\ \E u \in shards : ParentTree(u) = t
    BY <1>3, LayersAre DEF IsTreeRef
  <1>5. \A a \in addresses : SegmentTreeRef(a) \in segments
    OBVIOUS
  <1>6. /\ \A t \in segments : ParentTree(t) \in shards
        /\ \A t \in shards : ParentTree(t) \in regions
    OBVIOUS
  <1> HIDE DEF segments, shards, regions, trees
  <1>7. \A t \in regions : ParentTree(t) = GlobalTreeRef
    BY <1>4, LayersAre
  <1>8. IsTreeRef(GlobalTreeRef) /\ GlobalTreeRef[1] = Global
    BY LayersAre DEF IsTreeRef
  <1>9. \A t \in trees : IsTreeRef(t)
    BY <1>1, <1>2, <1>3, <1>4, <1>8
  <1>10. \A t \in trees : t # GlobalTreeRef => t[1] \in {Segment, Shard, Region} /\ ParentTree(t) \in trees
    BY <1>1, <1>2, <1>3, <1>4, <1>6, <1>7
  <1>11. \A t \in trees : t[1] = Segment => t \in segments
    BY <1>1, <1>3, <1>4, <1>8, LayersAre
  <1>12. ASSUME addresses # {}, NEW t \in trees, t[1] # Segment
         PROVE  \E u \in trees : u # GlobalTreeRef /\ ParentTree(u) = t
    <2>1. CASE t \in shards
      <3>1. PICK u \in segments : ParentTree(u) = t
        BY <1>3, <2>1
      <3> QED
        BY <1>1, <1>2, <1>8, <3>1, LayersAre
    <2>2. CASE t \in regions
      <3>1. PICK u \in shards : ParentTree(u) = t
        BY <1>4, <2>2
      <3> QED
        BY <1>1, <1>3, <1>8, <3>1, LayersAre
    <2>3. CASE t = GlobalTreeRef
      <3>1. PICK a \in addresses : TRUE
        BY <1>12
      <3> DEFINE u == ParentTree(ParentTree(SegmentTreeRef(a)))
      <3>2. u \in regions
        BY <1>5, <1>6
      <3> HIDE DEF u
      <3> QED
        BY <1>1, <1>4, <1>7, <1>8, <2>3, <3>2, LayersAre
    <2> QED
      BY <1>1, <1>2, <1>12, <2>1, <2>2, <2>3
  <1> QED
    BY <1>1, <1>2, <1>5, <1>9, <1>10, <1>11, <1>12 DEF trees

\* The trees above sealed logs are trees of the forest.
LEMMA TreesAreTrees ==
    ASSUME NEW forest, NEW leaves, ForestOver(forest, leaves), NEW digests, CommitsTo(leaves, digests),
           NEW addresses, \A a \in addresses : IsLeaf(digests, a)
    PROVE  \A t \in TreesAbove(addresses) : IsTree(leaves, t)
  <1> DEFINE segments == {SegmentTreeRef(a) : a \in addresses}
             shards == {ParentTree(t) : t \in segments}
             regions == {ParentTree(t) : t \in shards}
  <1>1. TreesAbove(addresses) = segments \cup shards \cup regions \cup {GlobalTreeRef}
    BY DEF TreesAbove
  <1>2. ASSUME NEW a \in addresses
        PROVE  IsTree(leaves, SegmentTreeRef(a)) /\ SegmentTreeRef(a)[1] = Segment
    <2> DEFINE t == SegmentTreeRef(a)
               sh == <<a[1], a[2]>>
    <2>1. t = <<Segment, t[2], t[3], t[4]>> /\ t[1] = Segment /\ t[2] = a[1] /\ t[3] = a[2] /\ t[4] = a[3]
      BY DEF SegmentTreeRef
    <2>2. sh \in Shards /\ a[3] \in 0..(Len(digests[sh]) - 1)
      BY DEF IsLeaf
    <2>3. Len(leaves[sh]) = Len(digests[sh])
      BY <2>2 DEF CommitsTo
    <2> HIDE DEF t
    <2>4. t[4] \in 0..(Len(leaves[<<t[2], t[3]>>]) - 1) /\ <<t[2], t[3]>> \in Shards
      BY <2>1, <2>2, <2>3
    <2> QED
      BY <2>1, <2>4, LayersAre DEF IsTree, IsTreeRef, t
  <1>3. ASSUME NEW t, IsTree(leaves, t), t[1] # Global
        PROVE  IsTree(leaves, ParentTree(t))
    BY <1>3, CommitmentIsLeaf
  <1>4. \A t \in segments : IsTree(leaves, t) /\ t[1] = Segment
    BY <1>2
  <1>5. \A t \in shards : IsTree(leaves, t) /\ t[1] = Shard
    <2> SUFFICES ASSUME NEW u \in segments
                 PROVE  IsTree(leaves, ParentTree(u)) /\ ParentTree(u)[1] = Shard
      OBVIOUS
    <2> QED
      BY <1>3, <1>4, LayersAre
  <1>6. \A t \in regions : IsTree(leaves, t)
    <2> SUFFICES ASSUME NEW u \in shards
                 PROVE  IsTree(leaves, ParentTree(u))
      OBVIOUS
    <2> QED
      BY <1>3, <1>5, LayersAre
  <1>7. IsTree(leaves, GlobalTreeRef)
    BY LayersAre DEF IsTree, IsTreeRef
  <1> QED
    BY <1>1, <1>4, <1>5, <1>6, <1>7

\* The hash of a node, from the leaves of its tree.
NodeOf(list, k) == RegionTree(list)[k[1] + 1][k[2] + 1]

\* A store whose rows are those of the forest's trees, and whose nodes are enough for
\* the addresses.
HasRows(store, leaves, digests, addresses) ==
    /\ addresses # {}
    /\ \A a \in addresses : IsAddress(a) /\ IsLeaf(digests, a) /\ SegmentTreeRef(a) \in store.sealed
    /\ \A t \in TreesAbove(addresses) :
          /\ t \in DOMAIN store.count /\ store.count[t] = Len(TreeList(leaves, digests, t))
          /\ t # GlobalTreeRef => store.index[t] = LeafIndex(t)

HasNodes(store, leaves, digests, addresses) ==
    /\ \A a \in addresses :
          /\ <<0, a[4]>> \in DOMAIN store.nodes[SegmentTreeRef(a)]
          /\ store.nodes[SegmentTreeRef(a)][<<0, a[4]>>] = DigestAt(digests, a)
    /\ \A t \in TreesAbove(addresses) :
          /\ t \in DOMAIN store.nodes
          /\ \A k \in RequiredAbove(Targets(addresses, store, t), store.count[t]) :
                /\ k \in DOMAIN store.nodes[t]
                /\ store.nodes[t][k] = NodeOf(TreeList(leaves, digests, t), k)

Serves(store, leaves, digests, addresses) ==
    HasRows(store, leaves, digests, addresses) /\ HasNodes(store, leaves, digests, addresses)

\* A tree's place tells it from the other trees below the same one.
LEMMA PlacesDiffer ==
    ASSUME NEW t, IsTreeRef(t), t # GlobalTreeRef, NEW u, IsTreeRef(u), u # GlobalTreeRef,
           ParentTree(t) = ParentTree(u), LeafIndex(t) = LeafIndex(u)
    PROVE  t = u
  <1>a. \A v : /\ v[1] = Segment => LeafIndex(v) = v[4]
               /\ v[1] = Shard => LeafIndex(v) = v[3]
               /\ v[1] = Region => LeafIndex(v) = v[2]
    BY DEF LeafIndex, Segment, Shard, Region
  <1>b. \A v : /\ v[1] = Segment => ParentTree(v)[1] = Shard
               /\ v[1] = Shard => ParentTree(v)[1] = Region
               /\ v[1] = Region => ParentTree(v)[1] = Global
    BY LayersAre
  <1>c. u[1] \in {Segment, Shard, Region} /\ t[1] \in {Segment, Shard, Region}
    BY DEF IsTreeRef
  <1>1. CASE t[1] = Segment
    <2>1. ParentTree(t) = <<Shard, t[2], t[3], 0>>
      BY <1>1, LayersAre
    <2>2. u[1] = Segment
      BY <1>b, <1>c, <1>1, LayersAre
    <2>3. <<Shard, t[2], t[3], 0>> = <<Shard, u[2], u[3], 0>>
      BY <2>1, <2>2, LayersAre
    <2>4. t[2] = u[2] /\ t[3] = u[3] /\ t[4] = u[4]
      BY <1>1, <2>2, <2>3, <1>a
    <2> QED
      BY <1>1, <2>2, <2>4, LayersAre DEF IsTreeRef
  <1>2. CASE t[1] = Shard
    <2>1. ParentTree(t) = <<Region, t[2], 0, 0>>
      BY <1>2, LayersAre
    <2>2. u[1] = Shard
      BY <1>b, <1>c, <1>2, LayersAre
    <2>3. <<Region, t[2], 0, 0>> = <<Region, u[2], 0, 0>>
      BY <2>1, <2>2, LayersAre
    <2>4. t[2] = u[2] /\ t[3] = u[3]
      BY <1>2, <2>2, <2>3, <1>a
    <2> QED
      BY <1>2, <2>2, <2>4, LayersAre DEF IsTreeRef
  <1>3. CASE t[1] = Region
    <2>1. ParentTree(t) = GlobalTreeRef
      BY <1>3, LayersAre
    <2>2. u[1] = Region
      BY <1>b, <1>c, <1>3, LayersAre
    <2>3. t[2] = u[2]
      BY <1>3, <2>2, <1>a
    <2> QED
      BY <1>3, <2>2, <2>3, LayersAre DEF IsTreeRef
  <1> QED
    BY <1>c, <1>1, <1>2, <1>3

\* Plan: with the rows of such a store it gives one plan, the one for the addresses.
LEMMA ServedPlan ==
    ASSUME NEW forest, NEW leaves, ForestOver(forest, leaves), NEW digests, CommitsTo(leaves, digests),
           NEW store, NEW addresses, HasRows(store, leaves, digests, addresses)
    PROVE  /\ MetadataSuffices(addresses, store)
           /\ \A t \in TreesAbove(addresses) : CanPlan(addresses, store, t)
  <1> DEFINE trees == TreesAbove(addresses)
             list(t) == TreeList(leaves, digests, t)
  <1>a. \A t : t[1] = Segment => list(t) = digests[<<t[2], t[3]>>][t[4] + 1]
    BY DEF TreeList, Segment, Shard, Region, Global
  <1>1. /\ addresses # {}
        /\ \A a \in addresses : IsLeaf(digests, a) /\ SegmentTreeRef(a) \in store.sealed
    BY DEF HasRows
  <1>2. \A t \in trees : IsTree(leaves, t)
    BY <1>1, TreesAreTrees
  <1>3. /\ GlobalTreeRef \in trees
        /\ \A a \in addresses : SegmentTreeRef(a) \in trees
        /\ \A t \in trees : IsTreeRef(t)
        /\ \A t \in trees : t # GlobalTreeRef => t[1] \in {Segment, Shard, Region} /\ ParentTree(t) \in trees
        /\ \A t \in trees : t[1] = Segment => \E a \in addresses : t = SegmentTreeRef(a)
        /\ \A t \in trees : t[1] # Segment => \E u \in trees : u # GlobalTreeRef /\ ParentTree(u) = t
    BY <1>1, TreesAboveAre
  <1>4. \A t \in trees : /\ t \in DOMAIN store.count /\ store.count[t] = Len(list(t))
                         /\ t # GlobalTreeRef => store.index[t] = LeafIndex(t)
    BY DEF HasRows
  <1>5. ASSUME NEW a \in addresses
        PROVE  a[4] \in 0..(store.count[SegmentTreeRef(a)] - 1)
    <2> DEFINE t == SegmentTreeRef(a)
    <2>1. t[1] = Segment /\ t[2] = a[1] /\ t[3] = a[2] /\ t[4] = a[3]
      BY DEF SegmentTreeRef
    <2>2. list(t) = digests[<<t[2], t[3]>>][t[4] + 1]
      BY <2>1, <1>a
    <2>3. list(t) = digests[<<a[1], a[2]>>][a[3] + 1]
      BY <2>1, <2>2
    <2>4. a[4] \in 0..(Len(digests[<<a[1], a[2]>>][a[3] + 1]) - 1)
      BY <1>1 DEF IsLeaf
    <2> HIDE DEF t
    <2>5. store.count[t] = Len(list(t))
      BY <1>3, <1>4 DEF t
    <2> QED
      BY <2>3, <2>4, <2>5 DEF t
  <1>6. ASSUME NEW u \in trees, u # GlobalTreeRef
        PROVE  store.index[u] \in 0..(store.count[ParentTree(u)] - 1)
    <2>1. LeafIndex(u) \in 0..(Len(list(ParentTree(u))) - 1)
      <3>1. u[1] # Global
        BY <1>3, <1>6, LayersAre
      <3> HIDE DEF trees
      <3> QED
        BY <1>2, <1>6, <3>1, CommitmentIsLeaf
    <2> HIDE DEF list
    <2> QED
      BY <1>3, <1>4, <1>6, <2>1
  <1>7. MetadataSuffices(addresses, store)
    <2>1. ASSUME NEW t \in trees \ {GlobalTreeRef}, NEW u \in trees \ {GlobalTreeRef},
                 ParentTree(t) = ParentTree(u), store.index[t] = store.index[u]
          PROVE  t = u
      <3>1. LeafIndex(t) = LeafIndex(u) /\ IsTreeRef(t) /\ IsTreeRef(u)
        BY <1>3, <1>4, <2>1
      <3> QED
        BY <2>1, <3>1, PlacesDiffer
    <2> HIDE DEF list
    <2> QED
      BY <1>1, <1>4, <1>5, <2>1 DEF MetadataSuffices
  <1>8. ASSUME NEW t \in trees
        PROVE  CanPlan(addresses, store, t)
    <2> DEFINE T == Targets(addresses, store, t)
    <2>1. CASE t[1] = Segment
      <3>1. T = {a[4] : a \in {b \in addresses : SegmentTreeRef(b) = t}}
        BY <2>1 DEF Targets
      <3> HIDE DEF T, list, trees
      <3>2. T # {}
        <4>1. PICK a \in addresses : t = SegmentTreeRef(a)
          BY <1>3, <2>1
        <4>2. a[4] \in T
          BY <3>1, <4>1
        <4> QED
          BY <4>2
      <3>3. T \subseteq 0..(store.count[t] - 1)
        BY <1>5, <3>1
      <3>4. store.count[t] > 0
        <4>1. PICK a \in addresses : t = SegmentTreeRef(a)
          BY <1>3, <2>1
        <4>2. a[4] \in 0..(store.count[t] - 1)
          BY <1>5, <4>1
        <4>3. IsList(list(t))
          BY <1>2, TreeIsList DEF list
        <4>4. store.count[t] \in Nat
          BY <1>4, <4>3 DEF IsList
        <4> QED
          BY <4>2, <4>4
      <3> QED
        BY <3>2, <3>3, <3>4 DEF CanPlan, T
    <2>2. CASE t[1] # Segment
      <3>1. T = {store.index[u] : u \in {v \in trees \ {GlobalTreeRef} : ParentTree(v) = t}}
        BY <2>2 DEF Targets
      <3> HIDE DEF T, list, trees
      <3>2. T # {}
        <4>1. PICK u \in trees : u # GlobalTreeRef /\ ParentTree(u) = t
          BY <1>3, <2>2
        <4>2. u \in {v \in trees \ {GlobalTreeRef} : ParentTree(v) = t}
          BY <4>1
        <4>3. store.index[u] \in T
          BY <3>1, <4>2
        <4> QED
          BY <4>3
      <3>3. T \subseteq 0..(store.count[t] - 1)
        BY <1>6, <3>1
      <3>4. store.count[t] > 0
        <4>1. PICK u \in trees : u # GlobalTreeRef /\ ParentTree(u) = t
          BY <1>3, <2>2
        <4>2. store.index[u] \in 0..(store.count[t] - 1)
          BY <1>6, <4>1
        <4>3. IsList(list(t))
          BY <1>2, TreeIsList DEF list
        <4>4. store.count[t] \in Nat
          BY <1>4, <4>3 DEF IsList
        <4> QED
          BY <4>2, <4>4
      <3> QED
        BY <3>2, <3>3, <3>4 DEF CanPlan, T
    <2> QED
      BY <2>1, <2>2
  <1> QED
    BY <1>7, <1>8

\* The nodes that a plan reads of a tree.
Wanted(p) == p.required \cup {<<0, i>> : i \in IF p.tree[1] = Segment THEN p.targets ELSE {}}
FetchedNode(store, p, k) == <<p.tree, k, store.nodes[p.tree][k]>>
FetchedNodes(store, plans) == UNION {{FetchedNode(store, p, k) : k \in Wanted(p)} : p \in plans}

\* fetchPartition looks for a node in the partition that hmfBucketID wrote it to, so all
\* nodes are found that the store has.
LEMMA FetchIs ==
    ASSUME NEW store, NEW plans,
           \A p \in plans : p.tree \in DOMAIN store.nodes /\ Wanted(p) \subseteq DOMAIN store.nodes[p.tree]
    PROVE  FetchProofNodes(store, BuildRequests(plans)) = {FetchedNodes(store, plans)}
  <1> DEFINE Request(p, k) == [partition |-> UpperScope(p.tree, k), position |-> k]
             R == BuildRequests(plans)
             Fetched(q) == <<q.partition[1], q.position, store.nodes[q.partition[1]][q.position]>>
  <1>1. R = UNION {{Request(p, k) : k \in Wanted(p)} : p \in plans}
    BY DEF BuildRequests, Wanted
  <1>2. ASSUME NEW p \in plans, NEW k \in Wanted(p)
        PROVE  Found(store, Request(p, k)) /\ Fetched(Request(p, k)) = FetchedNode(store, p, k)
    <2> DEFINE q == Request(p, k)
    <2>1. q.position = k /\ q.partition = UpperScope(p.tree, k)
      OBVIOUS
    <2>2. UpperScope(p.tree, k)[1] = p.tree /\ UpperScope(p.tree, k)[2] = HmfBucketID(p.tree, k)
      BY DEF UpperScope, HmfBucketID, ShardBucketID
    <2>3. q.partition[1] = p.tree /\ q.partition[2] = HmfBucketID(p.tree, k)
      BY <2>1, <2>2
    <2> HIDE DEF q
    <2>4. p.tree \in DOMAIN store.nodes /\ k \in DOMAIN store.nodes[p.tree]
      OBVIOUS
    <2>5. Found(store, q)
      BY <2>1, <2>3, <2>4 DEF Found
    <2>6. Fetched(q) = FetchedNode(store, p, k)
      BY <2>1, <2>3 DEF FetchedNode
    <2> QED
      BY <2>5, <2>6 DEF q
  <1> HIDE DEF Request, Fetched
  <1>3. \A q : q \in R <=> \E p \in plans : \E k \in Wanted(p) : q = Request(p, k)
    BY <1>1
  <1> HIDE DEF R
  <1>4. \A q \in R : Found(store, q)
    BY <1>2, <1>3
  <1>5. {Fetched(q) : q \in R} = FetchedNodes(store, plans)
    <2>1. \A n : n \in FetchedNodes(store, plans) <=>
                    \E p \in plans : \E k \in Wanted(p) : n = FetchedNode(store, p, k)
      BY DEF FetchedNodes
    <2>2. ASSUME NEW q \in R
          PROVE  Fetched(q) \in FetchedNodes(store, plans)
      BY <1>2, <1>3, <2>1
    <2>3. ASSUME NEW n \in FetchedNodes(store, plans)
          PROVE  \E q \in R : n = Fetched(q)
      BY <1>2, <1>3, <2>1
    <2> QED
      BY <2>2, <2>3
  <1>6. FetchProofNodes(store, R) = {{Fetched(q) : q \in R}}
    BY <1>4 DEF FetchProofNodes, Fetched
  <1> QED
    BY <1>5, <1>6 DEF R

\* splitTargetLeaves and BuildProof: one proof, with the digests of the addresses and
\* exactly the nodes of the plan.
LEMMA BuildIs ==
    ASSUME NEW forest, NEW leaves, ForestOver(forest, leaves), NEW digests, CommitsTo(leaves, digests),
           NEW store, NEW addresses, Serves(store, leaves, digests, addresses)
    PROVE  BuildProof(store, addresses) = {ProofBuilt(addresses, store)}
  <1> DEFINE trees == TreesAbove(addresses)
             list(t) == TreeList(leaves, digests, t)
             F(t) == PlanFor(addresses, store, t)
             P == PlanBuilt(addresses, store)
             N == FetchedNodes(store, P.trees)
             T(t) == Targets(addresses, store, t)
             H(t, k) == store.nodes[t][k]
  <1>1. Plan(addresses, store) = {P}
    BY ServedPlan, PlanIs DEF Serves
  <1>2. P.addresses = addresses /\ P.trees = {F(t) : t \in trees}
    BY DEF PlanBuilt
  <1>3. \A t : /\ F(t).tree = t /\ F(t).targets = T(t)
               /\ F(t).required = RequiredAbove(T(t), store.count[t])
    BY DEF PlanFor
  <1>4. /\ GlobalTreeRef \in trees
        /\ \A a \in addresses : SegmentTreeRef(a) \in trees
        /\ \A t \in trees : t[1] = Segment => \E a \in addresses : t = SegmentTreeRef(a)
    BY TreesAboveAre
  <1>5. \A a \in addresses : /\ IsAddress(a)
                             /\ <<0, a[4]>> \in DOMAIN store.nodes[SegmentTreeRef(a)]
    BY DEF Serves, HasRows, HasNodes
  <1>6. \A t \in trees : /\ t \in DOMAIN store.nodes /\ store.count[t] = Len(list(t))
                         /\ F(t).required \subseteq DOMAIN store.nodes[t]
    BY <1>3 DEF Serves, HasRows, HasNodes
  <1>7. \A t \in trees : t[1] = Segment => T(t) = {a[4] : a \in {b \in addresses : SegmentTreeRef(b) = t}}
    BY DEF Targets
  <1>8. \A t \in trees : T(t) \subseteq 0..(Len(list(t)) - 1) /\ Len(list(t)) > 0 /\ IsList(list(t))
    <2>1. \A t \in trees : CanPlan(addresses, store, t)
      BY ServedPlan DEF Serves
    <2>2. \A t \in trees : IsTree(leaves, t)
      BY TreesAreTrees DEF Serves, HasRows, HasNodes
    <2>3. \A t \in trees : IsList(list(t))
      BY <2>2, TreeIsList
    <2> QED
      BY <1>6, <2>1, <2>3 DEF CanPlan
  <1> HIDE DEF trees, list, P, F, T, H
  <1>9. ASSUME NEW t \in trees, NEW i \in T(t)
        PROVE  <<0, i>> \notin F(t).required
    <2>1. i \in Active(T(t), 0)
      <3>1. T(t) \subseteq Nat
        BY <1>8
      <3> QED
        BY <3>1, ActiveUp
    <2> QED
      BY <1>3, <1>6, <1>8, <2>1, WayNotRequired
  <1>10. ASSUME NEW t \in trees, NEW k \in Wanted(F(t))
         PROVE  /\ k \in DOMAIN store.nodes[t]
                /\ k \in F(t).required \/ \E a \in addresses : SegmentTreeRef(a) = t /\ k = <<0, a[4]>>
    <2>1. CASE k \in F(t).required
      BY <1>6, <2>1
    <2>2. CASE k \notin F(t).required
      <3>1. PICK i \in T(t) : k = <<0, i>> /\ t[1] = Segment
        BY <1>3, <2>2 DEF Wanted
      <3>2. PICK a \in addresses : SegmentTreeRef(a) = t /\ i = a[4]
        BY <1>7, <3>1
      <3> QED
        BY <1>5, <3>1, <3>2
    <2> QED
      BY <2>1, <2>2
  <1>11. ASSUME NEW a \in addresses
         PROVE  <<0, a[4]>> \in Wanted(F(SegmentTreeRef(a))) /\ a[4] \in T(SegmentTreeRef(a))
    <2> DEFINE t == SegmentTreeRef(a)
    <2>1. t \in trees /\ t[1] = Segment
      BY <1>4 DEF SegmentTreeRef
    <2> HIDE DEF t
    <2>2. a[4] \in T(t)
      <3>1. a \in {b \in addresses : SegmentTreeRef(b) = t}
        BY DEF t
      <3> QED
        BY <1>7, <2>1, <3>1
    <2> QED
      BY <1>3, <2>1, <2>2 DEF Wanted, t
  <1>12. FetchProofNodes(store, BuildRequests(P.trees)) = {N}
    <2>1. \A p \in P.trees : p.tree \in DOMAIN store.nodes /\ Wanted(p) \subseteq DOMAIN store.nodes[p.tree]
      BY <1>2, <1>3, <1>6, <1>10
    <2> QED
      BY <2>1, FetchIs
  <1>13. \A n : n \in N <=> \E t \in trees : \E k \in Wanted(F(t)) : n = <<t, k, H(t, k)>>
    BY <1>2, <1>3 DEF FetchedNodes, FetchedNode, H
  <1> HIDE DEF N
  <1> DEFINE At(a) == {n \in N : <<n[1], n[2]>> = TargetRef(a)}
  <1>14. ASSUME NEW a \in addresses
         PROVE  At(a) = {<<SegmentTreeRef(a), <<0, a[4]>>, H(SegmentTreeRef(a), <<0, a[4]>>)>>}
    <2> DEFINE s == SegmentTreeRef(a)
               x == <<0, a[4]>>
    <2>1. TargetRef(a) = <<s, x>>
      BY DEF TargetRef
    <2>2. s \in trees /\ x \in Wanted(F(s))
      BY <1>4, <1>11
    <2> HIDE DEF s, x
    <2>3. <<s, x, H(s, x)>> \in N
      BY <1>13, <2>2
    <2>4. ASSUME NEW n \in N, <<n[1], n[2]>> = <<s, x>>
          PROVE  n = <<s, x, H(s, x)>>
      <3>1. PICK t, k : t \in trees /\ k \in Wanted(F(t)) /\ n = <<t, k, H(t, k)>>
        BY <1>13
      <3>2. n[1] = t /\ n[2] = k /\ n[1] = s /\ n[2] = x
        BY <2>4, <3>1
      <3> QED
        BY <3>1, <3>2
    <2>5. <<s, x, H(s, x)>> \in At(a)
      BY <2>1, <2>3
    <2> QED
      BY <2>1, <2>4, <2>5 DEF s, x
  <1>15. UNION {{<<a, n[3]>> : n \in At(a)} : a \in addresses} = ProofBuilt(addresses, store).leaves
    <2> DEFINE L(a) == <<a, H(SegmentTreeRef(a), <<0, a[4]>>)>>
    <2>1. ASSUME NEW a \in addresses
          PROVE  {<<a, n[3]>> : n \in At(a)} = {L(a)}
      <3> DEFINE h == H(SegmentTreeRef(a), <<0, a[4]>>)
                 y == <<SegmentTreeRef(a), <<0, a[4]>>, h>>
      <3>1. At(a) = {y} /\ y[3] = h
        BY <1>14
      <3> HIDE DEF y, h, At
      <3>2. {<<a, n[3]>> : n \in At(a)} = {<<a, h>>}
        BY <3>1
      <3> QED
        BY <3>2 DEF h
    <2> DEFINE S(a) == {<<a, n[3]>> : n \in At(a)}
    <2> HIDE DEF At, L
    <2>2. \A a \in addresses : S(a) = {L(a)}
      BY <2>1
    <2> HIDE DEF S
    <2>3. UNION {S(a) : a \in addresses} = {L(a) : a \in addresses}
      BY <2>2
    <2> QED
      BY <2>3 DEF S, L, ProofBuilt, H
  <1>16. N \ UNION {At(a) : a \in addresses} = ProofBuilt(addresses, store).nodes
    <2> DEFINE rest == N \ UNION {At(a) : a \in addresses}
               nodes == ProofBuilt(addresses, store).nodes
    <2>1. \A n : n \in nodes <=> \E t \in trees : \E k \in F(t).required : n = <<t, k, H(t, k)>>
      <3>1. nodes = UNION {{<<p.tree, k, store.nodes[p.tree][k]>> : k \in p.required} : p \in P.trees}
        BY DEF ProofBuilt, P
      <3> HIDE DEF nodes
      <3> QED
        BY <1>2, <1>3, <3>1 DEF H
    <2>2. ASSUME NEW n \in rest
          PROVE  n \in nodes
      <3>1. PICK t, k : t \in trees /\ k \in Wanted(F(t)) /\ n = <<t, k, H(t, k)>>
        BY <1>13
      <3>2. ASSUME NEW a \in addresses, SegmentTreeRef(a) = t, k = <<0, a[4]>>
            PROVE  FALSE
        <4>1. <<n[1], n[2]>> = TargetRef(a)
          BY <3>1, <3>2 DEF TargetRef
        <4>2. n \in At(a)
          BY <4>1
        <4> QED
          BY <4>2
      <3>3. k \in F(t).required
        BY <1>10, <3>1, <3>2
      <3> QED
        BY <2>1, <3>1, <3>3
    <2>3. ASSUME NEW n \in nodes
          PROVE  n \in rest
      <3>1. PICK t, k : t \in trees /\ k \in F(t).required /\ n = <<t, k, H(t, k)>>
        BY <2>1
      <3>2. n \in N
        BY <1>13, <3>1 DEF Wanted
      <3>3. ASSUME NEW a \in addresses, n \in At(a)
            PROVE  FALSE
        <4>1. n[1] = t /\ n[2] = k
          BY <3>1
        <4>2. <<n[1], n[2]>> = <<SegmentTreeRef(a), <<0, a[4]>>>>
          BY <3>3 DEF TargetRef
        <4>3. t = SegmentTreeRef(a) /\ k = <<0, a[4]>>
          BY <4>1, <4>2
        <4> QED
          BY <1>9, <1>11, <3>1, <4>3
      <3> QED
        BY <3>2, <3>3
    <2> QED
      BY <2>2, <2>3
  <1>17. SplitTargetLeaves(P, N) = ProofBuilt(addresses, store)
    <2>1. SplitTargetLeaves(P, N) =
            [plan |-> P, leaves |-> UNION {{<<a, n[3]>> : n \in At(a)} : a \in addresses},
             nodes |-> N \ UNION {At(a) : a \in addresses}]
      BY <1>2 DEF SplitTargetLeaves
    <2>2. ProofBuilt(addresses, store) = [plan |-> P, leaves |-> ProofBuilt(addresses, store).leaves,
                                          nodes |-> ProofBuilt(addresses, store).nodes]
      BY DEF ProofBuilt, P
    <2> QED
      BY <1>15, <1>16, <2>1, <2>2
  <1> QED
    BY <1>1, <1>12, <1>17 DEF BuildProof

\* The proof that is built is well formed.
LEMMA BuiltIsWellFormed ==
    ASSUME NEW addresses, NEW store, MetadataSuffices(addresses, store),
           \A t \in TreesAbove(addresses) : CanPlan(addresses, store, t)
    PROVE  WellFormed(ProofBuilt(addresses, store), addresses)
  <1> DEFINE trees == TreesAbove(addresses)
             below == trees \ {GlobalTreeRef}
             proof == ProofBuilt(addresses, store)
             F(t) == PlanFor(addresses, store, t)
             K(t) == LinkFor(store, t)
             T(t) == Targets(addresses, store, t)
             L(a) == <<a, store.nodes[SegmentTreeRef(a)][<<0, a[4]>>]>>
             M(t, k) == <<t, k, store.nodes[t][k]>>
  <1>1. /\ proof.plan.addresses = addresses
        /\ proof.plan.trees = {F(t) : t \in trees}
        /\ proof.plan.links = {K(t) : t \in below}
        /\ proof.leaves = {L(a) : a \in addresses}
        /\ proof.nodes = UNION {{M(p.tree, k) : k \in p.required} : p \in proof.plan.trees}
    BY DEF ProofBuilt, PlanBuilt
  <1>2. \A t : /\ F(t).tree = t /\ F(t).targets = T(t) /\ F(t).leafCount = store.count[t]
               /\ F(t).required = RequiredAbove(T(t), store.count[t])
               /\ F(t) = [tree |-> t, leafCount |-> store.count[t], targets |-> T(t),
                          required |-> RequiredAbove(T(t), store.count[t])]
    BY DEF PlanFor
  <1>3. \A t : K(t).child = t /\ K(t).parent = ParentTree(t) /\ K(t).index = store.index[t]
    BY DEF LinkFor
  <1>4. /\ \A a : L(a)[1] = a
        /\ \A t, k : M(t, k)[1] = t /\ M(t, k)[2] = k
    OBVIOUS
  <1>5. /\ GlobalTreeRef \in trees
        /\ \A a \in addresses : SegmentTreeRef(a) \in trees
        /\ \A t \in trees : IsTreeRef(t)
        /\ \A t \in trees : t # GlobalTreeRef => t[1] \in {Segment, Shard, Region} /\ ParentTree(t) \in trees
    BY TreesAboveAre
  <1>6. \A t \in trees : T(t) = IF t[1] = Segment
                                THEN {a[4] : a \in {b \in addresses : SegmentTreeRef(b) = t}}
                                ELSE {store.index[u] : u \in {v \in below : ParentTree(v) = t}}
    BY DEF Targets
  <1>7. \A t \in trees : F(t) \in PlanTree(t, store.count[t], T(t))
    BY <1>2 DEF PlanTree, CanPlan
  <1>8. \A t \in below, u \in below : ParentTree(t) = ParentTree(u) /\ store.index[t] = store.index[u] => t = u
    BY DEF MetadataSuffices
  <1> HIDE DEF trees, proof, F, K, T, L, M
  <1>9. ValidProofLeaves(proof, addresses)
    <2>1. \A l, k \in proof.leaves : l[1] = k[1] => l = k
      BY <1>1, <1>4
    <2>2. {l[1] : l \in proof.leaves} = addresses
      <3>1. \A l \in proof.leaves : l[1] \in addresses
        BY <1>1, <1>4
      <3>2. \A a \in addresses : L(a) \in proof.leaves
        BY <1>1
      <3> QED
        BY <1>4, <3>1, <3>2
    <2> QED
      BY <1>1, <2>1, <2>2 DEF ValidProofLeaves
  <1>10. ValidPlansAndNodes(proof)
    <2>1. \A p, q \in proof.plan.trees : p.tree = q.tree => p = q
      BY <1>1, <1>2
    <2>2. \A p \in proof.plan.trees : ValidTreePlanShape(p)
      BY <1>1, <1>2, <1>7 DEF ValidTreePlanShape
    <2>3. \A n : n \in proof.nodes <=> \E p \in proof.plan.trees : \E k \in p.required : n = M(p.tree, k)
      BY <1>1
    <2>4. \A n, k \in proof.nodes : <<n[1], n[2]>> = <<k[1], k[2]>> => n = k
      <3> SUFFICES ASSUME NEW n \in proof.nodes, NEW k \in proof.nodes, n[1] = k[1] /\ n[2] = k[2]
                   PROVE  n = k
        OBVIOUS
      <3>1. PICK t, x : n = M(t, x)
        BY <2>3
      <3>2. PICK u, y : k = M(u, y)
        BY <2>3
      <3> QED
        BY <1>4, <3>1, <3>2
    <2>5. {<<n[1], n[2]>> : n \in proof.nodes} = UNION {{<<p.tree, r>> : r \in p.required} : p \in proof.plan.trees}
      <3> DEFINE W == UNION {{<<p.tree, r>> : r \in p.required} : p \in proof.plan.trees}
      <3>1. \A w : w \in W <=> \E p \in proof.plan.trees : \E r \in p.required : w = <<p.tree, r>>
        OBVIOUS
      <3> HIDE DEF W
      <3>2. ASSUME NEW n \in proof.nodes
            PROVE  <<n[1], n[2]>> \in W
        <4>1. PICK p \in proof.plan.trees : \E k \in p.required : n = M(p.tree, k)
          BY <2>3
        <4>2. PICK k \in p.required : n = M(p.tree, k)
          BY <4>1
        <4> QED
          BY <1>4, <3>1, <4>2
      <3>3. ASSUME NEW w \in W
            PROVE  \E n \in proof.nodes : w = <<n[1], n[2]>>
        <4>1. PICK p \in proof.plan.trees : \E r \in p.required : w = <<p.tree, r>>
          BY <3>1
        <4>2. PICK r \in p.required : w = <<p.tree, r>>
          BY <4>1
        <4>3. M(p.tree, r) \in proof.nodes
          BY <2>3
        <4> QED
          BY <1>4, <4>2, <4>3
      <3>4. {<<n[1], n[2]>> : n \in proof.nodes} = W
        BY <3>2, <3>3
      <3> QED
        BY <3>4 DEF W
    <2> QED
      BY <2>1, <2>2, <2>4, <2>5 DEF ValidPlansAndNodes
  <1>11. {p.tree : p \in proof.plan.trees} = trees
    BY <1>1, <1>2
  <1>12. ValidLinks(proof)
    <2>1. ASSUME NEW l \in proof.plan.links
          PROVE  /\ {l.child, l.parent} \subseteq trees
                 /\ l.child[1] \in Segment..Region /\ l.parent = ParentTree(l.child)
      <3>1. PICK t \in below : l = K(t)
        BY <1>1
      <3>2. l.child = t /\ l.parent = ParentTree(t)
        BY <1>3, <3>1
      <3>3. t \in trees /\ ParentTree(t) \in trees /\ t[1] \in {Segment, Shard, Region}
        BY <1>5
      <3> QED
        BY <3>2, <3>3, LayersAre
    <2>2. ASSUME NEW l \in proof.plan.links, NEW k \in proof.plan.links,
                 l # k
          PROVE  l.child # k.child /\ <<l.parent, l.index>> # <<k.parent, k.index>>
      <3>1. PICK t \in below : l = K(t)
        BY <1>1
      <3>2. PICK u \in below : k = K(u)
        BY <1>1
      <3>3. t # u
        BY <2>2, <3>1, <3>2
      <3>4. ASSUME l.parent = k.parent, l.index = k.index
            PROVE  FALSE
        BY <1>3, <1>8, <3>1, <3>2, <3>3, <3>4
      <3> QED
        BY <1>3, <3>1, <3>2, <3>3, <3>4
    <2>3. ASSUME NEW t \in trees
          PROVE  IF t[1] = Global THEN t = GlobalTreeRef ELSE \E l \in proof.plan.links : l.child = t
      <3>1. CASE t = GlobalTreeRef
        BY <3>1, LayersAre
      <3>2. CASE t # GlobalTreeRef
        <4>1. t[1] # Global
          BY <1>5, <3>2, LayersAre
        <4>2. K(t) \in proof.plan.links
          BY <1>1, <3>2
        <4> QED
          BY <1>3, <4>1, <4>2
      <3> QED
        BY <3>1, <3>2
    <2> QED
      BY <1>5, <1>11, <2>1, <2>2, <2>3 DEF ValidLinks
  <1>13. ASSUME NEW p \in proof.plan.trees
         PROVE  p.targets = IF p.tree[1] = Segment
                            THEN {l[1][4] : l \in {k \in proof.leaves : SegmentTreeRef(k[1]) = p.tree}}
                            ELSE {l.index : l \in {k \in proof.plan.links : k.parent = p.tree}}
    <2>1. PICK t \in trees : p.tree = t /\ p.targets = T(t)
      BY <1>1, <1>2
    <2>2. {a[4] : a \in {b \in addresses : SegmentTreeRef(b) = t}}
            = {l[1][4] : l \in {k \in proof.leaves : SegmentTreeRef(k[1]) = t}}
      <3>1. \A l : l \in proof.leaves <=> \E a \in addresses : l = L(a)
        BY <1>1
      <3>2. ASSUME NEW a \in addresses, SegmentTreeRef(a) = t
            PROVE  \E l \in {k \in proof.leaves : SegmentTreeRef(k[1]) = t} : a[4] = l[1][4]
        BY <1>4, <3>1, <3>2
      <3>3. ASSUME NEW l \in proof.leaves, SegmentTreeRef(l[1]) = t
            PROVE  \E a \in {b \in addresses : SegmentTreeRef(b) = t} : l[1][4] = a[4]
        BY <1>4, <3>1, <3>3
      <3> QED
        BY <3>2, <3>3
    <2>3. {store.index[u] : u \in {v \in below : ParentTree(v) = t}}
            = {l.index : l \in {k \in proof.plan.links : k.parent = t}}
      <3>1. \A l : l \in proof.plan.links <=> \E u \in below : l = K(u)
        BY <1>1
      <3> HIDE DEF below
      <3>2. ASSUME NEW u \in below, ParentTree(u) = t
            PROVE  \E l \in {k \in proof.plan.links : k.parent = t} : store.index[u] = l.index
        BY <1>3, <3>1, <3>2
      <3>3. ASSUME NEW l \in proof.plan.links, l.parent = t
            PROVE  \E u \in {v \in below : ParentTree(v) = t} : l.index = store.index[u]
        BY <1>3, <3>1, <3>3
      <3> QED
        BY <3>2, <3>3
    <2> QED
      BY <1>6, <2>1, <2>2, <2>3
  <1>14. ValidTargets(proof)
    BY <1>13 DEF ValidTargets
  <1> QED
    BY <1>9, <1>10, <1>12, <1>14 DEF WellFormed, proof

\* ... and of the forest.
LEMMA BuiltIsOfForest ==
    ASSUME NEW leaves, NEW digests, NEW store, NEW addresses, Serves(store, leaves, digests, addresses),
           \A t \in TreesAbove(addresses) : IsTree(leaves, t)
    PROVE  OfForest(ProofBuilt(addresses, store), leaves, digests)
  <1> DEFINE trees == TreesAbove(addresses)
             proof == ProofBuilt(addresses, store)
             list(t) == TreeList(leaves, digests, t)
             F(t) == PlanFor(addresses, store, t)
             K(t) == LinkFor(store, t)
             L(a) == <<a, store.nodes[SegmentTreeRef(a)][<<0, a[4]>>]>>
             M(t, k) == <<t, k, store.nodes[t][k]>>
  <1>1. /\ proof.plan.trees = {F(t) : t \in trees}
        /\ proof.plan.links = {K(t) : t \in trees \ {GlobalTreeRef}}
        /\ proof.leaves = {L(a) : a \in addresses}
        /\ proof.nodes = UNION {{M(p.tree, k) : k \in p.required} : p \in proof.plan.trees}
    BY DEF ProofBuilt, PlanBuilt
  <1>2. \A t : /\ F(t).tree = t /\ F(t).leafCount = store.count[t]
               /\ F(t).required = RequiredAbove(Targets(addresses, store, t), store.count[t])
    BY DEF PlanFor
  <1>3. \A t : K(t).child = t /\ K(t).index = store.index[t]
    BY DEF LinkFor
  <1>4. \A t \in trees : /\ store.count[t] = Len(list(t))
                         /\ t # GlobalTreeRef => store.index[t] = LeafIndex(t)
                         /\ \A k \in F(t).required : store.nodes[t][k] = NodeOf(list(t), k)
    BY <1>2 DEF Serves, HasRows, HasNodes
  <1>5. \A a \in addresses : store.nodes[SegmentTreeRef(a)][<<0, a[4]>>] = DigestAt(digests, a)
    BY DEF Serves, HasRows, HasNodes
  <1> HIDE DEF proof, F, K, trees
  <1>6. ASSUME NEW p \in proof.plan.trees
        PROVE  /\ IsTree(leaves, p.tree) /\ p.leafCount = Len(list(p.tree))
               /\ \A n \in proof.nodes : n[1] = p.tree => n[3] = NodeOf(list(p.tree), n[2])
    <2>1. PICK t \in trees : p = F(t)
      BY <1>1
    <2>2. p.tree = t /\ p.leafCount = Len(list(t))
      BY <1>2, <1>4, <2>1
    <2>3. ASSUME NEW n \in proof.nodes, n[1] = t
          PROVE  n[3] = NodeOf(list(t), n[2])
      <3>1. PICK q \in proof.plan.trees : \E k \in q.required : n = M(q.tree, k)
        <4> HIDE DEF M
        <4> QED
          BY <1>1
      <3>2. PICK k \in q.required : n = M(q.tree, k)
        BY <3>1
      <3>3. PICK u \in trees : q = F(u)
        BY <1>1
      <3>4. n[1] = u /\ n[2] = k /\ n[3] = store.nodes[u][k]
        BY <1>2, <3>2, <3>3
      <3>5. k \in F(t).required /\ u = t
        BY <2>3, <3>3, <3>4
      <3> HIDE DEF list
      <3> QED
        BY <1>4, <3>4, <3>5
    <2> QED
      BY <2>2, <2>3 DEF trees
  <1>7. ASSUME NEW l \in proof.plan.links
        PROVE  l.index = LeafIndex(l.child)
    BY <1>1, <1>3, <1>4
  <1>8. ASSUME NEW l \in proof.leaves
        PROVE  l[2] = DigestAt(digests, l[1])
    <2>1. PICK a \in addresses : l = L(a)
      BY <1>1
    <2>2. l[1] = a /\ l[2] = store.nodes[SegmentTreeRef(a)][<<0, a[4]>>]
      BY <2>1
    <2> QED
      BY <1>5, <2>2
  <1> QED
    BY <1>6, <1>7, <1>8 DEF OfForest, NodeOf, proof

\* A list of leaves and of nodes, as pairs and triples.
IsProofRecord(q) ==
    /\ q = [plan |-> q.plan, leaves |-> q.leaves, nodes |-> q.nodes]
    /\ \A l \in q.leaves : l = <<l[1], l[2]>>
    /\ \A n \in q.nodes : n = <<n[1], n[2], n[3]>>

\* No other proof is accepted: whatever metadata the plan was made from and whatever
\* hashes were put in, it is the one that BuildProof builds.
LEMMA OfForestIsBuilt ==
    ASSUME NEW leaves, NEW digests, NEW store, NEW addresses, Serves(store, leaves, digests, addresses),
           NEW other, NEW q, IsProofRecord(q), q.plan = PlanBuilt(addresses, other), WellFormed(q, addresses),
           OfForest(q, leaves, digests)
    PROVE  q = ProofBuilt(addresses, store)
  <1> DEFINE trees == TreesAbove(addresses)
             below == trees \ {GlobalTreeRef}
             proof == ProofBuilt(addresses, store)
             list(t) == TreeList(leaves, digests, t)
             F(t) == PlanFor(addresses, store, t)
             G(t) == PlanFor(addresses, other, t)
             K(t) == LinkFor(store, t)
             J(t) == LinkFor(other, t)
             H(t, k) == store.nodes[t][k]
             L(a) == <<a, H(SegmentTreeRef(a), <<0, a[4]>>)>>
             M(t, k) == <<t, k, H(t, k)>>
  <1>1. /\ q.plan = [addresses |-> addresses, trees |-> {G(t) : t \in trees}, links |-> {J(t) : t \in below}]
        /\ q.plan.trees = {G(t) : t \in trees} /\ q.plan.links = {J(t) : t \in below}
    BY DEF PlanBuilt
  <1>2. /\ proof = [plan |-> proof.plan, leaves |-> proof.leaves, nodes |-> proof.nodes]
        /\ proof.plan = [addresses |-> addresses, trees |-> {F(t) : t \in trees}, links |-> {K(t) : t \in below}]
        /\ proof.plan.trees = {F(t) : t \in trees}
        /\ proof.leaves = {L(a) : a \in addresses}
        /\ proof.nodes = UNION {{M(p.tree, k) : k \in p.required} : p \in proof.plan.trees}
    BY DEF ProofBuilt, PlanBuilt
  <1>3. /\ \A t : G(t).tree = t /\ G(t).leafCount = other.count[t]
        /\ \A t : F(t).tree = t /\ F(t).required = RequiredAbove(Targets(addresses, store, t), store.count[t])
        /\ \A t : J(t).child = t /\ J(t).index = other.index[t]
    BY DEF PlanFor, LinkFor
  <1>4. /\ \A t \in trees : /\ store.count[t] = Len(list(t))
                            /\ t # GlobalTreeRef => store.index[t] = LeafIndex(t)
                            /\ \A k \in F(t).required : H(t, k) = NodeOf(list(t), k)
        /\ \A a \in addresses : H(SegmentTreeRef(a), <<0, a[4]>>) = DigestAt(digests, a)
    BY <1>3 DEF Serves, HasRows, HasNodes
  <1>5. \A a \in addresses : SegmentTreeRef(a) \in trees
    BY TreesAboveAre
  <1>6. \A t \in trees : Targets(addresses, other, t) =
                             IF t[1] = Segment THEN {a[4] : a \in {b \in addresses : SegmentTreeRef(b) = t}}
                             ELSE {other.index[u] : u \in {v \in below : ParentTree(v) = t}}
    BY DEF Targets
  <1>7. \A t \in trees : Targets(addresses, store, t) =
                             IF t[1] = Segment THEN {a[4] : a \in {b \in addresses : SegmentTreeRef(b) = t}}
                             ELSE {store.index[u] : u \in {v \in below : ParentTree(v) = t}}
    BY DEF Targets
  <1> HIDE DEF trees, proof, F, G, K, J, H, list
  <1>8. /\ \A p \in q.plan.trees : p.leafCount = Len(list(p.tree))
        /\ \A p \in q.plan.trees : \A n \in q.nodes : n[1] = p.tree => n[3] = NodeOf(list(p.tree), n[2])
        /\ \A l \in q.plan.links : l.index = LeafIndex(l.child)
        /\ \A l \in q.leaves : SegmentTreeRef(l[1]) \in TreesOf(q) => l[2] = DigestAt(digests, l[1])
    BY DEF OfForest, NodeOf, list
  <1>9. \A t \in trees : other.count[t] = store.count[t]
    BY <1>1, <1>3, <1>4, <1>8
  <1>10. \A t \in below : other.index[t] = store.index[t]
    BY <1>1, <1>3, <1>4, <1>8
  <1>11. \A t \in trees : Targets(addresses, other, t) = Targets(addresses, store, t)
    <2> SUFFICES ASSUME NEW t \in trees, t[1] # Segment
                 PROVE  {other.index[u] : u \in {v \in below : ParentTree(v) = t}}
                          = {store.index[u] : u \in {v \in below : ParentTree(v) = t}}
      BY <1>6, <1>7
    <2> HIDE DEF below
    <2> QED
      BY <1>10
  <1>12. \A t \in trees : G(t) = F(t)
    BY <1>9, <1>11 DEF PlanFor, G, F
  <1>13. \A t \in below : J(t) = K(t)
    BY <1>10 DEF LinkFor, J, K
  <1>14. q.plan = proof.plan
    <2>1. {G(t) : t \in trees} = {F(t) : t \in trees}
      BY <1>12
    <2>2. {J(t) : t \in below} = {K(t) : t \in below}
      <3> HIDE DEF below
      <3> QED
        BY <1>13
    <2> QED
      BY <1>1, <1>2, <2>1, <2>2
  <1>15. q.leaves = proof.leaves
    <2>1. \A l \in q.leaves : l = <<l[1], l[2]>> /\ l[1] \in addresses
      BY DEF IsProofRecord, WellFormed, ValidProofLeaves
    <2>2. \A a \in addresses : \E l \in q.leaves : l[1] = a
      <3>1. {l[1] : l \in q.leaves} = addresses
        BY DEF WellFormed, ValidProofLeaves
      <3> QED
        BY <3>1
    <2>3. TreesOf(q) = trees
      BY <1>1, <1>3 DEF TreesOf
    <2>4. ASSUME NEW l \in q.leaves
          PROVE  l = L(l[1])
      <3>1. l[2] = H(SegmentTreeRef(l[1]), <<0, l[1][4]>>)
        BY <1>4, <1>5, <1>8, <2>1, <2>3
      <3> QED
        BY <2>1, <3>1
    <2> HIDE DEF L
    <2>5. q.leaves = {L(a) : a \in addresses}
      BY <2>1, <2>2, <2>4
    <2> QED
      BY <1>2, <2>5 DEF L
  <1>16. q.nodes = proof.nodes
    <2>1. {<<n[1], n[2]>> : n \in q.nodes} = UNION {{<<p.tree, r>> : r \in p.required} : p \in q.plan.trees}
      BY DEF WellFormed, ValidPlansAndNodes
    <2>2. \A n : n \in proof.nodes <=> \E p \in q.plan.trees : \E k \in p.required : n = M(p.tree, k)
      <3> HIDE DEF M
      <3>1. q.plan.trees = proof.plan.trees
        BY <1>14
      <3>2. \A n : n \in proof.nodes <=> \E p \in proof.plan.trees : \E k \in p.required : n = M(p.tree, k)
        <4>1. proof.nodes = UNION {{M(p.tree, k) : k \in p.required} : p \in proof.plan.trees}
          BY <1>2
        <4> QED
          BY <4>1
      <3> QED
        BY <3>1, <3>2
    <2>3. ASSUME NEW p \in q.plan.trees, NEW k \in p.required
          PROVE  H(p.tree, k) = NodeOf(list(p.tree), k)
      <3>1. PICK t \in trees : p = F(t)
        BY <1>2, <1>14
      <3> QED
        BY <1>3, <1>4, <3>1
    <2>4. ASSUME NEW n \in q.nodes
          PROVE  n \in proof.nodes
      <3>1. PICK p \in q.plan.trees : \E k \in p.required : <<n[1], n[2]>> = <<p.tree, k>>
        <4>1. <<n[1], n[2]>> \in UNION {{<<p.tree, r>> : r \in p.required} : p \in q.plan.trees}
          BY <2>1
        <4> QED
          BY <4>1
      <3>2. PICK k \in p.required : <<n[1], n[2]>> = <<p.tree, k>>
        BY <3>1
      <3>3. n[1] = p.tree /\ n[2] = k
        BY <3>2
      <3>4. n[3] = H(p.tree, k)
        BY <1>8, <2>3, <3>3
      <3>5. n = <<n[1], n[2], n[3]>>
        BY DEF IsProofRecord
      <3>6. n = M(p.tree, k)
        BY <3>3, <3>4, <3>5
      <3> QED
        BY <2>2, <3>6
    <2>5. ASSUME NEW n \in proof.nodes
          PROVE  n \in q.nodes
      <3>1. PICK p \in q.plan.trees : \E k \in p.required : n = M(p.tree, k)
        BY <2>2
      <3>2. PICK k \in p.required : n = M(p.tree, k)
        BY <3>1
      <3>3. <<p.tree, k>> \in UNION {{<<r.tree, x>> : x \in r.required} : r \in q.plan.trees}
        OBVIOUS
      <3>4. PICK m \in q.nodes : <<p.tree, k>> = <<m[1], m[2]>>
        BY <2>1, <3>3
      <3>5. m[1] = p.tree /\ m[2] = k
        BY <3>4
      <3>6. m[3] = H(p.tree, k)
        BY <1>8, <2>3, <3>5
      <3>7. m = <<m[1], m[2], m[3]>>
        BY DEF IsProofRecord
      <3> QED
        BY <3>2, <3>5, <3>6, <3>7
    <2> QED
      BY <2>4, <2>5
  <1>17. q = [plan |-> q.plan, leaves |-> q.leaves, nodes |-> q.nodes]
    BY DEF IsProofRecord
  <1> QED
    BY <1>2, <1>14, <1>15, <1>16, <1>17 DEF proof

\* A plan and its parent links, as records.
IsPlanRecord(plan) ==
    /\ plan = [addresses |-> plan.addresses, trees |-> plan.trees, links |-> plan.links]
    /\ \A l \in plan.links : l = [child |-> l.child, parent |-> l.parent, index |-> l.index]

\* The trees of a well-formed proof that has a plan for the segment of every address are
\* those above the addresses.
LEMMA WellFormedTrees ==
    ASSUME NEW q, NEW addresses, \A a \in addresses : IsAddress(a), WellFormed(q, addresses),
           \A a \in addresses : SegmentTreeRef(a) \in TreesOf(q)
    PROVE  TreesOf(q) = TreesAbove(addresses)
  <1> DEFINE segments == {SegmentTreeRef(a) : a \in addresses}
             shards == {ParentTree(t) : t \in segments}
             regions == {ParentTree(t) : t \in shards}
             links == q.plan.links
  <1>1. TreesAbove(addresses) = segments \cup shards \cup regions \cup {GlobalTreeRef}
    BY DEF TreesAbove
  <1>2. /\ \A l \in links : /\ l.child \in TreesOf(q) /\ l.parent \in TreesOf(q)
                            /\ l.child[1] \in Segment..Region /\ l.parent = ParentTree(l.child)
        /\ \A t \in TreesOf(q) : t[1] # Global => \E l \in links : l.child = t
        /\ \A t \in TreesOf(q) : t[1] = Global => t = GlobalTreeRef
        /\ GlobalTreeRef \in TreesOf(q)
    BY DEF WellFormed, ValidLinks, TreesOf
  <1>3. \A t \in TreesOf(q) : /\ IsTreeRef(t)
                              /\ t[1] = Segment => \E a \in addresses : t = SegmentTreeRef(a)
                              /\ t[1] # Segment => \E l \in links : l.parent = t
    <2> SUFFICES ASSUME NEW p \in q.plan.trees
                 PROVE  /\ IsTreeRef(p.tree)
                        /\ p.tree[1] = Segment => \E a \in addresses : p.tree = SegmentTreeRef(a)
                        /\ p.tree[1] # Segment => \E l \in links : l.parent = p.tree
      BY DEF TreesOf
    <2> HIDE DEF IsAddress
    <2>1. p.targets # {}
      BY StartsAreTargets
    <2>2. p.tree[1] # Segment => p.targets = {l.index : l \in {k \in links : k.parent = p.tree}}
      BY DEF WellFormed, ValidTargets
    <2>3. p.tree[1] # Segment => \E l \in links : l.parent = p.tree
      BY <2>1, <2>2
    <2> QED
      BY <2>3, TreeRefsAre
  <1>4. \A t \in TreesOf(q) : t[1] \in {Segment, Shard, Region} => ParentTree(t) \in TreesOf(q)
    <2> SUFFICES ASSUME NEW t \in TreesOf(q), t[1] \in {Segment, Shard, Region}
                 PROVE  ParentTree(t) \in TreesOf(q)
      OBVIOUS
    <2>1. PICK l \in links : l.child = t
      BY <1>2, LayersAre
    <2> QED
      BY <1>2, <2>1
  <1>5. \A a \in addresses : SegmentTreeRef(a)[1] = Segment
    BY DEF SegmentTreeRef
  <1>6. segments \subseteq TreesOf(q) /\ \A t \in segments : t[1] = Segment
    BY <1>5
  <1> HIDE DEF segments
  <1>7. shards \subseteq TreesOf(q) /\ \A t \in shards : t[1] = Shard
    BY <1>4, <1>6, LayersAre
  <1> HIDE DEF shards
  <1>8. regions \subseteq TreesOf(q)
    BY <1>4, <1>7
  <1> HIDE DEF regions, links
  <1>9. ASSUME NEW t \in TreesOf(q), t[1] = Segment
        PROVE  t \in segments
    BY <1>3, <1>9 DEF segments
  <1>10. ASSUME NEW t \in TreesOf(q), t[1] = Shard
         PROVE  t \in shards
    <2>1. PICK l \in links : l.parent = t
      BY <1>3, <1>10, LayersAre
    <2>2. l.child \in TreesOf(q) /\ l.child[1] \in {Segment, Shard, Region} /\ ParentTree(l.child) = t
      BY <1>2, <2>1, LayersAre
    <2>3. l.child[1] = Segment
      BY <1>10, <2>2, LayersAre
    <2>4. l.child \in segments
      BY <1>9, <2>2, <2>3
    <2> QED
      BY <2>2, <2>4 DEF shards
  <1>11. ASSUME NEW t \in TreesOf(q), t[1] = Region
         PROVE  t \in regions
    <2>1. PICK l \in links : l.parent = t
      BY <1>3, <1>11, LayersAre
    <2>2. l.child \in TreesOf(q) /\ l.child[1] \in {Segment, Shard, Region} /\ ParentTree(l.child) = t
      BY <1>2, <2>1, LayersAre
    <2>3. l.child[1] = Shard
      BY <1>11, <2>2, LayersAre
    <2>4. l.child \in shards
      BY <1>10, <2>2, <2>3
    <2> QED
      BY <2>2, <2>4 DEF regions
  <1>12. \A t \in TreesOf(q) : t \in segments \cup shards \cup regions \cup {GlobalTreeRef}
    BY <1>2, <1>3, <1>9, <1>10, <1>11 DEF IsTreeRef
  <1> QED
    BY <1>1, <1>2, <1>6, <1>7, <1>8, <1>12

\* validateTreePlanShape and validateTargets: the plan of such a proof is one that
\* Planner.Plan makes, from whatever metadata.
LEMMA WellFormedIsPlanned ==
    ASSUME NEW q, IsPlanRecord(q.plan), NEW addresses, \A a \in addresses : IsAddress(a),
           WellFormed(q, addresses), \A a \in addresses : SegmentTreeRef(a) \in TreesOf(q)
    PROVE  \E other : q.plan = PlanBuilt(addresses, other)
  <1> DEFINE trees == TreesAbove(addresses)
             below == trees \ {GlobalTreeRef}
             P == q.plan.trees
             K == q.plan.links
             PlanOf(t) == CHOOSE p \in P : p.tree = t
             LinkOf(t) == CHOOSE l \in K : l.child = t
             other == [count |-> [t \in trees |-> PlanOf(t).leafCount], index |-> [t \in trees |-> LinkOf(t).index]]
             F(t) == PlanFor(addresses, other, t)
             J(t) == LinkFor(other, t)
  <1>1. TreesOf(q) = trees
    <2> HIDE DEF IsAddress
    <2> QED
      BY WellFormedTrees
  <1>2. \A t \in trees : other.count[t] = PlanOf(t).leafCount /\ other.index[t] = LinkOf(t).index
    OBVIOUS
  <1>3. /\ \A t \in trees : \E p \in P : p.tree = t
        /\ \A p \in P : p.tree \in trees
        /\ \A p, x \in P : p.tree = x.tree => p = x
    BY <1>1 DEF TreesOf, WellFormed, ValidPlansAndNodes
  <1>4. /\ \A l \in K : l.child \in below /\ l.parent = ParentTree(l.child)
        /\ \A t \in below : \E l \in K : l.child = t
        /\ \A l, k \in K : l.child = k.child => l = k
    <2>1. /\ \A l \in K : /\ l.child \in TreesOf(q) /\ l.child[1] \in Segment..Region
                          /\ l.parent = ParentTree(l.child)
          /\ \A t \in TreesOf(q) : t[1] # Global => \E l \in K : l.child = t
          /\ \A t \in TreesOf(q) : t[1] = Global => t = GlobalTreeRef
          /\ \A l, k \in K : l # k => l.child # k.child
      BY DEF WellFormed, ValidLinks, TreesOf
    <2> QED
      BY <1>1, <2>1, LayersAre
  <1>5. \A p \in P : PlanOf(p.tree) = p
    BY <1>3
  <1>6. \A l \in K : LinkOf(l.child) = l
    BY <1>4
  <1>7. \A p \in P : other.count[p.tree] = p.leafCount
    BY <1>2, <1>3, <1>5
  <1>8. \A l \in K : other.index[l.child] = l.index
    BY <1>2, <1>4, <1>6
  <1> HIDE DEF other, PlanOf, LinkOf, trees, P, K
  <1>9. ASSUME NEW p \in P
        PROVE  Targets(addresses, other, p.tree) = p.targets
    <2>1. p.targets = IF p.tree[1] = Segment
                      THEN {l[1][4] : l \in {k \in q.leaves : SegmentTreeRef(k[1]) = p.tree}}
                      ELSE {l.index : l \in {k \in K : k.parent = p.tree}}
      BY DEF WellFormed, ValidTargets, P, K
    <2>2. Targets(addresses, other, p.tree) =
              IF p.tree[1] = Segment
              THEN {a[4] : a \in {b \in addresses : SegmentTreeRef(b) = p.tree}}
              ELSE {other.index[u] : u \in {v \in below : ParentTree(v) = p.tree}}
      BY DEF Targets, trees
    <2>3. {a[4] : a \in {b \in addresses : SegmentTreeRef(b) = p.tree}}
            = {l[1][4] : l \in {k \in q.leaves : SegmentTreeRef(k[1]) = p.tree}}
      <3>1. {l[1] : l \in q.leaves} = addresses
        BY DEF WellFormed, ValidProofLeaves
      <3>2. ASSUME NEW a \in addresses, SegmentTreeRef(a) = p.tree
            PROVE  \E l \in {k \in q.leaves : SegmentTreeRef(k[1]) = p.tree} : a[4] = l[1][4]
        <4>1. PICK l \in q.leaves : l[1] = a
          BY <3>1
        <4> QED
          BY <3>2, <4>1
      <3>3. ASSUME NEW l \in q.leaves, SegmentTreeRef(l[1]) = p.tree
            PROVE  \E a \in {b \in addresses : SegmentTreeRef(b) = p.tree} : l[1][4] = a[4]
        BY <3>1, <3>3
      <3> QED
        BY <3>2, <3>3
    <2>4. {other.index[u] : u \in {v \in below : ParentTree(v) = p.tree}}
            = {l.index : l \in {k \in K : k.parent = p.tree}}
      <3> HIDE DEF below
      <3>1. ASSUME NEW u \in below, ParentTree(u) = p.tree
            PROVE  \E l \in {k \in K : k.parent = p.tree} : other.index[u] = l.index
        <4>1. PICK l \in K : l.child = u
          BY <1>4
        <4> QED
          BY <1>4, <1>8, <3>1, <4>1
      <3>2. ASSUME NEW l \in K, l.parent = p.tree
            PROVE  \E u \in {v \in below : ParentTree(v) = p.tree} : l.index = other.index[u]
        BY <1>4, <1>8, <3>2
      <3> QED
        BY <3>1, <3>2
    <2> QED
      BY <2>1, <2>2, <2>3, <2>4
  <1>10. ASSUME NEW p \in P
         PROVE  p = F(p.tree)
    <2>1. p \in PlanTree(p.tree, p.leafCount, p.targets)
      BY DEF WellFormed, ValidPlansAndNodes, ValidTreePlanShape, P
    <2>2. p = [tree |-> p.tree, leafCount |-> p.leafCount, targets |-> p.targets,
               required |-> RequiredAbove(p.targets, p.leafCount)]
      BY <2>1 DEF PlanTree
    <2> QED
      BY <1>7, <1>9, <2>2 DEF PlanFor
  <1>11. ASSUME NEW l \in K
         PROVE  l = J(l.child)
    BY <1>4, <1>8 DEF IsPlanRecord, LinkFor, K
  <1> HIDE DEF F, J, below
  <1>12. P = {F(t) : t \in trees}
    BY <1>3, <1>10
  <1>13. K = {J(t) : t \in below}
    BY <1>4, <1>11
  <1>14. q.plan.addresses = addresses
    BY DEF WellFormed, ValidProofLeaves
  <1>15. q.plan = [addresses |-> addresses, trees |-> P, links |-> K]
    BY <1>14 DEF IsPlanRecord, P, K
  <1>16. PlanBuilt(addresses, other) = [addresses |-> addresses, trees |-> {F(t) : t \in trees},
                                        links |-> {J(t) : t \in below}]
    BY DEF PlanBuilt, F, J, trees, below
  <1> QED
    BY <1>12, <1>13, <1>15, <1>16
=============================================================================
