------------------------- MODULE LocalizationProofs -------------------------
(***************************************************************************)
(* What localization finds, for trees of every size: in a tree, exactly    *)
(* the nodes that differ and have nothing below them to compare; in a      *)
(* proof, exactly the hashes that are not the forest's; in a proof with    *)
(* another plan, the leaf counts that differ and nodes that do.            *)
(***************************************************************************)
EXTENDS Localization, HPPProofs

-----------------------------------------------------------------------------
(* The search of one tree *)

Parent(k) == <<k[1] + 1, k[2] \div 2>>

\* The nodes that two traces of a binary tree both have: each but the top one is below
\* another, and one that can be descended from has all that lies below it in both and
\* is equal just when they are.
Both(left, right) == DOMAIN left \cap DOMAIN right
Closed(left, right) ==
    \A k \in Both(left, right) : CanDescend(k, left, right) => ChildrenOf(k, left, right) \subseteq Both(left, right)
Comparable(left, right, height) ==
    /\ height \in Nat /\ Closed(left, right) /\ <<height, 0>> \in Both(left, right)
    /\ \A k \in Both(left, right) :
          /\ k = <<k[1], k[2]>> /\ k[1] \in 0..height /\ k[2] \in Nat
          /\ k[1] = height => k = <<height, 0>>
          /\ k[1] < height => Parent(k) \in Both(left, right) /\ CanDescend(Parent(k), left, right)
          /\ CanDescend(k, left, right) =>
                (left[k] = right[k] <=> \A c \in ChildrenOf(k, left, right) : left[c] = right[c])

\* What the search is to find.
Different(left, right) == {k \in Both(left, right) : left[k] # right[k]}
Ends(left, right) == {k \in Different(left, right) : ~CanDescend(k, left, right)}

\* The nodes from k upwards.
Above(k, e) == <<k[1] + e, Ancestor(k[2], e)>>
PathTo(k, height) == {Above(k, e) : e \in 0..(height - k[1])}

LEMMA SameNodeIs ==
    ASSUME NEW left, NEW right
    PROVE  \A k \in Both(left, right) : ~SameNode(k, left, right) <=> k \in Different(left, right)
  BY DEF SameNode, Different, Both

\* A node that is not the top one is below its parent.
LEMMA ChildOfParent ==
    ASSUME NEW left, NEW right, NEW height, Comparable(left, right, height),
           NEW k \in Both(left, right), k[1] < height
    PROVE  k \in ChildrenOf(Parent(k), left, right) /\ Parent(k)[1] = k[1] + 1 /\ k[1] \in Nat
  <1>1. k = <<k[1], k[2]>> /\ k[1] \in Nat /\ k[2] \in Nat
    BY DEF Comparable
  <1> DEFINE a == k[1]
             b == k[2]
  <1>2. b \in {2 * (b \div 2), 2 * (b \div 2) + 1} /\ (a + 1) - 1 = a
    BY <1>1
  <1>3. Parent(k)[1] = a + 1 /\ Parent(k)[2] = b \div 2
    BY DEF Parent
  <1>4. k = <<(a + 1) - 1, b>>
    BY <1>1, <1>2
  <1> HIDE DEF a, b
  <1>5. k \in {<<(a + 1) - 1, i>> : i \in {2 * (b \div 2), 2 * (b \div 2) + 1}}
    BY <1>2, <1>4
  <1> QED
    BY <1>1, <1>3, <1>5 DEF ChildrenOf, Both, a

\* From a node that differs up to the top all nodes differ.
LEMMA PathDiffers ==
    ASSUME NEW left, NEW right, NEW height, Comparable(left, right, height),
           NEW k \in Different(left, right)
    PROVE  /\ <<height, 0>> \in PathTo(k, height)
           /\ PathTo(k, height) \subseteq Different(left, right)
           /\ \A p \in PathTo(k, height) : p = k \/ \E c \in PathTo(k, height) :
                 CanDescend(p, left, right) /\ c \in ChildrenOf(p, left, right)
  <1> DEFINE a == k[1]
             b == k[2]
             D == Both(left, right)
             Diff == Different(left, right)
             Step(p) == \E c \in PathTo(k, height) : CanDescend(p, left, right) /\ c \in ChildrenOf(p, left, right)
             T == {e \in Nat : e <= height - a => Above(k, e) \in Diff}
  <1>1. k \in D /\ k = <<a, b>> /\ a \in 0..height /\ b \in Nat /\ height \in Nat
    BY DEF Comparable, Different
  <1>2. /\ Above(k, 0) = k
        /\ \A e \in Nat : /\ Above(k, e) = <<a + e, Above(k, e)[2]>> /\ Above(k, e)[1] = a + e
                          /\ Above(k, e + 1) = Parent(Above(k, e))
    <2>1. Ancestor(b, 0) = b /\ \A e \in Nat : Ancestor(b, e + 1) = Ancestor(b, e) \div 2
      BY <1>1, AncestorUp
    <2>2. Above(k, 0) = k
      BY <1>1, <2>1 DEF Above
    <2>3. ASSUME NEW e \in Nat
          PROVE  Above(k, e + 1) = Parent(Above(k, e))
      <3>1. a + (e + 1) = (a + e) + 1
        BY <1>1
      <3> QED
        BY <2>1, <3>1 DEF Above, Parent
    <2> QED
      BY <2>2, <2>3 DEF Above
  <1> HIDE DEF a, b
  <1>3. ASSUME NEW e \in Nat, e + 1 <= height - a, Above(k, e) \in Diff
        PROVE  /\ Above(k, e + 1) \in Diff
               /\ CanDescend(Above(k, e + 1), left, right)
               /\ Above(k, e) \in ChildrenOf(Above(k, e + 1), left, right)
    <2> DEFINE q == Above(k, e)
    <2>1. q \in D /\ q[1] < height /\ Above(k, e + 1) = Parent(q)
      <3>1. q \in D
        BY <1>3 DEF Different
      <3>2. q[1] = a + e /\ Above(k, e + 1) = Parent(q)
        BY <1>2
      <3> HIDE DEF q, D
      <3>3. a + e < height
        BY <1>1, <1>3
      <3> QED
        BY <3>1, <3>2, <3>3
    <2> HIDE DEF q
    <2>2. Parent(q) \in D /\ CanDescend(Parent(q), left, right)
      BY <2>1 DEF Comparable
    <2>3. q \in ChildrenOf(Parent(q), left, right)
      BY <2>1, ChildOfParent
    <2>4. left[Parent(q)] = right[Parent(q)] => left[q] = right[q]
      BY <2>2, <2>3 DEF Comparable
    <2>5. left[q] # right[q]
      BY <1>3 DEF Different, q
    <2> QED
      BY <2>1, <2>2, <2>3, <2>4, <2>5 DEF Different, q
  <1> HIDE DEF Diff
  <1>4. 0 \in T
    BY <1>2 DEF Diff
  <1>5. ASSUME NEW e \in Nat, e \in T
        PROVE  e + 1 \in T
    BY <1>1, <1>3, <1>5
  <1>6. \A e \in Nat : e \in T
    <2> HIDE DEF T
    <2> QED
      BY <1>4, <1>5, NatInduct
  <1>7. height - a \in Nat /\ a + (height - a) = height
    BY <1>1
  <1>8. \A e \in 0..(height - a) : Above(k, e) \in Diff
    BY <1>6, <1>7
  <1>9. <<height, 0>> \in PathTo(k, height)
    <2> DEFINE q == Above(k, height - a)
    <2>1. q \in D /\ q[1] = height
      BY <1>2, <1>7, <1>8 DEF Diff, Different
    <2>2. q = <<height, 0>>
      BY <2>1 DEF Comparable
    <2> QED
      BY <1>7, <2>2 DEF PathTo, a
  <1>10. ASSUME NEW p \in PathTo(k, height)
         PROVE  p = k \/ Step(p)
    <2>1. PICK e \in 0..(height - a) : p = Above(k, e)
      BY DEF PathTo, a
    <2>2. CASE e = 0
      BY <1>2, <2>1, <2>2
    <2>3. CASE e # 0
      <3>1. e - 1 \in Nat /\ (e - 1) + 1 = e /\ (e - 1) + 1 <= height - a /\ e - 1 \in 0..(height - a)
        BY <1>7, <2>3
      <3>2. Above(k, e - 1) \in PathTo(k, height)
        BY <3>1 DEF PathTo, a
      <3>3. CanDescend(p, left, right) /\ Above(k, e - 1) \in ChildrenOf(p, left, right)
        BY <1>3, <1>8, <2>1, <3>1
      <3> QED
        BY <3>2, <3>3
    <2> QED
      BY <2>2, <2>3
  <1>11. PathTo(k, height) \subseteq Diff
    BY <1>8 DEF PathTo, a
  <1> QED
    BY <1>9, <1>10, <1>11 DEF Diff

\* A way through the nodes down to an end of them.
IsPath(P, end, left, right) ==
    /\ ~CanDescend(end, left, right)
    /\ \A p \in P : p = end \/ \E c \in P : CanDescend(p, left, right) /\ c \in ChildrenOf(p, left, right)

LEMMA LevelBelowIs ==
    ASSUME NEW left, NEW right, Closed(left, right),
           NEW frontier, frontier \subseteq Both(left, right)
    PROVE  LET below == LevelBelow(frontier, left, right)
           IN /\ below \subseteq Both(left, right)
              /\ \A k \in below : \/ k \in frontier /\ ~CanDescend(k, left, right)
                                  \/ \E p \in frontier : CanDescend(p, left, right) /\ k[1] = p[1] - 1
              /\ \A P, end : IsPath(P, end, left, right) /\ frontier \cap P # {} => below \cap P # {}
  <1> DEFINE below == LevelBelow(frontier, left, right)
             Next1(p) == IF CanDescend(p, left, right) THEN ChildrenOf(p, left, right) ELSE {p}
  <1>1. \A k : k \in below <=> \E p \in frontier : k \in Next1(p)
    BY DEF LevelBelow
  <1>2. \A p \in frontier : CanDescend(p, left, right) =>
           \A k \in ChildrenOf(p, left, right) : k \in Both(left, right) /\ k[1] = p[1] - 1
    <2> SUFFICES ASSUME NEW p \in frontier, CanDescend(p, left, right), NEW k \in ChildrenOf(p, left, right)
                 PROVE  k \in Both(left, right) /\ k[1] = p[1] - 1
      OBVIOUS
    <2>1. k \in Both(left, right)
      BY DEF Closed
    <2>2. PICK i \in {2 * p[2], 2 * p[2] + 1} : k = <<p[1] - 1, i>>
      BY DEF ChildrenOf
    <2>3. k[1] = p[1] - 1
      BY <2>2
    <2> QED
      BY <2>1, <2>3
  <1> HIDE DEF below
  <1>3. ASSUME NEW P, NEW end, IsPath(P, end, left, right), NEW p \in frontier \cap P
        PROVE  below \cap P # {}
    <2>1. CASE CanDescend(p, left, right)
      <3>1. PICK c \in P : c \in ChildrenOf(p, left, right)
        BY <1>3, <2>1 DEF IsPath
      <3>2. c \in below
        BY <1>1, <2>1, <3>1
      <3> QED
        BY <3>2
    <2>2. CASE ~CanDescend(p, left, right)
      BY <1>1, <2>2
    <2> QED
      BY <2>1, <2>2
  <1>4. \A P, end : IsPath(P, end, left, right) /\ frontier \cap P # {} => below \cap P # {}
    BY <1>3
  <1>5. below \subseteq Both(left, right)
    BY <1>1, <1>2
  <1>6. \A k \in below : \/ k \in frontier /\ ~CanDescend(k, left, right)
                         \/ \E p \in frontier : CanDescend(p, left, right) /\ k[1] = p[1] - 1
    BY <1>1, <1>2
  <1> QED
    BY <1>4, <1>5, <1>6 DEF below

\* The recursive functions of collectFrontier and of the rounds exist.
IsCollection(below, position, target, left, right) ==
    /\ CollectFrontier(position, target, left, right) = below[position[1] - target]
    /\ below[0] = {position}
    /\ \A n \in 0..(position[1] - target - 1) : below[n + 1] = LevelBelow(below[n], left, right)

LEMMA CollectDef ==
    ASSUME NEW position, NEW target, NEW left, NEW right,
           position[1] \in Nat, target \in Nat, target < position[1]
    PROVE  \E below : IsCollection(below, position, target, left, right)
  <1> DEFINE top == position[1] - target
             Step(S) == LevelBelow(S, left, right)
             Is(f, n) == f = [l \in 0..n |-> IF l = 0 THEN {position} ELSE Step(f[l - 1])]
             T == {n \in Nat : \E f : Is(f, n)}
  <1>0. top \in Nat /\ top - 1 = position[1] - target - 1
    OBVIOUS
  <1>a. CollectFrontier(position, target, left, right) = (CHOOSE f : Is(f, top))[top]
    BY DEF CollectFrontier
  <1> HIDE DEF top, Step
  <1>1. 0 \in T
    <2> DEFINE g == [l \in 0..0 |-> {position}]
    <2>1. Is(g, 0)
      OBVIOUS
    <2> HIDE DEF Is, g
    <2> QED
      BY <2>1
  <1>2. ASSUME NEW n \in Nat, n \in T
        PROVE  n + 1 \in T
    <2>1. PICK f : Is(f, n)
      BY <1>2
    <2> DEFINE g == [l \in 0..(n + 1) |-> IF l = n + 1 THEN Step(f[n]) ELSE f[l]]
    <2>2. ASSUME NEW l \in 0..(n + 1)
          PROVE  g[l] = IF l = 0 THEN {position} ELSE Step(g[l - 1])
      <3>1. CASE l = n + 1
        BY <3>1
      <3>2. CASE l # n + 1
        <4>1. l \in 0..n /\ (l # 0 => l - 1 \in 0..(n + 1) /\ l - 1 # n + 1)
          BY <3>2
        <4>2. f[l] = IF l = 0 THEN {position} ELSE Step(f[l - 1])
          BY <2>1, <4>1
        <4>3. g[l] = f[l] /\ (l # 0 => g[l - 1] = f[l - 1])
          BY <3>2, <4>1
        <4> HIDE DEF g
        <4> QED
          BY <4>2, <4>3
      <3> QED
        BY <3>1, <3>2
    <2>3. Is(g, n + 1)
      BY <2>2
    <2> HIDE DEF g, Is
    <2> QED
      BY <2>3
  <1>3. \E f : Is(f, top)
    <2> HIDE DEF T
    <2>1. top \in T
      BY <1>0, <1>1, <1>2, NatInduct
    <2> QED
      BY <2>1 DEF T
  <1> DEFINE below == CHOOSE f : Is(f, top)
  <1>4. Is(below, top)
    BY <1>3
  <1>5. CollectFrontier(position, target, left, right) = below[top]
    BY <1>a
  <1> HIDE DEF below
  <1>6. below[0] = {position}
    BY <1>0, <1>4
  <1>7. \A n \in 0..(top - 1) : below[n + 1] = Step(below[n])
    <2> SUFFICES ASSUME NEW n \in 0..(top - 1)
                 PROVE  below[n + 1] = Step(below[n])
      OBVIOUS
    <2>1. n + 1 \in 0..top /\ n + 1 # 0 /\ (n + 1) - 1 = n
      BY <1>0
    <2> QED
      BY <1>4, <2>1
  <1> QED
    BY <1>0, <1>5, <1>6, <1>7 DEF top, Step, IsCollection

\* collectFrontier: nodes of the trace, on the target level or with nothing below them,
\* and on every way down from the position one of them.
IsFrontierOf(frontier, position, target, left, right) ==
    /\ frontier \subseteq Both(left, right)
    /\ \A k \in frontier : k[1] <= target \/ ~CanDescend(k, left, right)
    /\ \A k \in frontier : target <= position[1] => target <= k[1]
    /\ \A P, end : IsPath(P, end, left, right) /\ position \in P => frontier \cap P # {}

LEMMA CollectIs ==
    ASSUME NEW left, NEW right, NEW height, Comparable(left, right, height),
           NEW position \in Both(left, right), NEW target \in Nat
    PROVE  IsFrontierOf(CollectFrontier(position, target, left, right), position, target, left, right)
  <1>0. Closed(left, right) /\ \A k \in Both(left, right) : k[1] \in Nat
    BY DEF Comparable
  <1>1. CASE position[1] <= target
    <2>1. CollectFrontier(position, target, left, right) = {position}
      BY <1>1 DEF CollectFrontier
    <2> QED
      BY <1>1, <2>1 DEF IsFrontierOf
  <1>2. CASE ~(position[1] <= target)
    <2> DEFINE top == position[1] - target
               Good(S, n) == /\ S \subseteq Both(left, right)
                             /\ \A k \in S : k[1] <= position[1] - n \/ ~CanDescend(k, left, right)
                             /\ \A k \in S : position[1] - n <= k[1]
                             /\ \A P, end : IsPath(P, end, left, right) /\ position \in P => S \cap P # {}
    <2>0. position[1] \in Nat /\ target < position[1] /\ top \in Nat /\ position[1] - top = target
          /\ top - 1 = position[1] - target - 1
      BY <1>0, <1>2
    <2>1. PICK below : /\ CollectFrontier(position, target, left, right) = below[top]
                       /\ below[0] = {position}
                       /\ \A n \in 0..(top - 1) : below[n + 1] = LevelBelow(below[n], left, right)
      <3>1. PICK below : IsCollection(below, position, target, left, right)
        BY <2>0, CollectDef
      <3> QED
        BY <2>0, <3>1 DEF IsCollection
    <2> DEFINE T == {n \in Nat : n <= top => Good(below[n], n)}
    <2>2. 0 \in T
      BY <2>0, <2>1
    <2>3. ASSUME NEW n \in Nat, n \in T
          PROVE  n + 1 \in T
      <3> SUFFICES ASSUME n + 1 <= top
                   PROVE  Good(below[n + 1], n + 1)
        OBVIOUS
      <3> DEFINE S == below[n]
                 U == below[n + 1]
      <3>1. Good(S, n) /\ U = LevelBelow(S, left, right)
        <4>1. n <= top /\ n \in 0..(top - 1)
          BY <2>0
        <4> QED
          BY <2>1, <2>3, <4>1
      <3> HIDE DEF S, U, top
      <3>2. /\ U \subseteq Both(left, right)
            /\ \A k \in U : \/ k \in S /\ ~CanDescend(k, left, right)
                            \/ \E p \in S : CanDescend(p, left, right) /\ k[1] = p[1] - 1
            /\ \A P, end : IsPath(P, end, left, right) /\ S \cap P # {} => U \cap P # {}
        BY <1>0, <3>1, LevelBelowIs
      <3>3. ASSUME NEW k \in U, CanDescend(k, left, right)
            PROVE  k[1] <= position[1] - (n + 1)
        <4>1. PICK p \in S : CanDescend(p, left, right) /\ k[1] = p[1] - 1
          BY <3>2, <3>3
        <4>2. p[1] <= position[1] - n
          BY <3>1, <4>1
        <4>3. p[1] \in Nat
          BY <1>0, <3>1
        <4> QED
          BY <2>0, <4>1, <4>2, <4>3
      <3>4. ASSUME NEW k \in U
            PROVE  position[1] - (n + 1) <= k[1]
        <4>1. PICK p \in S : k = p \/ k[1] = p[1] - 1
          BY <3>2
        <4>2. position[1] - n <= p[1] /\ p[1] \in Nat
          BY <1>0, <3>1
        <4> QED
          BY <2>0, <4>1, <4>2
      <3> QED
        BY <3>1, <3>2, <3>3, <3>4 DEF U
    <2>4. top \in T
      <3> HIDE DEF T, top
      <3> QED
        BY <2>0, <2>2, <2>3, NatInduct
    <2>5. Good(below[top], top)
      BY <2>0, <2>4
    <2> HIDE DEF top
    <2> QED
      BY <2>0, <2>1, <2>5 DEF IsFrontierOf
  <1> QED
    BY <1>1, <1>2

IsSearch(search, top, left, right) ==
    /\ PruningRounds(top, left, right) = search[top[1] + 1].rounds
    /\ search[0] = [active |-> {top}, rounds |-> {}]
    /\ \A n \in 0..top[1] : search[n + 1] = IF search[n].active = {} THEN search[n]
                                            ELSE PruningRound(search[n], left, right)

LEMMA SearchDef ==
    ASSUME NEW position, NEW left, NEW right, position[1] \in Nat
    PROVE  \E search : IsSearch(search, position, left, right)
  <1> DEFINE top == position[1] + 1
             start == [active |-> {position}, rounds |-> {}]
             Step(s) == IF s.active = {} THEN s ELSE PruningRound(s, left, right)
             Is(f, n) == f = [l \in 0..n |-> IF l = 0 THEN start ELSE Step(f[l - 1])]
             T == {n \in Nat : \E f : Is(f, n)}
  <1>0. top \in Nat /\ top - 1 = position[1]
    OBVIOUS
  <1>a. PruningRounds(position, left, right) =
            (CHOOSE f : f = [l \in 0..(position[1] + 1) |->
                               IF l = 0 THEN start ELSE IF f[l - 1].active = {} THEN f[l - 1]
                               ELSE PruningRound(f[l - 1], left, right)])[position[1] + 1].rounds
    BY DEF PruningRounds
  <1>b. PruningRounds(position, left, right) = (CHOOSE f : Is(f, top))[top].rounds
    BY <1>a
  <1> HIDE DEF top, start, Step
  <1>1. 0 \in T
    <2> DEFINE g == [l \in 0..0 |-> start]
    <2>1. Is(g, 0)
      OBVIOUS
    <2> HIDE DEF Is, g
    <2> QED
      BY <2>1
  <1>2. ASSUME NEW n \in Nat, n \in T
        PROVE  n + 1 \in T
    <2>1. PICK f : Is(f, n)
      BY <1>2
    <2> DEFINE g == [l \in 0..(n + 1) |-> IF l = n + 1 THEN Step(f[n]) ELSE f[l]]
    <2>2. ASSUME NEW l \in 0..(n + 1)
          PROVE  g[l] = IF l = 0 THEN start ELSE Step(g[l - 1])
      <3>1. CASE l = n + 1
        BY <3>1
      <3>2. CASE l # n + 1
        <4>1. l \in 0..n /\ (l # 0 => l - 1 \in 0..(n + 1) /\ l - 1 # n + 1)
          BY <3>2
        <4>2. f[l] = IF l = 0 THEN start ELSE Step(f[l - 1])
          BY <2>1, <4>1
        <4>3. g[l] = f[l] /\ (l # 0 => g[l - 1] = f[l - 1])
          BY <3>2, <4>1
        <4> HIDE DEF g
        <4> QED
          BY <4>2, <4>3
      <3> QED
        BY <3>1, <3>2
    <2>3. Is(g, n + 1)
      BY <2>2
    <2> HIDE DEF g, Is
    <2> QED
      BY <2>3
  <1>3. \E f : Is(f, top)
    <2> HIDE DEF T
    <2>1. top \in T
      BY <1>0, <1>1, <1>2, NatInduct
    <2> QED
      BY <2>1 DEF T
  <1> DEFINE search == CHOOSE f : Is(f, top)
  <1>4. Is(search, top)
    BY <1>3
  <1>5. PruningRounds(position, left, right) = search[top].rounds
    BY <1>b
  <1> HIDE DEF search
  <1>6. search[0] = start
    BY <1>0, <1>4
  <1>7. \A n \in 0..position[1] : search[n + 1] = Step(search[n])
    <2> SUFFICES ASSUME NEW n \in 0..position[1]
                 PROVE  search[n + 1] = Step(search[n])
      OBVIOUS
    <2>1. n + 1 \in 0..top /\ n + 1 # 0 /\ (n + 1) - 1 = n
      BY <1>0
    <2> QED
      BY <1>4, <2>1
  <1> QED
    BY <1>5, <1>6, <1>7 DEF top, start, Step, IsSearch

\* After n rounds the nodes to go on from are on one level, at least n levels down, and
\* every end that differs has been found or is below one of them.
Searching(search, n, left, right, height) ==
    /\ search.active \subseteq Both(left, right)
    /\ \A a, b \in search.active : a[1] = b[1]
    /\ \A a \in search.active : a[1] + n <= height
    /\ \A r \in search.rounds : r.mismatches \subseteq Different(left, right)
    /\ \A k \in Ends(left, right) : \/ \E r \in search.rounds : k \in r.mismatches
                                    \/ search.active \cap PathTo(k, height) # {}

LEMMA RoundSearches ==
    ASSUME NEW left, NEW right, NEW height, Comparable(left, right, height),
           NEW search, NEW n \in Nat, Searching(search, n, left, right, height), search.active # {}
    PROVE  Searching(PruningRound(search, left, right), n + 1, left, right, height)
  <1> DEFINE from == (CHOOSE p \in search.active : TRUE)[1]
             target == IF from > JumpLevels THEN from - JumpLevels ELSE 0
             Collected(p) == CollectFrontier(p, target, left, right)
             frontier == UNION {Collected(p) : p \in search.active}
             mismatches == {p \in frontier : ~SameNode(p, left, right)}
             round == [from |-> from, target |-> target, frontier |-> frontier, mismatches |-> mismatches]
             next == PruningRound(search, left, right)
  <1>1. /\ next.active = {p \in mismatches : CanDescend(p, left, right)}
        /\ next.rounds = search.rounds \cup {round}
        /\ round.mismatches = mismatches
    BY DEF PruningRound
  <1>2. /\ height \in Nat
        /\ \A k \in Both(left, right) : k[1] \in Nat
        /\ search.active \subseteq Both(left, right)
    BY DEF Comparable, Searching
  <1>3. /\ \A p \in search.active : p[1] = from
        /\ from \in Nat /\ from + n <= height
    BY <1>2 DEF Searching
  <1> HIDE DEF from, next
  <1>4. /\ target \in Nat /\ target <= from
        /\ target > 0 => target + (n + 1) <= height
    BY <1>2, <1>3, JumpAssumption
  <1> HIDE DEF target
  <1>5. \A p \in search.active : IsFrontierOf(Collected(p), p, target, left, right)
    BY <1>2, <1>4, CollectIs
  <1> HIDE DEF Collected
  <1>6. \A k : k \in frontier <=> \E p \in search.active : k \in Collected(p)
    OBVIOUS
  <1> HIDE DEF frontier
  <1>7. frontier \subseteq Both(left, right)
    BY <1>5, <1>6 DEF IsFrontierOf
  <1>8. mismatches \subseteq Different(left, right)
    BY <1>2, <1>7, SameNodeIs
  <1>9. ASSUME NEW k \in next.active
        PROVE  k \in Both(left, right) /\ k[1] = target /\ target > 0
    <2>1. PICK p \in search.active : k \in Collected(p)
      BY <1>1, <1>6
    <2>2. k \in Both(left, right) /\ CanDescend(k, left, right) /\ k[1] \in Nat
      BY <1>1, <1>2, <1>7
    <2>3. k[1] <= target /\ target <= k[1]
      BY <1>3, <1>4, <1>5, <2>1, <2>2 DEF IsFrontierOf
    <2>4. k[1] > 0
      BY <2>2 DEF CanDescend
    <2> QED
      BY <1>4, <2>2, <2>3, <2>4
  <1>10. ASSUME NEW k \in Ends(left, right)
         PROVE  \/ \E r \in next.rounds : k \in r.mismatches
                \/ next.active \cap PathTo(k, height) # {}
    <2>1. CASE \E r \in search.rounds : k \in r.mismatches
      BY <1>1, <2>1
    <2>2. CASE search.active \cap PathTo(k, height) # {}
      <3>1. PICK p \in search.active : p \in PathTo(k, height)
        BY <2>2
      <3>2. /\ PathTo(k, height) \subseteq Different(left, right)
            /\ \A q \in PathTo(k, height) : q = k \/ \E c \in PathTo(k, height) :
                 CanDescend(q, left, right) /\ c \in ChildrenOf(q, left, right)
            /\ ~CanDescend(k, left, right)
        BY PathDiffers DEF Ends
      <3>3. IsPath(PathTo(k, height), k, left, right)
        BY <3>2 DEF IsPath
      <3>4. PICK q \in Collected(p) : q \in PathTo(k, height)
        BY <1>5, <3>1, <3>3 DEF IsFrontierOf
      <3>5. q \in mismatches
        BY <1>2, <1>6, <3>1, <3>2, <3>4, SameNodeIs DEF Different
      <3>6. CASE q = k
        BY <1>1, <3>5, <3>6
      <3>7. CASE q # k
        BY <1>1, <3>2, <3>4, <3>5, <3>7
      <3> QED
        BY <3>6, <3>7
    <2> QED
      BY <2>1, <2>2 DEF Searching
  <1>11. \A r \in next.rounds : r.mismatches \subseteq Different(left, right)
    BY <1>1, <1>8 DEF Searching
  <1>12. \A a \in next.active : a[1] + (n + 1) <= height
    BY <1>4, <1>9
  <1>13. \A a, b \in next.active : a[1] = b[1]
    BY <1>9
  <1> QED
    BY <1>9, <1>10, <1>11, <1>12, <1>13 DEF Searching, next

\* Localize finds in a tree the nodes that differ and have nothing below them, and no
\* others, however many levels a round goes down.
LEMMA SearchFinds ==
    ASSUME NEW left, NEW right, NEW height, Comparable(left, right, height)
    PROVE  {k \in UNION {r.mismatches : r \in PruningRounds(<<height, 0>>, left, right)} :
                ~CanDescend(k, left, right)} = Ends(left, right)
  <1>1. height \in Nat /\ <<height, 0>>[1] = height /\ <<height, 0>> \in Both(left, right)
    BY DEF Comparable
  <1>2. PICK search : IsSearch(search, <<height, 0>>, left, right)
    BY <1>1, SearchDef
  <1>3. /\ PruningRounds(<<height, 0>>, left, right) = search[height + 1].rounds
        /\ search[0] = [active |-> {<<height, 0>>}, rounds |-> {}]
        /\ \A n \in 0..height : search[n + 1] = IF search[n].active = {} THEN search[n]
                                                ELSE PruningRound(search[n], left, right)
    BY <1>2 DEF IsSearch
  <1> DEFINE Good(n) == Searching(search[n], n, left, right, height)
             T == {n \in Nat : n <= height + 1 => Good(n)}
  <1>4. 0 \in T
    <2>1. \A k \in Ends(left, right) : <<height, 0>> \in PathTo(k, height)
      BY PathDiffers DEF Ends
    <2>2. height + 0 <= height
      BY <1>1
    <2> QED
      BY <1>1, <1>3, <2>1, <2>2 DEF Searching
  <1>5. ASSUME NEW n \in Nat, n \in T
        PROVE  n + 1 \in T
    <2> SUFFICES ASSUME n + 1 <= height + 1
                 PROVE  Good(n + 1)
      OBVIOUS
    <2>1. n \in 0..height /\ Good(n)
      BY <1>1, <1>5
    <2>2. CASE search[n].active = {}
      <3>1. search[n + 1] = search[n]
        BY <1>3, <2>1, <2>2
      <3> QED
        BY <2>1, <2>2, <3>1 DEF Searching
    <2>3. CASE search[n].active # {}
      <3>1. search[n + 1] = PruningRound(search[n], left, right)
        BY <1>3, <2>1, <2>3
      <3> QED
        BY <2>1, <2>3, <3>1, RoundSearches
    <2> QED
      BY <2>2, <2>3
  <1>6. Good(height + 1)
    <2> HIDE DEF T, Good
    <2>1. height + 1 \in T
      BY <1>1, <1>4, <1>5, NatInduct
    <2> QED
      BY <1>1, <2>1 DEF T
  <1> DEFINE last == search[height + 1]
             found == UNION {r.mismatches : r \in last.rounds}
  <1>7. Searching(last, height + 1, left, right, height)
    BY <1>6
  <1> HIDE DEF last
  <1>8. last.active = {}
    <2>1. \A a \in last.active : a[1] \in Nat /\ a[1] + (height + 1) <= height
      BY <1>7 DEF Searching, Comparable
    <2> QED
      BY <1>1, <2>1
  <1>9. found \subseteq Different(left, right) /\ Ends(left, right) \subseteq found
    BY <1>7, <1>8 DEF Searching
  <1>10. UNION {r.mismatches : r \in PruningRounds(<<height, 0>>, left, right)} = found
    BY <1>3 DEF last
  <1> HIDE DEF found
  <1> QED
    BY <1>9, <1>10 DEF Ends

\* The traces differ at the top just when there is something to find.
LEMMA TopDiffers ==
    ASSUME NEW left, NEW right, NEW height, Comparable(left, right, height)
    PROVE  left[<<height, 0>>] # right[<<height, 0>>] <=> Ends(left, right) # {}
  <1> DEFINE Diff == Different(left, right)
             T == {n \in Nat : \A p \in Diff : p[1] <= n => Ends(left, right) # {}}
  <1>1. /\ <<height, 0>> \in Both(left, right) /\ height \in Nat
        /\ \A p \in Diff : p \in Both(left, right) /\ left[p] # right[p] /\ p[1] \in Nat
    BY DEF Comparable, Different
  <1>2. ASSUME NEW p \in Diff, Ends(left, right) = {}
        PROVE  p[1] # 0 /\ \E c \in Diff : c[1] = p[1] - 1
    <2>1. CanDescend(p, left, right)
      BY <1>2 DEF Ends
    <2>2. PICK c \in ChildrenOf(p, left, right) : left[c] # right[c]
      BY <1>1, <2>1 DEF Comparable
    <2>3. c \in Both(left, right)
      BY <1>1, <2>1 DEF Closed, Comparable
    <2>4. PICK i \in {2 * p[2], 2 * p[2] + 1} : c = <<p[1] - 1, i>>
      BY DEF ChildrenOf
    <2>5. c[1] = p[1] - 1
      BY <2>4
    <2>6. p[1] # 0
      BY <2>1 DEF CanDescend
    <2> QED
      BY <2>2, <2>3, <2>5, <2>6 DEF Different
  <1> HIDE DEF Diff
  <1>3. 0 \in T
    BY <1>1, <1>2
  <1>4. ASSUME NEW n \in Nat, n \in T
        PROVE  n + 1 \in T
    <2> SUFFICES ASSUME NEW p \in Diff, p[1] <= n + 1, Ends(left, right) = {}
                 PROVE  FALSE
      OBVIOUS
    <2>1. PICK c \in Diff : c[1] = p[1] - 1
      BY <1>2
    <2>2. c[1] <= n
      BY <1>1, <2>1
    <2> QED
      BY <1>4, <2>2
  <1>5. \A n \in Nat : n \in T
    <2> HIDE DEF T
    <2> QED
      BY <1>3, <1>4, NatInduct
  <1>6. \A p \in Diff : Ends(left, right) # {}
    BY <1>1, <1>5
  <1>7. Ends(left, right) # {} => <<height, 0>> \in Diff
    BY PathDiffers DEF Ends, Diff
  <1>8. <<height, 0>> \in Diff <=> left[<<height, 0>>] # right[<<height, 0>>]
    BY <1>1 DEF Diff, Different
  <1> QED
    BY <1>6, <1>7, <1>8

-----------------------------------------------------------------------------
(* The traces of two proofs of the same plan *)

\* The nodes that a trace of a tree has.
TraceNodes(targets, count) == OnTheWay(targets, BitsLen[count - 1]) \cup RequiredAbove(targets, count)

LEMMA NodesOnWay ==
    ASSUME NEW targets, NEW height \in Nat
    PROVE  /\ \A l \in 0..height : \A i \in Active(targets, l) : <<l, i>> \in OnTheWay(targets, height)
           /\ \A k \in OnTheWay(targets, height) :
                 k = <<k[1], k[2]>> /\ k[1] \in 0..height /\ k[2] \in Active(targets, k[1])
  <1>1. ASSUME NEW k \in OnTheWay(targets, height)
        PROVE  k = <<k[1], k[2]>> /\ k[1] \in 0..height /\ k[2] \in Active(targets, k[1])
    <2>a. PICK l \in 0..height : \E i \in Active(targets, l) : k = <<l, i>>
      BY DEF OnTheWay
    <2>1. PICK i \in Active(targets, l) : k = <<l, i>>
      BY <2>a
    <2>2. k[1] = l /\ k[2] = i
      BY <2>1
    <2> QED
      BY <2>1, <2>2
  <1> QED
    BY <1>1 DEF OnTheWay

LEMMA TraceShape ==
    ASSUME NEW list, IsList(list), Len(list) > 0,
           NEW targets, targets \subseteq 0..(Len(list) - 1), targets # {}
    PROVE  LET top == BitsLen[Len(list) - 1]
               nodes == TraceNodes(targets, Len(list))
           IN /\ <<top, 0>> \in nodes
              /\ \A k \in nodes :
                    /\ k = <<k[1], k[2]>> /\ k[1] \in 0..top /\ k[2] \in Nat /\ k[2] < Widths(list)[k[1]]
                    /\ k[1] = top => k = <<top, 0>>
                    /\ k[1] < top => Parent(k) \in OnTheWay(targets, top)
  <1> DEFINE top == BitsLen[Len(list) - 1]
             nodes == TraceNodes(targets, Len(list))
  <1>1. top \in Nat
    BY WidthsAre
  <1>2. Active(targets, top) = {0}
    BY ActiveInTree
  <1>3. <<top, 0>> \in nodes
    <2>1. top \in 0..top /\ 0 \in Active(targets, top)
      BY <1>1, <1>2
    <2> QED
      BY <1>1, <2>1, NodesOnWay DEF TraceNodes
  <1>4. \A k \in nodes : k = <<k[1], k[2]>> /\ k[1] \in Nat
    <2> SUFFICES ASSUME NEW k \in nodes
                 PROVE  k = <<k[1], k[2]>> /\ k[1] \in Nat
      OBVIOUS
    <2>1. CASE k \in OnTheWay(targets, top)
      <3>1. k = <<k[1], k[2]>> /\ k[1] \in 0..top
        BY <1>1, <2>1, NodesOnWay
      <3> QED
        BY <3>1
    <2>2. CASE k \in RequiredAbove(targets, Len(list))
      <3>a. \A q \in RequiredAbove(targets, Len(list)) : \E l \in 0..(top - 1), c \in Nat :
               /\ q = <<l, c>> /\ c < Widths(list)[l] /\ c \notin Active(targets, l)
               /\ \E i \in Active(targets, l + 1) : c \in {2 * i, 2 * i + 1}
        BY RequiredCovers
      <3>1. PICK l \in 0..(top - 1), c \in Nat : k = <<l, c>>
        BY <2>2, <3>a
      <3>2. k[1] = l /\ k[2] = c
        BY <3>1
      <3> QED
        BY <3>1, <3>2
    <2> QED
      BY <2>1, <2>2 DEF TraceNodes
  <1>5. ASSUME NEW l \in Nat, NEW c, <<l, c>> \in nodes
        PROVE  LiesBelow(list, targets, l, c)
    BY <1>5, ParentOnTheWay DEF TraceNodes
  <1> HIDE DEF nodes, top
  <1>6. ASSUME NEW k \in nodes
        PROVE  /\ k[1] \in 0..top /\ k[2] \in Nat /\ k[2] < Widths(list)[k[1]]
               /\ k[1] = top => k = <<top, 0>>
               /\ k[1] < top => Parent(k) \in OnTheWay(targets, top)
    <2>1. k = <<k[1], k[2]>> /\ k[1] \in Nat /\ <<k[1], k[2]>> \in nodes
      BY <1>4
    <2>2. /\ k[1] \in 0..top /\ k[2] \in Nat /\ k[2] < Widths(list)[k[1]]
          /\ k[1] < top => k[2] \div 2 \in Active(targets, k[1] + 1)
          /\ k[1] = top => k[2] = 0
      <3>1. LiesBelow(list, targets, k[1], k[2])
        BY <1>5, <2>1
      <3> QED
        BY <3>1 DEF LiesBelow, top
    <2>3. ASSUME k[1] < top
          PROVE  Parent(k) \in OnTheWay(targets, top)
      <3>1. k[1] + 1 \in 0..top
        BY <1>1, <2>1, <2>3
      <3>2. <<k[1] + 1, k[2] \div 2>> \in OnTheWay(targets, top)
        BY <1>1, <2>2, <2>3, <3>1, NodesOnWay
      <3> QED
        BY <3>2 DEF Parent
    <2> QED
      BY <2>1, <2>2, <2>3
  <1> QED
    BY <1>3, <1>4, <1>6 DEF top, nodes

\* Below a node on the way lie the nodes it is made from, below a supplied one nothing.
DescendsRightly(k, left, right, list, targets) ==
    /\ CanDescend(k, left, right) <=> k \in OnTheWay(targets, BitsLen[Len(list) - 1]) /\ k[1] > 0
    /\ CanDescend(k, left, right) =>
          LET l == k[1] - 1
              i == k[2]
          IN /\ l \in 0..(BitsLen[Len(list) - 1] - 1) /\ k = <<l + 1, i>> /\ i \in Active(targets, l + 1)
             /\ ChildrenOf(k, left, right) = {<<l, 2 * i>>} \cup
                   (IF 2 * i + 1 < Widths(list)[l] THEN {<<l, 2 * i + 1>>} ELSE {})

LEMMA TraceDescends ==
    ASSUME NEW list, IsList(list), Len(list) > 0,
           NEW targets, targets \subseteq 0..(Len(list) - 1), targets # {},
           NEW left, NEW right,
           DOMAIN left = TraceNodes(targets, Len(list)), DOMAIN right = TraceNodes(targets, Len(list))
    PROVE  \A k \in DOMAIN left : DescendsRightly(k, left, right, list, targets)
  <1> DEFINE top == BitsLen[Len(list) - 1]
             nodes == TraceNodes(targets, Len(list))
             width == Widths(list)
             N(l, c) == <<l, c>> \in nodes
  <1>1. /\ top \in Nat /\ \A l \in 0..top : width[l] \in Nat
        /\ \A l \in 0..(top - 1) : width[l + 1] = (width[l] + 1) \div 2
        /\ targets \subseteq Nat
    BY WidthsAre
  <1>2. /\ \A k \in nodes :
              /\ k = <<k[1], k[2]>> /\ k[1] \in 0..top /\ k[2] \in Nat /\ k[2] < width[k[1]]
              /\ k[1] < top => Parent(k) \in OnTheWay(targets, top)
    BY TraceShape
  <1>3. /\ \A l \in 0..top : \A i \in Active(targets, l) : <<l, i>> \in OnTheWay(targets, top)
        /\ \A k \in OnTheWay(targets, top) : k[1] \in 0..top /\ k[2] \in Active(targets, k[1])
    BY <1>1, NodesOnWay
  <1>4. \A l \in Nat : Active(targets, l) \subseteq Nat
    BY <1>1, ActiveUp
  <1>5. \A l \in 0..(top - 1) : \A i \in Active(targets, l + 1), c \in Nat :
           c \in {2 * i, 2 * i + 1} /\ c < width[l] => N(l, c)
    <2>1. Covers(RequiredAbove(targets, Len(list)), targets, width, top)
      BY RequiredCovers
    <2> SUFFICES ASSUME NEW l \in 0..(top - 1), NEW i \in Active(targets, l + 1), NEW c \in Nat,
                        c \in {2 * i, 2 * i + 1}, c < width[l]
                 PROVE  N(l, c)
      OBVIOUS
    <2>2. c \in Active(targets, l) \/ <<l, c>> \in RequiredAbove(targets, Len(list))
      BY <2>1 DEF Covers
    <2>3. l \in 0..top
      BY <1>1
    <2> QED
      BY <1>3, <2>2, <2>3 DEF TraceNodes
  <1>6. ASSUME NEW l \in Nat, l + 1 <= top, NEW i \in Nat, N(l, 2 * i)
        PROVE  <<l + 1, i>> \in OnTheWay(targets, top)
    <2> DEFINE c == <<l, 2 * i>>
    <2>1. c \in nodes /\ c[1] = l /\ c[2] = 2 * i /\ l < top /\ (2 * i) \div 2 = i
      BY <1>1, <1>6
    <2> HIDE DEF c
    <2>2. Parent(c) \in OnTheWay(targets, top)
      BY <1>2, <2>1
    <2> QED
      BY <2>1, <2>2 DEF Parent
  <1> HIDE DEF top, width
  <1>7. ASSUME NEW k \in nodes
        PROVE  CanDescend(k, left, right) <=> k \in OnTheWay(targets, top) /\ k[1] > 0
    <2> DEFINE l == k[1] - 1
               i == k[2]
    <2>1. k = <<k[1], k[2]>> /\ k[1] \in 0..top /\ k[2] \in Nat /\ k[2] < width[k[1]]
      BY <1>2
    <2>2. CanDescend(k, left, right) <=> k[1] > 0 /\ N(l, 2 * i)
      BY DEF CanDescend
    <2>3. ASSUME k[1] > 0
          PROVE  /\ l \in 0..(top - 1) /\ l \in Nat /\ l + 1 = k[1] /\ l + 1 <= top /\ i \in Nat
                 /\ 2 * i \in Nat
      BY <1>1, <2>1, <2>3
    <2>4. ASSUME k[1] > 0
          PROVE  2 * i < width[l]
      <3> DEFINE w == width[l]
      <3>1. w \in Nat /\ width[l + 1] = (w + 1) \div 2 /\ i < width[l + 1]
        BY <1>1, <2>1, <2>3, <2>4
      <3> HIDE DEF w, l, i
      <3>2. i \in Nat
        BY <2>3, <2>4
      <3>3. i < (w + 1) \div 2
        BY <3>1
      <3>4. 2 * i < w
        BY <3>1, <3>2, <3>3
      <3> QED
        BY <3>4 DEF w
    <2> HIDE DEF l, i, N
    <2>5. ASSUME k \in OnTheWay(targets, top), k[1] > 0
          PROVE  N(l, 2 * i)
      <3>1. i \in Active(targets, l + 1)
        BY <1>3, <2>3, <2>5 DEF i
      <3> QED
        BY <1>5, <2>3, <2>4, <2>5, <3>1
    <2>6. ASSUME N(l, 2 * i), k[1] > 0
          PROVE  k \in OnTheWay(targets, top)
      <3>1. <<l + 1, i>> \in OnTheWay(targets, top)
        BY <1>6, <2>3, <2>6
      <3> QED
        BY <2>1, <2>3, <2>6, <3>1 DEF i
    <2> QED
      BY <2>2, <2>5, <2>6
  <1>8. ASSUME NEW k \in nodes, CanDescend(k, left, right)
        PROVE  LET l == k[1] - 1
                   i == k[2]
               IN /\ l \in 0..(top - 1) /\ k = <<l + 1, i>> /\ i \in Active(targets, l + 1)
                  /\ ChildrenOf(k, left, right) = {<<l, 2 * i>>} \cup
                        (IF 2 * i + 1 < width[l] THEN {<<l, 2 * i + 1>>} ELSE {})
    <2> DEFINE l == k[1] - 1
               i == k[2]
    <2>1. k = <<k[1], k[2]>> /\ k[1] \in 0..top /\ k[2] \in Nat /\ k[1] > 0 /\ k \in OnTheWay(targets, top)
      BY <1>2, <1>7, <1>8
    <2>2. l \in 0..(top - 1) /\ l \in Nat /\ l + 1 = k[1] /\ i \in Nat /\ 2 * i + 1 \in Nat
      BY <1>1, <2>1
    <2>3. N(l, 2 * i)
      BY <1>8 DEF CanDescend
    <2>4. ChildrenOf(k, left, right) = {<<l, 2 * i>>, <<l, 2 * i + 1>>} \cap nodes
      <3>0. DOMAIN left \cup DOMAIN right = nodes
        OBVIOUS
      <3> HIDE DEF nodes
      <3>1. ChildrenOf(k, left, right) = {<<l, j>> : j \in {2 * i, 2 * i + 1}} \cap nodes
        BY <3>0 DEF ChildrenOf
      <3> QED
        BY <3>1
    <2> HIDE DEF l, i
    <2>5. i \in Active(targets, l + 1) /\ k = <<l + 1, i>>
      BY <1>3, <2>1, <2>2 DEF i
    <2>6. 2 * i + 1 < width[l] => N(l, 2 * i + 1)
      BY <1>5, <2>2, <2>5
    <2>7. N(l, 2 * i + 1) => 2 * i + 1 < width[l]
      <3> DEFINE c == <<l, 2 * i + 1>>
      <3>1. c[1] = l /\ c[2] = 2 * i + 1
        OBVIOUS
      <3> HIDE DEF c
      <3>2. c \in nodes => c[2] < width[c[1]]
        BY <1>2
      <3> QED
        BY <3>1, <3>2 DEF c
    <2>8. ChildrenOf(k, left, right) = {<<l, 2 * i>>} \cup
             (IF 2 * i + 1 < width[l] THEN {<<l, 2 * i + 1>>} ELSE {})
      <3>1. CASE 2 * i + 1 < width[l]
        BY <2>3, <2>4, <2>6, <3>1
      <3>2. CASE ~(2 * i + 1 < width[l])
        BY <2>3, <2>4, <2>7, <3>2
      <3> QED
        BY <3>1, <3>2
    <2> QED
      BY <2>2, <2>5, <2>8 DEF l, i
  <1> QED
    BY <1>7, <1>8 DEF DescendsRightly, top, width

\* A trace of a tree, as a function: every node on the way is made from those below it.
IsTraceOf(f, list, targets) ==
    /\ DOMAIN f = TraceNodes(targets, Len(list))
    /\ \A l \in 0..(BitsLen[Len(list) - 1] - 1) : \A i \in Active(targets, l + 1) :
          f[<<l + 1, i>>] = IF 2 * i + 1 < Widths(list)[l] THEN HashPair(f[<<l, 2 * i>>], f[<<l, 2 * i + 1>>])
                                                           ELSE f[<<l, 2 * i>>]

\* Where the search ends in two traces with the same targets.
LEMMA TraceEnds ==
    ASSUME NEW list, IsList(list), Len(list) > 0,
           NEW targets, targets \subseteq 0..(Len(list) - 1), targets # {},
           NEW left, IsTraceOf(left, list, targets), NEW right, IsTraceOf(right, list, targets)
    PROVE  \A k \in DOMAIN left : ~CanDescend(k, left, right) <=> k[1] = 0 \/ k \in RequiredAbove(targets, Len(list))
  <1> DEFINE top == BitsLen[Len(list) - 1]
             nodes == TraceNodes(targets, Len(list))
  <1>1. DOMAIN left = nodes /\ DOMAIN right = nodes /\ top \in Nat
    BY WidthsAre DEF IsTraceOf
  <1>2. \A k \in nodes : k[1] \in 0..top
    BY TraceShape
  <1>3. \A k \in nodes : CanDescend(k, left, right) <=> k \in OnTheWay(targets, top) /\ k[1] > 0
    <2>1. \A k \in nodes : DescendsRightly(k, left, right, list, targets)
      BY <1>1, TraceDescends
    <2> QED
      BY <2>1 DEF DescendsRightly
  <1> HIDE DEF top, nodes
  <1> SUFFICES ASSUME NEW k \in nodes
               PROVE  ~CanDescend(k, left, right) <=> k[1] = 0 \/ k \in RequiredAbove(targets, Len(list))
    BY <1>1
  <1>4. k[1] \in Nat /\ (CanDescend(k, left, right) <=> k \in OnTheWay(targets, top) /\ k[1] > 0)
    BY <1>2, <1>3
  <1>5. k \in OnTheWay(targets, top) \/ k \in RequiredAbove(targets, Len(list))
    BY DEF nodes, TraceNodes, top
  <1>6. ASSUME k \in OnTheWay(targets, top)
        PROVE  k \notin RequiredAbove(targets, Len(list))
    <2>1. k = <<k[1], k[2]>> /\ k[1] \in Nat /\ k[2] \in Active(targets, k[1])
      BY <1>1, <1>6, NodesOnWay
    <2> QED
      BY <2>1, WayNotRequired
  <1> QED
    BY <1>4, <1>5, <1>6

\* One trace: below a node that has another below it lie the nodes it is made from.
IsMadeBelow(f, k, list) ==
    LET l == k[1] - 1
        i == k[2]
    IN /\ k = <<l + 1, i>>
       /\ ChildrenOf(k, f, f) = {<<l, 2 * i>>} \cup (IF 2 * i + 1 < Widths(list)[l] THEN {<<l, 2 * i + 1>>} ELSE {})
       /\ f[k] = IF 2 * i + 1 < Widths(list)[l] THEN HashPair(f[<<l, 2 * i>>], f[<<l, 2 * i + 1>>])
                                                ELSE f[<<l, 2 * i>>]

LEMMA TraceIsMade ==
    ASSUME NEW list, IsList(list), Len(list) > 0,
           NEW targets, targets \subseteq 0..(Len(list) - 1), targets # {},
           NEW f, IsTraceOf(f, list, targets)
    PROVE  LET top == BitsLen[Len(list) - 1]
           IN /\ top \in Nat /\ <<top, 0>> \in DOMAIN f
              /\ \A k \in DOMAIN f :
                    /\ k = <<k[1], k[2]>> /\ k[1] \in 0..top /\ k[2] \in Nat
                    /\ k[1] = top => k = <<top, 0>>
                    /\ k[1] < top => Parent(k) \in DOMAIN f /\ CanDescend(Parent(k), f, f)
                    /\ CanDescend(k, f, f) => IsMadeBelow(f, k, list)
  <1> DEFINE top == BitsLen[Len(list) - 1]
             nodes == TraceNodes(targets, Len(list))
  <1>1. DOMAIN f = nodes /\ top \in Nat
    BY WidthsAre DEF IsTraceOf
  <1>2. /\ <<top, 0>> \in nodes
        /\ \A k \in nodes :
              /\ k = <<k[1], k[2]>> /\ k[1] \in 0..top /\ k[2] \in Nat
              /\ k[1] = top => k = <<top, 0>>
              /\ k[1] < top => Parent(k) \in OnTheWay(targets, top)
    BY TraceShape
  <1>3. \A k \in nodes : DescendsRightly(k, f, f, list, targets)
    BY <1>1, TraceDescends
  <1>4. OnTheWay(targets, top) \subseteq nodes
    BY DEF TraceNodes
  <1>5. ASSUME NEW k \in nodes, CanDescend(k, f, f)
        PROVE  IsMadeBelow(f, k, list)
    <2> DEFINE l == k[1] - 1
               i == k[2]
    <2>1. /\ l \in 0..(top - 1) /\ k = <<l + 1, i>> /\ i \in Active(targets, l + 1)
          /\ ChildrenOf(k, f, f) = {<<l, 2 * i>>} \cup (IF 2 * i + 1 < Widths(list)[l] THEN {<<l, 2 * i + 1>>} ELSE {})
      BY <1>3, <1>5 DEF DescendsRightly
    <2> HIDE DEF l, i
    <2>2. f[<<l + 1, i>>] = IF 2 * i + 1 < Widths(list)[l] THEN HashPair(f[<<l, 2 * i>>], f[<<l, 2 * i + 1>>])
                                                          ELSE f[<<l, 2 * i>>]
      BY <2>1 DEF IsTraceOf
    <2> QED
      BY <2>1, <2>2 DEF IsMadeBelow, l, i
  <1> HIDE DEF top, nodes
  <1>6. ASSUME NEW k \in nodes, k[1] < top
        PROVE  Parent(k) \in nodes /\ CanDescend(Parent(k), f, f)
    <2>1. Parent(k) \in OnTheWay(targets, top) /\ Parent(k)[1] = k[1] + 1 /\ k[1] \in Nat
      BY <1>2, <1>6 DEF Parent
    <2>2. Parent(k) \in nodes
      BY <1>4, <2>1
    <2>3. DescendsRightly(Parent(k), f, f, list, targets)
      BY <1>3, <2>2
    <2>4. Parent(k)[1] > 0
      BY <2>1
    <2> QED
      BY <2>1, <2>2, <2>3, <2>4 DEF DescendsRightly, top
  <1> QED
    BY <1>1, <1>2, <1>5, <1>6 DEF top, nodes

\* Traces of one tree, for the same or for different targets.
LEMMA TracesCompare ==
    ASSUME NEW list, IsList(list), Len(list) > 0,
           NEW targets, targets \subseteq 0..(Len(list) - 1), targets # {},
           NEW left, IsTraceOf(left, list, targets),
           NEW others, others \subseteq 0..(Len(list) - 1), others # {},
           NEW right, IsTraceOf(right, list, others)
    PROVE  Comparable(left, right, BitsLen[Len(list) - 1])
  <1> DEFINE top == BitsLen[Len(list) - 1]
             width == Widths(list)
             nodes == Both(left, right)
  <1>1. /\ top \in Nat /\ <<top, 0>> \in DOMAIN left
        /\ \A k \in DOMAIN left :
              /\ k = <<k[1], k[2]>> /\ k[1] \in 0..top /\ k[2] \in Nat
              /\ k[1] = top => k = <<top, 0>>
              /\ k[1] < top => Parent(k) \in DOMAIN left /\ CanDescend(Parent(k), left, left)
              /\ CanDescend(k, left, left) => IsMadeBelow(left, k, list)
    BY TraceIsMade
  <1>2. /\ <<top, 0>> \in DOMAIN right
        /\ \A k \in DOMAIN right :
              /\ k[1] < top => Parent(k) \in DOMAIN right /\ CanDescend(Parent(k), right, right)
              /\ CanDescend(k, right, right) => IsMadeBelow(right, k, list)
    BY TraceIsMade
  <1> HIDE DEF top
  <1>3. \A k : CanDescend(k, left, right) <=> CanDescend(k, left, left) /\ CanDescend(k, right, right)
    BY DEF CanDescend
  <1>4. ASSUME NEW k \in nodes, CanDescend(k, left, right)
        PROVE  /\ ChildrenOf(k, left, right) \subseteq nodes
               /\ left[k] = right[k] <=> \A c \in ChildrenOf(k, left, right) : left[c] = right[c]
    <2> DEFINE l == k[1] - 1
               i == k[2]
               first == <<l, 2 * i>>
               second == <<l, 2 * i + 1>>
               below == {first} \cup IF 2 * i + 1 < width[l] THEN {second} ELSE {}
    <2>1. IsMadeBelow(left, k, list) /\ IsMadeBelow(right, k, list)
      BY <1>1, <1>2, <1>3, <1>4 DEF Both
    <2>2. ChildrenOf(k, left, left) = below /\ ChildrenOf(k, right, right) = below
      BY <2>1 DEF IsMadeBelow
    <2>3. ChildrenOf(k, left, right) = ChildrenOf(k, left, left) \cup ChildrenOf(k, right, right)
      BY DEF ChildrenOf
    <2>4. ChildrenOf(k, left, left) \subseteq DOMAIN left /\ ChildrenOf(k, right, right) \subseteq DOMAIN right
      BY DEF ChildrenOf
    <2>5. /\ left[k] = IF 2 * i + 1 < width[l] THEN HashPair(left[first], left[second]) ELSE left[first]
          /\ right[k] = IF 2 * i + 1 < width[l] THEN HashPair(right[first], right[second]) ELSE right[first]
      BY <2>1 DEF IsMadeBelow
    <2>6. ChildrenOf(k, left, right) = below /\ below \subseteq nodes
      BY <2>2, <2>3, <2>4 DEF Both
    <2>7. left[k] = right[k] <=> \A c \in below : left[c] = right[c]
      <3> HIDE DEF first, second, l, i, width
      <3>1. CASE 2 * i + 1 < width[l]
        <4>1. left[k] = HashPair(left[first], left[second]) /\ right[k] = HashPair(right[first], right[second])
          BY <2>5, <3>1
        <4>2. left[k] = right[k] <=> left[first] = right[first] /\ left[second] = right[second]
          BY <4>1 DEF HashPair
        <4> QED
          BY <3>1, <4>2
      <3>2. CASE ~(2 * i + 1 < width[l])
        BY <2>5, <3>2
      <3> QED
        BY <3>1, <3>2
    <2> QED
      BY <2>6, <2>7
  <1>5. ASSUME NEW k \in nodes
        PROVE  /\ k = <<k[1], k[2]>> /\ k[1] \in 0..top /\ k[2] \in Nat
               /\ k[1] = top => k = <<top, 0>>
               /\ k[1] < top => Parent(k) \in nodes /\ CanDescend(Parent(k), left, right)
    BY <1>1, <1>2, <1>3 DEF Both
  <1>6. <<top, 0>> \in nodes
    BY <1>1, <1>2 DEF Both
  <1> QED
    BY <1>1, <1>4, <1>5, <1>6 DEF Comparable, Closed, top

\* reconstructTreeTrace gives a trace in this sense, with the hashes it was given.
LEMMA ReconstructTraces ==
    ASSUME NEW list, IsList(list), Len(list) > 0,
           NEW leaves, IsLeafMap(leaves), TargetsOf(leaves) \subseteq 0..(Len(list) - 1),
           NEW supplied, Functional(supplied), Keys(supplied) = RequiredAbove(TargetsOf(leaves), Len(list))
    PROVE  LET f == ReconstructAbove(Len(list), leaves, supplied)
           IN /\ IsTraceOf(f, list, TargetsOf(leaves))
              /\ \A x \in leaves \cup supplied : x[1] \in DOMAIN f /\ f[x[1]] = x[2]
  <1> DEFINE f == ReconstructAbove(Len(list), leaves, supplied)
             targets == TargetsOf(leaves)
             top == BitsLen[Len(list) - 1]
             width == Widths(list)
  <1>1. PICK known : /\ f = AsFunction(known)
                     /\ IsTrace(known, width, top, leaves, supplied)
    BY ReconstructIs
  <1>2. /\ Functional(known) /\ leaves \cup supplied \subseteq known
        /\ Keys(known) = OnTheWay(targets, top) \cup Keys(supplied)
        /\ \A l \in 0..(top - 1) : \A i \in Active(targets, l + 1) :
              Value(known, <<l + 1, i>>) = IF 2 * i + 1 < width[l]
                                           THEN HashPair(Value(known, <<l, 2 * i>>), Value(known, <<l, 2 * i + 1>>))
                                           ELSE Value(known, <<l, 2 * i>>)
    BY <1>1 DEF IsTrace
  <1> HIDE DEF f
  <1>3. DOMAIN f = Keys(known) /\ \A k \in Keys(known) : f[k] = Value(known, k)
    BY <1>1, AsFunctionIs
  <1>4. DOMAIN f = TraceNodes(targets, Len(list))
    BY <1>2, <1>3 DEF TraceNodes
  <1>5. \A x \in leaves \cup supplied : x[1] \in DOMAIN f /\ f[x[1]] = x[2]
    <2>1. \A x \in leaves \cup supplied : x \in known /\ x[1] \in Keys(known) /\ Value(known, x[1]) = x[2]
      BY <1>2, ValueIs DEF Keys
    <2> QED
      BY <1>3, <2>1
  <1>6. ASSUME NEW l \in 0..(top - 1), NEW i \in Active(targets, l + 1)
        PROVE  f[<<l + 1, i>>] = IF 2 * i + 1 < width[l] THEN HashPair(f[<<l, 2 * i>>], f[<<l, 2 * i + 1>>])
                                                         ELSE f[<<l, 2 * i>>]
    <2>1. /\ top \in Nat /\ l \in Nat /\ l + 1 \in Nat /\ l + 1 \in 0..top
          /\ targets \subseteq Nat
      BY WidthsAre DEF IsList
    <2>2. i \in Nat
      <3> HIDE DEF targets, top
      <3> QED
        BY <2>1, ActiveUp
    <2>3. width[l] \in Nat /\ width[l] > 0 /\ width[l + 1] = (width[l] + 1) \div 2
      BY WidthsAre
    <2>4. i < width[l + 1]
      <3>1. Active(targets, l + 1) \subseteq 0..(width[l + 1] - 1)
        BY <2>1, ActiveInTree
      <3>2. width[l + 1] \in Nat
        BY <2>3
      <3> QED
        BY <2>2, <3>1, <3>2
    <2>5. 2 * i < width[l] /\ 2 * i \in Nat /\ 2 * i + 1 \in Nat
      <3> DEFINE w == width[l]
      <3>1. w \in Nat /\ i < (w + 1) \div 2
        BY <2>3, <2>4
      <3> HIDE DEF w
      <3>2. 2 * i < w
        BY <2>2, <3>1
      <3> QED
        BY <2>2, <3>2 DEF w
    <2>6. Covers(RequiredAbove(targets, Len(list)), targets, width, top)
      BY RequiredCovers
    <2>7. \A c \in Nat : c \in {2 * i, 2 * i + 1} /\ c < width[l] => <<l, c>> \in Keys(known)
      <3> SUFFICES ASSUME NEW c \in Nat, c \in {2 * i, 2 * i + 1}, c < width[l]
                   PROVE  <<l, c>> \in Keys(known)
        OBVIOUS
      <3>1. c \in Active(targets, l) \/ <<l, c>> \in RequiredAbove(targets, Len(list))
        BY <2>6 DEF Covers
      <3>2. l \in 0..top
        BY <2>1
      <3>3. c \in Active(targets, l) => <<l, c>> \in OnTheWay(targets, top)
        BY <2>1, <3>2, NodesOnWay
      <3> QED
        BY <1>2, <3>1, <3>3
    <2>8. <<l + 1, i>> \in Keys(known)
      <3>1. <<l + 1, i>> \in OnTheWay(targets, top)
        BY <2>1, NodesOnWay
      <3> QED
        BY <1>2, <3>1
    <2> HIDE DEF targets, top, width
    <2>9. CASE 2 * i + 1 < width[l]
      <3>1. <<l, 2 * i>> \in Keys(known) /\ <<l, 2 * i + 1>> \in Keys(known)
        BY <2>5, <2>7, <2>9
      <3> QED
        BY <1>2, <1>3, <2>8, <2>9, <3>1
    <2>10. CASE ~(2 * i + 1 < width[l])
      <3>1. <<l, 2 * i>> \in Keys(known)
        BY <2>5, <2>7
      <3> QED
        BY <1>2, <1>3, <2>8, <2>10, <3>1
    <2> QED
      BY <2>9, <2>10
  <1> QED
    BY <1>4, <1>5, <1>6 DEF IsTraceOf, f

-----------------------------------------------------------------------------
(* The nodes that TraceHMFProof records *)

\* What is recorded before a layer.
TraceBefore(proof, layer) ==
    LET none == [nodes |-> {}, committed |-> {}]
        segments == TraceLayer(proof, none, Segment)
        shards == TraceLayer(proof, segments, Shard)
    IN IF layer = 1 THEN none ELSE IF layer = 2 THEN segments
       ELSE IF layer = 3 THEN shards ELSE TraceLayer(proof, shards, Region)

\* What a layer adds.
NodesOfLayer(proof, layer, committed) ==
    {<<p.tree, TreeTrace(proof, p, committed)>> : p \in Plans(proof, layer)}
RootsOfLayer(proof, layer, committed) ==
    {<<p.tree, TracedRoot(proof, p, committed)>> : p \in Plans(proof, layer)}

LEMMA LayerAdds ==
    ASSUME NEW proof, NEW trace, NEW layer
    PROVE  /\ TraceLayer(proof, trace, layer).nodes
                 = trace.nodes \cup NodesOfLayer(proof, layer, trace.committed)
           /\ TraceLayer(proof, trace, layer).committed
                 = trace.committed \cup RootsOfLayer(proof, layer, trace.committed)
  <1> DEFINE traced == {<<p, TreeTrace(proof, p, trace.committed)>> : p \in Plans(proof, layer)}
             new == {<<t[1].tree, t[2]>> : t \in traced}
             want == NodesOfLayer(proof, layer, trace.committed)
  <1>1. TraceLayer(proof, trace, layer).nodes = trace.nodes \cup new
    BY DEF TraceLayer, Plans
  <1>2. new = want
    <2>1. ASSUME NEW p \in Plans(proof, layer)
          PROVE  \E t \in traced : <<p.tree, TreeTrace(proof, p, trace.committed)>> = <<t[1].tree, t[2]>>
      <3> DEFINE t == <<p, TreeTrace(proof, p, trace.committed)>>
      <3>1. t \in traced /\ t[1] = p /\ t[2] = TreeTrace(proof, p, trace.committed)
        OBVIOUS
      <3> HIDE DEF t, traced
      <3> QED
        BY <3>1
    <2>2. ASSUME NEW t \in traced
          PROVE  \E p \in Plans(proof, layer) :
                    <<t[1].tree, t[2]>> = <<p.tree, TreeTrace(proof, p, trace.committed)>>
      <3>1. PICK p \in Plans(proof, layer) : t = <<p, TreeTrace(proof, p, trace.committed)>>
        OBVIOUS
      <3> HIDE DEF traced
      <3>2. t[1] = p /\ t[2] = TreeTrace(proof, p, trace.committed)
        BY <3>1
      <3> QED
        BY <3>2
    <2> HIDE DEF traced
    <2> QED
      BY <2>1, <2>2 DEF NodesOfLayer
  <1>3. TraceLayer(proof, trace, layer).committed
           = trace.committed \cup RootsOfLayer(proof, layer, trace.committed)
    BY TraceLayerIs DEF RootsOfLayer
  <1> QED
    BY <1>1, <1>2, <1>3

\* The committed roots before a layer are among those in the end, and have those of
\* every layer below; what is recorded is what the four layers add.
LEMMA LayersAdd ==
    ASSUME NEW proof
    PROVE  LET D(layer) == TraceBefore(proof, layer).committed
               T == TraceLayers(proof)
           IN /\ \A x : x \in T.nodes <=> \E layer \in 1..4 : x \in NodesOfLayer(proof, layer, D(layer))
              /\ \A layer \in 1..4 : \A x : x \in D(layer) <=>
                    \E below \in 1..4 : below < layer /\ x \in RootsOfLayer(proof, below, D(below))
              /\ \A layer \in 1..4 : D(layer) \subseteq T.committed
  <1> DEFINE B(layer) == TraceBefore(proof, layer)
             T == TraceLayers(proof)
             N(layer) == NodesOfLayer(proof, layer, B(layer).committed)
             R(layer) == RootsOfLayer(proof, layer, B(layer).committed)
             none == [nodes |-> {}, committed |-> {}]
  <1>1. /\ B(1) = none
        /\ B(2) = TraceLayer(proof, B(1), 1) /\ B(3) = TraceLayer(proof, B(2), 2)
        /\ B(4) = TraceLayer(proof, B(3), 3) /\ T = TraceLayer(proof, B(4), 4)
    BY DEF TraceBefore, TraceLayers, Segment, Shard, Region, Global
  <1>2. none.nodes = {} /\ none.committed = {}
    OBVIOUS
  <1> HIDE DEF B, T, none
  <1>3. /\ B(1).nodes = {} /\ B(1).committed = {}
        /\ B(2).nodes = B(1).nodes \cup N(1) /\ B(2).committed = B(1).committed \cup R(1)
        /\ B(3).nodes = B(2).nodes \cup N(2) /\ B(3).committed = B(2).committed \cup R(2)
        /\ B(4).nodes = B(3).nodes \cup N(3) /\ B(4).committed = B(3).committed \cup R(3)
        /\ T.nodes = B(4).nodes \cup N(4) /\ T.committed = B(4).committed \cup R(4)
    <2>1. B(1).nodes = {} /\ B(1).committed = {}
      BY <1>1, <1>2
    <2>2. B(2).nodes = B(1).nodes \cup N(1) /\ B(2).committed = B(1).committed \cup R(1)
      BY <1>1, LayerAdds
    <2>3. B(3).nodes = B(2).nodes \cup N(2) /\ B(3).committed = B(2).committed \cup R(2)
      BY <1>1, LayerAdds
    <2>4. B(4).nodes = B(3).nodes \cup N(3) /\ B(4).committed = B(3).committed \cup R(3)
      BY <1>1, LayerAdds
    <2>5. T.nodes = B(4).nodes \cup N(4) /\ T.committed = B(4).committed \cup R(4)
      BY <1>1, LayerAdds
    <2> QED
      BY <2>1, <2>2, <2>3, <2>4, <2>5
  <1> HIDE DEF N, R
  <1>4. \A x : x \in T.nodes <=> \E layer \in 1..4 : x \in N(layer)
    <2>1. \A x : x \in T.nodes <=> x \in N(1) \/ x \in N(2) \/ x \in N(3) \/ x \in N(4)
      BY <1>3
    <2> QED
      BY <2>1
  <1>5. \A layer \in 1..4 : \A x : x \in B(layer).committed <=> \E below \in 1..4 : below < layer /\ x \in R(below)
    <2>1. \A x : /\ x \notin B(1).committed
                 /\ x \in B(2).committed <=> x \in R(1)
                 /\ x \in B(3).committed <=> x \in R(1) \/ x \in R(2)
                 /\ x \in B(4).committed <=> x \in R(1) \/ x \in R(2) \/ x \in R(3)
      BY <1>3
    <2> QED
      BY <2>1
  <1>6. \A layer \in 1..4 : B(layer).committed \subseteq T.committed
    BY <1>3
  <1> QED
    BY <1>4, <1>5, <1>6 DEF N, R, B, T

LEMMA NodesTraced ==
    ASSUME NEW proof, ValidPlansAndNodes(proof), ValidLinks(proof)
    PROVE  LET N == TraceLayers(proof).nodes
           IN /\ Functional(N) /\ Keys(N) = TreesOf(proof)
              /\ \A p \in proof.plan.trees :
                    Value(N, p.tree) = TreeTrace(proof, p, TraceLayers(proof).committed)
  <1> DEFINE C == TraceLayers(proof).committed
             N == TraceLayers(proof).nodes
             D(layer) == TraceBefore(proof, layer).committed
             Of(p) == <<p.tree, TreeTrace(proof, p, C)>>
  <1>1. /\ \A x : x \in N <=> \E layer \in 1..4 : x \in NodesOfLayer(proof, layer, D(layer))
        /\ \A layer \in 1..4 : \A x : x \in D(layer) <=>
              \E below \in 1..4 : below < layer /\ x \in RootsOfLayer(proof, below, D(below))
        /\ \A layer \in 1..4 : D(layer) \subseteq C
    BY LayersAdd
  <1>2. Functional(C)
    BY CommittedIs
  <1> HIDE DEF C, N, D
  <1>3. \A p \in proof.plan.trees : p.tree[1] \in 1..4 /\ p \in Plans(proof, p.tree[1]) /\ p.tree \in TreesOf(proof)
    BY LayerOf DEF TreesOf, Plans, Segment, Global
  <1>4. ASSUME NEW layer \in 1..4, NEW q \in proof.plan.trees, layer > q.tree[1]
        PROVE  q.tree \in Keys(D(layer))
    <2> DEFINE x == <<q.tree, TracedRoot(proof, q, D(q.tree[1]))>>
    <2>1. x \in RootsOfLayer(proof, q.tree[1], D(q.tree[1])) /\ x[1] = q.tree
      BY <1>3 DEF RootsOfLayer
    <2>2. q.tree[1] \in 1..4 /\ q.tree[1] < layer
      BY <1>3, <1>4
    <2> HIDE DEF x
    <2>3. x \in D(layer)
      BY <1>1, <2>1, <2>2
    <2> QED
      BY <2>1, <2>3 DEF Keys
  <1>5. ASSUME NEW p \in proof.plan.trees
        PROVE  TreeTrace(proof, p, D(p.tree[1])) = TreeTrace(proof, p, C)
    <2> DEFINE small == D(p.tree[1])
    <2>1. small \subseteq C
      BY <1>1, <1>3
    <2>2. \A t \in TreesOf(proof) : p.tree[1] > t[1] => t \in Keys(small)
      BY <1>3, <1>4 DEF TreesOf
    <2> HIDE DEF small
    <2>3. TreeTrace(proof, p, small) = TreeTrace(proof, p, C)
      BY <1>2, <2>1, <2>2, SameTrace
    <2> QED
      BY <2>3 DEF small
  <1>6. \A p \in proof.plan.trees : Of(p) \in N
    <2> SUFFICES ASSUME NEW p \in proof.plan.trees
                 PROVE  Of(p) \in N
      OBVIOUS
    <2>1. <<p.tree, TreeTrace(proof, p, D(p.tree[1]))>> \in NodesOfLayer(proof, p.tree[1], D(p.tree[1]))
      BY <1>3 DEF NodesOfLayer
    <2> QED
      BY <1>1, <1>3, <1>5, <2>1
  <1>7. ASSUME NEW x \in N
        PROVE  \E p \in proof.plan.trees : x = Of(p)
    <2>1. PICK layer \in 1..4 : x \in NodesOfLayer(proof, layer, D(layer))
      BY <1>1
    <2>2. PICK p \in Plans(proof, layer) : x = <<p.tree, TreeTrace(proof, p, D(layer))>>
      BY <2>1 DEF NodesOfLayer
    <2>3. p \in proof.plan.trees /\ p.tree[1] = layer
      BY DEF Plans
    <2> QED
      BY <1>5, <2>2, <2>3
  <1>8. \A p, q \in proof.plan.trees : p.tree = q.tree => p = q
    BY DEF ValidPlansAndNodes
  <1>9. \A p : Of(p)[1] = p.tree /\ Of(p)[2] = TreeTrace(proof, p, C)
    OBVIOUS
  <1> HIDE DEF Of
  <1>10. Functional(N)
    <2> SUFFICES ASSUME NEW x \in N, NEW y \in N, x[1] = y[1]
                 PROVE  x[2] = y[2]
      BY DEF Functional
    <2>1. PICK p \in proof.plan.trees : x = Of(p)
      BY <1>7
    <2>2. PICK q \in proof.plan.trees : y = Of(q)
      BY <1>7
    <2> QED
      BY <1>8, <1>9, <2>1, <2>2
  <1>11. Keys(N) = TreesOf(proof)
    <2>1. \A x \in N : x[1] \in TreesOf(proof)
      BY <1>3, <1>7, <1>9
    <2>2. \A t \in TreesOf(proof) : \E x \in N : t = x[1]
      BY <1>6, <1>9 DEF TreesOf
    <2> QED
      BY <2>1, <2>2 DEF Keys
  <1>12. \A p \in proof.plan.trees : Value(N, p.tree) = TreeTrace(proof, p, C)
    <2> SUFFICES ASSUME NEW p \in proof.plan.trees
                 PROVE  Value(N, p.tree) = TreeTrace(proof, p, C)
      OBVIOUS
    <2>1. Value(N, Of(p)[1]) = Of(p)[2]
      BY <1>6, <1>10, ValueIs
    <2> QED
      BY <1>9, <2>1
  <1> QED
    BY <1>10, <1>11, <1>12 DEF N, C

\* The record of a well-formed proof: per tree its nodes and its committed root.
LEMMA TraceIs ==
    ASSUME NEW proof, ValidPlansAndNodes(proof), ValidLinks(proof)
    PROVE  LET C == TraceLayers(proof).committed
               trace == HMFTrace(proof)
           IN /\ DOMAIN trace.nodes = TreesOf(proof) /\ DOMAIN trace.committed = TreesOf(proof)
              /\ \A p \in proof.plan.trees : /\ trace.nodes[p.tree] = TreeTrace(proof, p, C)
                                             /\ trace.committed[p.tree] = TracedRoot(proof, p, C)
              /\ \A t \in TreesOf(proof) : trace.committed[t] = Value(C, t)
  <1> DEFINE C == TraceLayers(proof).committed
             N == TraceLayers(proof).nodes
  <1>1. HMFTrace(proof).nodes = AsFunction(N) /\ HMFTrace(proof).committed = AsFunction(C)
    BY DEF HMFTrace
  <1>2. /\ Keys(C) = TreesOf(proof)
        /\ \A p \in proof.plan.trees : Value(C, p.tree) = TracedRoot(proof, p, C)
    BY CommittedIs
  <1>3. /\ Keys(N) = TreesOf(proof)
        /\ \A p \in proof.plan.trees : Value(N, p.tree) = TreeTrace(proof, p, C)
    BY NodesTraced
  <1>4. \A p \in proof.plan.trees : p.tree \in TreesOf(proof)
    BY DEF TreesOf
  <1> HIDE DEF C, N
  <1>5. /\ DOMAIN AsFunction(C) = Keys(C) /\ \A k \in Keys(C) : AsFunction(C)[k] = Value(C, k)
        /\ DOMAIN AsFunction(N) = Keys(N) /\ \A k \in Keys(N) : AsFunction(N)[k] = Value(N, k)
    BY AsFunctionIs
  <1> QED
    BY <1>1, <1>2, <1>3, <1>4, <1>5 DEF C

-----------------------------------------------------------------------------
(* The hashes of a proof, and the trace that they lead to *)

\* A well-formed proof for addresses, of trees that have a number of leaves.
WellShaped(proof, addresses) ==
    /\ WellFormed(proof, addresses)
    /\ \A a \in addresses : IsAddress(a)
    /\ \A p \in proof.plan.trees : \E list : IsList(list) /\ Len(list) = p.leafCount

\* What the plan of a tree says in a well-formed proof.
LEMMA PlanSays ==
    ASSUME NEW proof, NEW addresses, WellShaped(proof, addresses), NEW p \in proof.plan.trees
    PROVE  /\ p.required = RequiredAbove(p.targets, p.leafCount)
           /\ p.leafCount > 0 /\ p.targets # {} /\ p.targets \subseteq 0..(p.leafCount - 1)
           /\ \A i \in p.targets : <<0, i>> \notin p.required
  <1> DEFINE committed == TraceLayers(proof).committed
  <1>1. p.leafCount > 0 /\ p.targets # {} /\ p.targets \subseteq 0..(p.leafCount - 1)
    <2> HIDE DEF IsAddress
    <2> QED
      BY StartsAreTargets DEF WellShaped
  <1>2. p.required = RequiredAbove(p.targets, p.leafCount)
    <2>1. p \in PlanTree(p.tree, p.leafCount, p.targets)
      BY DEF WellShaped, WellFormed, ValidPlansAndNodes, ValidTreePlanShape
    <2>2. p = [tree |-> p.tree, leafCount |-> p.leafCount, targets |-> p.targets,
               required |-> RequiredAbove(p.targets, p.leafCount)]
      BY <2>1 DEF PlanTree
    <2> QED
      BY <2>2
  <1>3. PICK list : IsList(list) /\ Len(list) = p.leafCount
    BY DEF WellShaped
  <1>4. ASSUME NEW i \in p.targets
        PROVE  <<0, i>> \notin p.required
    <2> DEFINE targets == p.targets
    <2>1. targets \subseteq 0..(Len(list) - 1) /\ Len(list) > 0 /\ p.required = RequiredAbove(targets, Len(list))
      BY <1>1, <1>2, <1>3
    <2> HIDE DEF targets
    <2>2. targets \subseteq Nat
      BY <1>3, <2>1 DEF IsList
    <2>3. i \in Active(targets, 0)
      BY <2>2, ActiveUp DEF targets
    <2> QED
      BY <1>3, <2>1, <2>3, WayNotRequired
  <1> QED
    BY <1>1, <1>2, <1>4

\* TraceHMFProof, tree by tree.
LEMMA TraceSays ==
    ASSUME NEW proof, NEW addresses, WellShaped(proof, addresses), NEW p \in proof.plan.trees,
           NEW list, IsList(list), Len(list) = p.leafCount
    PROVE  LET f == HMFTrace(proof).nodes[p.tree]
               committed == HMFTrace(proof).committed
           IN /\ IsTraceOf(f, list, p.targets)
              /\ \A n \in proof.nodes : n[1] = p.tree => f[n[2]] = n[3]
              /\ p.tree[1] = Segment =>
                    \A l \in proof.leaves : SegmentTreeRef(l[1]) = p.tree => f[<<0, l[1][4]>>] = l[2]
              /\ p.tree[1] # Segment =>
                    \A l \in proof.plan.links : l.parent = p.tree => f[<<0, l.index>>] = committed[l.child]
              /\ committed[p.tree] = CommittedRoot(p.tree, p.leafCount, f[<<BitsLen[p.leafCount - 1], 0>>])
  <1> DEFINE C == TraceLayers(proof).committed
             f == HMFTrace(proof).nodes[p.tree]
             committed == HMFTrace(proof).committed
             S == Starts(proof, p, C)
             U == Supplied(proof, p)
  <1>1. ValidPlansAndNodes(proof) /\ ValidLinks(proof)
    BY DEF WellShaped, WellFormed
  <1>2. /\ f = TreeTrace(proof, p, C) /\ committed[p.tree] = TracedRoot(proof, p, C)
        /\ \A t \in TreesOf(proof) : committed[t] = Value(C, t)
    BY <1>1, TraceIs
  <1>3. /\ IsLeafMap(S) /\ TargetsOf(S) = p.targets
        /\ Functional(U) /\ Keys(U) = RequiredAbove(p.targets, p.leafCount)
        /\ p.leafCount > 0 /\ p.targets \subseteq 0..(p.leafCount - 1)
    <2> HIDE DEF IsAddress
    <2> QED
      BY StartsAreTargets DEF WellShaped
  <1>4. TreeTrace(proof, p, C) = ReconstructAbove(Len(list), S, U)
    BY TreeTraceDef
  <1> HIDE DEF C, f, committed, S, U
  <1>5. /\ IsTraceOf(f, list, p.targets)
        /\ \A x \in S \cup U : f[x[1]] = x[2]
    <2> DEFINE g == ReconstructAbove(Len(list), S, U)
    <2>1. TargetsOf(S) \subseteq 0..(Len(list) - 1) /\ Keys(U) = RequiredAbove(TargetsOf(S), Len(list)) /\ Len(list) > 0
      BY <1>3
    <2>2. IsTraceOf(g, list, TargetsOf(S)) /\ \A x \in S \cup U : g[x[1]] = x[2]
      BY <1>3, <2>1, ReconstructTraces
    <2> HIDE DEF g
    <2>3. f = g
      BY <1>2, <1>4 DEF g
    <2> QED
      BY <1>3, <2>2, <2>3
  <1>6. \A n \in proof.nodes : n[1] = p.tree => f[n[2]] = n[3]
    <2> SUFFICES ASSUME NEW n \in proof.nodes, n[1] = p.tree
                 PROVE  f[n[2]] = n[3]
      OBVIOUS
    <2> DEFINE x == <<n[2], n[3]>>
    <2>1. x \in U /\ x[1] = n[2] /\ x[2] = n[3]
      BY DEF U, Supplied
    <2> HIDE DEF x
    <2> QED
      BY <1>5, <2>1
  <1>7. ASSUME p.tree[1] = Segment, NEW l \in proof.leaves, SegmentTreeRef(l[1]) = p.tree
        PROVE  f[<<0, l[1][4]>>] = l[2]
    <2> DEFINE x == <<<<0, l[1][4]>>, l[2]>>
    <2>1. x \in S /\ x[1] = <<0, l[1][4]>> /\ x[2] = l[2]
      BY <1>7 DEF S, Starts
    <2> HIDE DEF x
    <2> QED
      BY <1>5, <2>1
  <1>8. ASSUME p.tree[1] # Segment, NEW l \in proof.plan.links, l.parent = p.tree
        PROVE  f[<<0, l.index>>] = committed[l.child]
    <2> DEFINE x == <<<<0, l.index>>, Value(C, l.child)>>
    <2>1. x \in S /\ x[1] = <<0, l.index>> /\ x[2] = Value(C, l.child)
      BY <1>8 DEF S, Starts
    <2> HIDE DEF x
    <2>2. l.child \in TreesOf(proof)
      BY <1>1 DEF ValidLinks, TreesOf
    <2> QED
      BY <1>2, <1>5, <2>1, <2>2
  <1>9. committed[p.tree] = CommittedRoot(p.tree, p.leafCount, f[<<BitsLen[p.leafCount - 1], 0>>])
    BY <1>2 DEF TracedRoot, Commit
  <1> QED
    BY <1>5, <1>6, <1>7, <1>8, <1>9 DEF f, committed

\* The references of a proof are its addresses and the nodes that its plan requires, each
\* with one hash.
LEMMA HashesAre ==
    ASSUME NEW proof, NEW addresses, WellShaped(proof, addresses)
    PROVE  /\ \A ref : ref \in Refs(proof) <=>
                 \/ \E a \in addresses : ref = TargetRef(a)
                 \/ \E p \in proof.plan.trees : \E k \in p.required : ref = <<p.tree, k>>
           /\ \A l \in proof.leaves : l[1] \in addresses /\ HashAt(proof, TargetRef(l[1])) = l[2]
           /\ \A n \in proof.nodes : HashAt(proof, <<n[1], n[2]>>) = n[3]
           /\ \A a \in addresses : \E l \in proof.leaves : l[1] = a
           /\ \A p \in proof.plan.trees : \A k \in p.required : \E n \in proof.nodes : n[1] = p.tree /\ n[2] = k
  <1>1. /\ \A l, k \in proof.leaves : l[1] = k[1] => l = k
        /\ \A l \in proof.leaves : l[1] \in addresses
        /\ \A a \in addresses : \E l \in proof.leaves : l[1] = a
    BY DEF WellShaped, WellFormed, ValidProofLeaves
  <1>2. /\ \A n, k \in proof.nodes : <<n[1], n[2]>> = <<k[1], k[2]>> => n = k
        /\ {<<n[1], n[2]>> : n \in proof.nodes}
             = UNION {{<<p.tree, r>> : r \in p.required} : p \in proof.plan.trees}
    BY DEF WellShaped, WellFormed, ValidPlansAndNodes
  <1>3. \A n \in proof.nodes : \E p \in proof.plan.trees : n[1] = p.tree /\ n[2] \in p.required
    <2> SUFFICES ASSUME NEW n \in proof.nodes
                 PROVE  \E p \in proof.plan.trees : n[1] = p.tree /\ n[2] \in p.required
      OBVIOUS
    <2> DEFINE key == <<n[1], n[2]>>
               given == {<<m[1], m[2]>> : m \in proof.nodes}
               Of(p) == {<<p.tree, r>> : r \in p.required}
    <2>1. key \in given
      OBVIOUS
    <2>2. given = UNION {Of(p) : p \in proof.plan.trees}
      BY <1>2
    <2> HIDE DEF key, given, Of
    <2>3. PICK p \in proof.plan.trees : key \in Of(p)
      BY <2>1, <2>2
    <2> QED
      BY <2>3 DEF key, Of
  <1>4. \A p \in proof.plan.trees : \A k \in p.required : \E n \in proof.nodes : n[1] = p.tree /\ n[2] = k
    <2> SUFFICES ASSUME NEW p \in proof.plan.trees, NEW k \in p.required
                 PROVE  \E n \in proof.nodes : n[1] = p.tree /\ n[2] = k
      OBVIOUS
    <2> DEFINE key == <<p.tree, k>>
               given == {<<n[1], n[2]>> : n \in proof.nodes}
               Of(q) == {<<q.tree, r>> : r \in q.required}
    <2>1. key \in Of(p)
      OBVIOUS
    <2>2. given = UNION {Of(q) : q \in proof.plan.trees}
      BY <1>2
    <2> HIDE DEF key, given, Of
    <2>3. key \in given
      BY <2>1, <2>2
    <2> QED
      BY <2>3 DEF key, given
  <1>5. \A a, b \in addresses : TargetRef(a) = TargetRef(b) => a = b
    <2> SUFFICES ASSUME NEW a \in addresses, NEW b \in addresses, TargetRef(a) = TargetRef(b)
                 PROVE  a = b
      OBVIOUS
    <2>1. a = <<a[1], a[2], a[3], a[4]>> /\ b = <<b[1], b[2], b[3], b[4]>>
      BY DEF WellShaped, IsAddress
    <2>2. <<Segment, a[1], a[2], a[3]>> = <<Segment, b[1], b[2], b[3]>> /\ <<0, a[4]>> = <<0, b[4]>>
      BY DEF TargetRef, SegmentTreeRef
    <2>3. a[1] = b[1] /\ a[2] = b[2] /\ a[3] = b[3] /\ a[4] = b[4]
      BY <2>2
    <2> QED
      BY <2>1, <2>3
  <1>6. ASSUME NEW n \in proof.nodes, NEW a \in addresses
        PROVE  <<n[1], n[2]>> # TargetRef(a)
    <2> SUFFICES ASSUME <<n[1], n[2]>> = TargetRef(a)
                 PROVE  FALSE
      OBVIOUS
    <2>1. PICK p \in proof.plan.trees : n[1] = p.tree /\ n[2] \in p.required
      BY <1>3
    <2>2. p.tree = SegmentTreeRef(a) /\ <<0, a[4]>> \in p.required
      BY <2>1 DEF TargetRef
    <2>3. p.tree[1] = Segment
      BY <2>2 DEF SegmentTreeRef
    <2>4. PICK l \in proof.leaves : l[1] = a
      BY <1>1
    <2>5. a[4] \in p.targets
      <3>1. p.targets = {k[1][4] : k \in {m \in proof.leaves : SegmentTreeRef(m[1]) = p.tree}}
        BY <2>3 DEF WellShaped, WellFormed, ValidTargets
      <3> QED
        BY <2>2, <2>4, <3>1
    <2> QED
      BY <2>2, <2>5, PlanSays
  <1>7. \A l \in proof.leaves : HashAt(proof, TargetRef(l[1])) = l[2]
    <2> SUFFICES ASSUME NEW l \in proof.leaves
                 PROVE  HashAt(proof, TargetRef(l[1])) = l[2]
      OBVIOUS
    <2> DEFINE c == CHOOSE k \in proof.leaves : TargetRef(k[1]) = TargetRef(l[1])
    <2>1. c \in proof.leaves /\ TargetRef(c[1]) = TargetRef(l[1])
      OBVIOUS
    <2>2. c = l
      BY <1>1, <1>5, <2>1
    <2>3. HashAt(proof, TargetRef(l[1])) = c[2]
      BY DEF HashAt
    <2> QED
      BY <2>2, <2>3
  <1>8. \A n \in proof.nodes : HashAt(proof, <<n[1], n[2]>>) = n[3]
    <2> SUFFICES ASSUME NEW n \in proof.nodes
                 PROVE  HashAt(proof, <<n[1], n[2]>>) = n[3]
      OBVIOUS
    <2> DEFINE ref == <<n[1], n[2]>>
               c == CHOOSE k \in proof.nodes : <<k[1], k[2]>> = ref
    <2>1. c \in proof.nodes /\ <<c[1], c[2]>> = ref
      OBVIOUS
    <2>2. c = n
      BY <1>2, <2>1
    <2>3. ~\E l \in proof.leaves : TargetRef(l[1]) = ref
      BY <1>1, <1>6
    <2>4. HashAt(proof, ref) = c[3]
      BY <2>3 DEF HashAt
    <2> QED
      BY <2>2, <2>4
  <1>9. ASSUME NEW ref
        PROVE  ref \in Refs(proof) <=>
                 \/ \E a \in addresses : ref = TargetRef(a)
                 \/ \E p \in proof.plan.trees : \E k \in p.required : ref = <<p.tree, k>>
    <2>1. ref \in {TargetRef(l[1]) : l \in proof.leaves} <=> \E a \in addresses : ref = TargetRef(a)
      BY <1>1
    <2>2. ref \in {<<n[1], n[2]>> : n \in proof.nodes} <=>
             \E p \in proof.plan.trees : \E k \in p.required : ref = <<p.tree, k>>
      BY <1>2
    <2> QED
      BY <2>1, <2>2 DEF Refs
  <1> QED
    BY <1>1, <1>4, <1>7, <1>8, <1>9

-----------------------------------------------------------------------------
(* Two proofs of one plan: where their hashes differ *)

Alike(failed, proof, addresses) ==
    WellShaped(failed, addresses) /\ WellShaped(proof, addresses) /\ failed.plan = proof.plan

Changed(failed, proof) == {ref \in Refs(proof) : HashAt(failed, ref) # HashAt(proof, ref)}

\* The traces of a tree in both.
AuditorNodes(failed, t) == HMFTrace(failed).nodes[t]
ReferenceNodes(proof, t) == HMFTrace(proof).nodes[t]
Mismatch(failed, proof, t) == TreeMismatch(t, HMFTrace(failed), HMFTrace(proof))
EndsOf(failed, proof, t) == Ends(AuditorNodes(failed, t), ReferenceNodes(proof, t))

\* A leaf that is the root of a tree that differs.
IsCovered(failed, proof, t, k) ==
    k[1] = 0 /\ \E l \in proof.plan.links : l.parent = t /\ l.index = k[2] /\ Mismatch(failed, proof, l.child)

\* A committed root has the leaf count and the root in it.
LEMMA RootsDiffer ==
    ASSUME NEW t, t[1] \in 1..4, NEW n, NEW m, NEW x, NEW y
    PROVE  CommittedRoot(t, n, x) = CommittedRoot(t, m, y) <=> n = m /\ x = y
  <1>1. CASE t[1] = Segment
    <2>1. /\ CommittedRoot(t, n, x) = <<"SEGMENT", <<t[2], t[3]>>, t[4], n, x>>
          /\ CommittedRoot(t, m, y) = <<"SEGMENT", <<t[2], t[3]>>, t[4], m, y>>
      BY <1>1, CommittedRootIs
    <2> QED
      BY <2>1
  <1>2. CASE t[1] = Shard
    <2>1. /\ CommittedRoot(t, n, x) = <<"SHARD", <<t[2], t[3]>>, n, x>>
          /\ CommittedRoot(t, m, y) = <<"SHARD", <<t[2], t[3]>>, m, y>>
      BY <1>2, CommittedRootIs
    <2> QED
      BY <2>1
  <1>3. CASE t[1] = Region
    <2>1. /\ CommittedRoot(t, n, x) = <<"REGION", t[2], n, x>>
          /\ CommittedRoot(t, m, y) = <<"REGION", t[2], m, y>>
      BY <1>3, CommittedRootIs
    <2> QED
      BY <2>1
  <1>4. CASE t[1] = Global
    <2>1. CommittedRoot(t, n, x) = <<"GLOBAL", -1, n, x>> /\ CommittedRoot(t, m, y) = <<"GLOBAL", -1, m, y>>
      BY <1>4, CommittedRootIs
    <2> QED
      BY <2>1
  <1> QED
    BY <1>1, <1>2, <1>3, <1>4 DEF Segment, Shard, Region, Global

\* The traces of a tree in two proofs that have it with as many leaves: its root differs just
\* when there is an end that does.
LEMMA TreesComparable ==
    ASSUME NEW failed, NEW proof, NEW addresses, WellShaped(failed, addresses), WellShaped(proof, addresses),
           NEW q \in failed.plan.trees, NEW p \in proof.plan.trees, q.tree = p.tree, q.leafCount = p.leafCount
    PROVE  /\ Comparable(AuditorNodes(failed, p.tree), ReferenceNodes(proof, p.tree), BitsLen[p.leafCount - 1])
           /\ Mismatch(failed, proof, p.tree) <=> EndsOf(failed, proof, p.tree) # {}
  <1> DEFINE left == AuditorNodes(failed, p.tree)
             right == ReferenceNodes(proof, p.tree)
             top == BitsLen[p.leafCount - 1]
             A == HMFTrace(failed).committed
             R == HMFTrace(proof).committed
  <1>1. PICK list : IsList(list) /\ Len(list) = p.leafCount
    BY DEF WellShaped
  <1>2. p.leafCount > 0 /\ p.targets # {} /\ p.targets \subseteq 0..(p.leafCount - 1)
    BY PlanSays
  <1>3. q.targets # {} /\ q.targets \subseteq 0..(q.leafCount - 1)
    BY PlanSays
  <1>4. /\ IsTraceOf(left, list, q.targets)
        /\ A[p.tree] = CommittedRoot(p.tree, p.leafCount, left[<<top, 0>>])
    <2>1. Len(list) = q.leafCount
      BY <1>1
    <2>2. /\ IsTraceOf(HMFTrace(failed).nodes[q.tree], list, q.targets)
          /\ A[q.tree] = CommittedRoot(q.tree, q.leafCount,
                                       HMFTrace(failed).nodes[q.tree][<<BitsLen[q.leafCount - 1], 0>>])
      BY <1>1, <2>1, TraceSays
    <2> QED
      BY <2>2 DEF AuditorNodes
  <1>5. /\ IsTraceOf(right, list, p.targets)
        /\ R[p.tree] = CommittedRoot(p.tree, p.leafCount, right[<<top, 0>>])
    BY <1>1, TraceSays DEF ReferenceNodes
  <1> HIDE DEF left, right
  <1>6. Comparable(left, right, top)
    <2> DEFINE targets == q.targets
               others == p.targets
    <2>1. /\ targets \subseteq 0..(Len(list) - 1) /\ targets # {} /\ IsTraceOf(left, list, targets)
          /\ others \subseteq 0..(Len(list) - 1) /\ others # {} /\ IsTraceOf(right, list, others)
          /\ Len(list) > 0
      BY <1>1, <1>2, <1>3, <1>4, <1>5
    <2> HIDE DEF targets, others
    <2>2. Comparable(left, right, BitsLen[Len(list) - 1])
      BY <1>1, <2>1, TracesCompare
    <2> QED
      BY <1>1, <2>2
  <1>8. left[<<top, 0>>] # right[<<top, 0>>] <=> Ends(left, right) # {}
    BY <1>6, TopDiffers
  <1>9. p.tree[1] \in 1..4
    <2>1. p.tree \in TreesOf(proof) /\ ValidLinks(proof)
      BY DEF TreesOf, WellShaped, WellFormed
    <2> QED
      BY <2>1, LayerOf DEF Segment, Global
  <1>10. A[p.tree] = R[p.tree] <=> left[<<top, 0>>] = right[<<top, 0>>]
    BY <1>4, <1>5, <1>9, RootsDiffer
  <1>11. Mismatch(failed, proof, p.tree) <=> A[p.tree] # R[p.tree]
    <2>1. p.tree \in DOMAIN A /\ p.tree \in DOMAIN R
      <3>1. /\ ValidPlansAndNodes(failed) /\ ValidLinks(failed)
            /\ ValidPlansAndNodes(proof) /\ ValidLinks(proof)
        BY DEF WellShaped, WellFormed
      <3>2. DOMAIN A = TreesOf(failed) /\ DOMAIN R = TreesOf(proof)
        BY <3>1, TraceIs
      <3>3. p.tree \in TreesOf(failed) /\ p.tree \in TreesOf(proof)
        BY DEF TreesOf
      <3> QED
        BY <3>2, <3>3
    <2> QED
      BY <2>1 DEF Mismatch, TreeMismatch, SameNode
  <1> QED
    BY <1>6, <1>8, <1>10, <1>11 DEF left, right, EndsOf

\* With the same plan they have the same nodes, and the search ends at leaves and at required
\* nodes.
LEMMA TreesCompare ==
    ASSUME NEW failed, NEW proof, NEW addresses, Alike(failed, proof, addresses), NEW p \in proof.plan.trees
    PROVE  LET left == AuditorNodes(failed, p.tree)
               right == ReferenceNodes(proof, p.tree)
           IN /\ Comparable(left, right, BitsLen[p.leafCount - 1])
              /\ DOMAIN left = TraceNodes(p.targets, p.leafCount) /\ DOMAIN right = DOMAIN left
              /\ \A k \in DOMAIN left : ~CanDescend(k, left, right) <=> k[1] = 0 \/ k \in p.required
              /\ Mismatch(failed, proof, p.tree) <=> EndsOf(failed, proof, p.tree) # {}
  <1> DEFINE left == AuditorNodes(failed, p.tree)
             right == ReferenceNodes(proof, p.tree)
  <1>1. /\ WellShaped(failed, addresses) /\ WellShaped(proof, addresses)
        /\ p \in failed.plan.trees /\ failed.plan = proof.plan
    BY DEF Alike
  <1>2. PICK list : IsList(list) /\ Len(list) = p.leafCount
    BY <1>1 DEF WellShaped
  <1>3. /\ p.required = RequiredAbove(p.targets, p.leafCount)
        /\ p.leafCount > 0 /\ p.targets # {} /\ p.targets \subseteq 0..(p.leafCount - 1)
    BY <1>1, PlanSays
  <1>4. IsTraceOf(left, list, p.targets)
    BY <1>1, <1>2, TraceSays DEF AuditorNodes
  <1>5. IsTraceOf(right, list, p.targets)
    BY <1>1, <1>2, TraceSays DEF ReferenceNodes
  <1>6. /\ Comparable(left, right, BitsLen[p.leafCount - 1])
        /\ Mismatch(failed, proof, p.tree) <=> EndsOf(failed, proof, p.tree) # {}
    BY <1>1, TreesComparable
  <1> HIDE DEF left, right
  <1>7. \A k \in DOMAIN left : ~CanDescend(k, left, right) <=> k[1] = 0 \/ k \in p.required
    <2> DEFINE targets == p.targets
    <2>1. targets \subseteq 0..(Len(list) - 1) /\ targets # {} /\ Len(list) > 0
          /\ IsTraceOf(left, list, targets) /\ IsTraceOf(right, list, targets)
      BY <1>2, <1>3, <1>4, <1>5
    <2> HIDE DEF targets
    <2>2. \A k \in DOMAIN left : ~CanDescend(k, left, right) <=> k[1] = 0 \/ k \in RequiredAbove(targets, Len(list))
      BY <1>2, <2>1, TraceEnds
    <2> QED
      BY <1>2, <1>3, <2>2 DEF targets
  <1>8. DOMAIN left = TraceNodes(p.targets, p.leafCount) /\ DOMAIN right = DOMAIN left
    BY <1>2, <1>4, <1>5 DEF IsTraceOf
  <1> QED
    BY <1>6, <1>7, <1>8 DEF left, right

\* The hashes of two such proofs have the same references.
LEMMA SameRefs ==
    ASSUME NEW failed, NEW proof, NEW addresses, Alike(failed, proof, addresses)
    PROVE  /\ Refs(failed) = Refs(proof)
           /\ \A ref : ref \in Refs(proof) <=>
                 \/ \E a \in addresses : ref = TargetRef(a)
                 \/ \E p \in proof.plan.trees : \E k \in p.required : ref = <<p.tree, k>>
  <1>1. WellShaped(failed, addresses) /\ WellShaped(proof, addresses) /\ failed.plan = proof.plan
    BY DEF Alike
  <1>2. \A ref : ref \in Refs(failed) <=>
                 \/ \E a \in addresses : ref = TargetRef(a)
                 \/ \E p \in failed.plan.trees : \E k \in p.required : ref = <<p.tree, k>>
    BY <1>1, HashesAre
  <1>3. \A ref : ref \in Refs(proof) <=>
                 \/ \E a \in addresses : ref = TargetRef(a)
                 \/ \E p \in proof.plan.trees : \E k \in p.required : ref = <<p.tree, k>>
    BY <1>1, HashesAre
  <1> QED
    BY <1>1, <1>2, <1>3

\* The hash at a node that the plan requires, and at a leaf that is asked for, is the
\* one in the trace.
LEMMA TraceHasHashes ==
    ASSUME NEW proof, NEW addresses, WellShaped(proof, addresses), NEW p \in proof.plan.trees
    PROVE  LET f == HMFTrace(proof).nodes[p.tree]
           IN /\ \A k \in p.required : f[k] = HashAt(proof, <<p.tree, k>>)
              /\ p.tree[1] = Segment =>
                    \A i : i \in p.targets => f[<<0, i>>] = HashAt(proof, <<p.tree, <<0, i>>>>)
  <1> DEFINE f == HMFTrace(proof).nodes[p.tree]
  <1>1. PICK list : IsList(list) /\ Len(list) = p.leafCount
    BY DEF WellShaped
  <1>2. /\ \A n \in proof.nodes : n[1] = p.tree => f[n[2]] = n[3]
        /\ p.tree[1] = Segment =>
              \A l \in proof.leaves : SegmentTreeRef(l[1]) = p.tree => f[<<0, l[1][4]>>] = l[2]
    BY <1>1, TraceSays
  <1>3. /\ \A l \in proof.leaves : HashAt(proof, TargetRef(l[1])) = l[2]
        /\ \A n \in proof.nodes : HashAt(proof, <<n[1], n[2]>>) = n[3]
        /\ \A k \in p.required : \E n \in proof.nodes : n[1] = p.tree /\ n[2] = k
    BY HashesAre
  <1> HIDE DEF f
  <1>4. ASSUME NEW k \in p.required
        PROVE  f[k] = HashAt(proof, <<p.tree, k>>)
    <2>1. PICK n \in proof.nodes : n[1] = p.tree /\ n[2] = k
      BY <1>3
    <2> QED
      BY <1>2, <1>3, <2>1
  <1>5. ASSUME p.tree[1] = Segment, NEW i \in p.targets
        PROVE  f[<<0, i>>] = HashAt(proof, <<p.tree, <<0, i>>>>)
    <2>1. p.targets = {k[1][4] : k \in {m \in proof.leaves : SegmentTreeRef(m[1]) = p.tree}}
      BY <1>5 DEF WellShaped, WellFormed, ValidTargets
    <2>2. PICK l \in proof.leaves : SegmentTreeRef(l[1]) = p.tree /\ i = l[1][4]
      BY <2>1
    <2>3. f[<<0, i>>] = l[2]
      BY <1>2, <1>5, <2>2
    <2>4. TargetRef(l[1]) = <<p.tree, <<0, i>>>>
      BY <2>2 DEF TargetRef
    <2> QED
      BY <1>3, <2>3, <2>4
  <1> QED
    BY <1>4, <1>5 DEF f

\* A tree above another is no segment.
LEMMA ParentsAre ==
    ASSUME NEW proof, ValidLinks(proof), NEW l \in proof.plan.links
    PROVE  /\ l.child \in TreesOf(proof) /\ l.parent \in TreesOf(proof) /\ l.parent = ParentTree(l.child)
           /\ l.child[1] \in 1..3 /\ l.parent[1] = l.child[1] + 1 /\ l.parent[1] # Segment
  <1>1. /\ l.child \in TreesOf(proof) /\ l.parent \in TreesOf(proof) /\ l.parent = ParentTree(l.child)
        /\ l.child[1] \in 1..3
    BY DEF ValidLinks, TreesOf, Segment, Region
  <1>2. ParentTree(l.child)[1] = l.child[1] + 1
    BY <1>1 DEF ParentTree, GlobalTreeRef, Segment, Shard, Region, Global
  <1> QED
    BY <1>1, <1>2 DEF Segment

\* The committed root of the tree below is the leaf of the tree above, in both.
LEMMA LinksCompare ==
    ASSUME NEW failed, NEW proof, NEW addresses, Alike(failed, proof, addresses), NEW p \in proof.plan.trees,
           NEW l \in proof.plan.links, l.parent = p.tree
    PROVE  /\ l.index \in p.targets
           /\ Mismatch(failed, proof, l.child) <=>
                 AuditorNodes(failed, p.tree)[<<0, l.index>>] # ReferenceNodes(proof, p.tree)[<<0, l.index>>]
  <1>1. /\ WellShaped(failed, addresses) /\ WellShaped(proof, addresses) /\ failed.plan = proof.plan
        /\ ValidPlansAndNodes(failed) /\ ValidLinks(failed)
        /\ ValidPlansAndNodes(proof) /\ ValidLinks(proof)
    BY DEF Alike, WellShaped, WellFormed
  <1>2. p.tree[1] # Segment /\ l.child \in TreesOf(proof) /\ l.child \in TreesOf(failed)
    <2>1. p.tree[1] # Segment /\ l.child \in TreesOf(proof)
      BY <1>1, ParentsAre
    <2> QED
      BY <1>1, <2>1 DEF TreesOf
  <1>3. PICK list : IsList(list) /\ Len(list) = p.leafCount
    BY <1>1 DEF WellShaped
  <1>4. ReferenceNodes(proof, p.tree)[<<0, l.index>>] = HMFTrace(proof).committed[l.child]
    BY <1>1, <1>2, <1>3, TraceSays DEF ReferenceNodes
  <1>5. AuditorNodes(failed, p.tree)[<<0, l.index>>] = HMFTrace(failed).committed[l.child]
    <2>1. p \in failed.plan.trees /\ l \in failed.plan.links
      BY <1>1
    <2> QED
      BY <1>1, <1>2, <1>3, <2>1, TraceSays DEF AuditorNodes
  <1>6. l.child \in DOMAIN HMFTrace(failed).committed /\ l.child \in DOMAIN HMFTrace(proof).committed
    BY <1>1, <1>2, TraceIs
  <1>7. l.index \in p.targets
    <2>1. p.targets = {k.index : k \in {m \in proof.plan.links : m.parent = p.tree}}
      BY <1>1, <1>2 DEF WellShaped, WellFormed, ValidTargets
    <2> QED
      BY <2>1
  <1> QED
    BY <1>4, <1>5, <1>6, <1>7 DEF Mismatch, TreeMismatch, SameNode

\* The ends of a tree that differ are its hashes that differ, and the leaves that are
\* the roots of trees that do.
LEMMA EndsAre ==
    ASSUME NEW failed, NEW proof, NEW addresses, Alike(failed, proof, addresses), NEW p \in proof.plan.trees
    PROVE  /\ \A k \in EndsOf(failed, proof, p.tree) :
                 IsCovered(failed, proof, p.tree, k) \/ <<p.tree, k>> \in Changed(failed, proof)
           /\ \A k : <<p.tree, k>> \in Changed(failed, proof) =>
                 k \in EndsOf(failed, proof, p.tree) /\ ~IsCovered(failed, proof, p.tree, k)
           /\ \A l \in proof.plan.links :
                 l.parent = p.tree /\ Mismatch(failed, proof, l.child) => EndsOf(failed, proof, p.tree) # {}
  <1> DEFINE t == p.tree
             left == AuditorNodes(failed, t)
             right == ReferenceNodes(proof, t)
             top == BitsLen[p.leafCount - 1]
             C == Changed(failed, proof)
             Ref(k) == <<t, k>>
  <1>1. /\ WellShaped(failed, addresses) /\ WellShaped(proof, addresses) /\ failed.plan = proof.plan
        /\ p \in failed.plan.trees /\ ValidLinks(proof)
        /\ \A q \in proof.plan.trees : q.tree = t => q = p
    BY DEF Alike, WellShaped, WellFormed, ValidPlansAndNodes
  <1>2. /\ DOMAIN left = DOMAIN right
        /\ \A k \in DOMAIN left : k = <<k[1], k[2]>>
        /\ DOMAIN left = TraceNodes(p.targets, p.leafCount)
        /\ \A k \in DOMAIN left : ~CanDescend(k, left, right) <=> k[1] = 0 \/ k \in p.required
    <2>1. Comparable(left, right, top) /\ DOMAIN left = DOMAIN right
      BY TreesCompare
    <2>2. DOMAIN left = DOMAIN right /\ \A k \in DOMAIN left : k = <<k[1], k[2]>>
      BY <2>1 DEF Comparable, Both
    <2> QED
      BY <2>2, TreesCompare
  <1>3. /\ p.required = RequiredAbove(p.targets, p.leafCount)
        /\ \A i \in p.targets : <<0, i>> \notin p.required
        /\ p.targets \subseteq 0..(p.leafCount - 1)
    BY <1>1, PlanSays
  <1>4. PICK list : IsList(list) /\ Len(list) = p.leafCount
    BY <1>1 DEF WellShaped
  <1>5. /\ p.targets \subseteq Nat /\ top \in Nat
    <2>1. Len(list) > 0 /\ Len(list) \in Nat
      <3>1. p.leafCount > 0
        BY <1>1, PlanSays
      <3> QED
        BY <1>4, <3>1 DEF IsList
    <2>2. BitsLen[Len(list) - 1] \in Nat
      BY <1>4, <2>1, WidthsAre
    <2> QED
      BY <1>3, <1>4, <2>1, <2>2
  <1>6. \A i : i \in p.targets <=> <<0, i>> \in OnTheWay(p.targets, top)
    <2>1. Active(p.targets, 0) = p.targets
      BY <1>5, ActiveUp
    <2>2. 0 \in 0..top
      BY <1>5
    <2>3. \A i \in p.targets : <<0, i>> \in OnTheWay(p.targets, top)
      BY <1>5, <2>1, <2>2, NodesOnWay
    <2>4. ASSUME NEW i, <<0, i>> \in OnTheWay(p.targets, top)
          PROVE  i \in p.targets
      <3>1. <<0, i>>[2] \in Active(p.targets, <<0, i>>[1])
        BY <1>5, <2>4, NodesOnWay
      <3> QED
        BY <2>1, <3>1
    <2> QED
      BY <2>3, <2>4
  <1>7. DOMAIN left = OnTheWay(p.targets, top) \cup p.required
    BY <1>2, <1>3 DEF TraceNodes
  <1>8. \A k : k \in EndsOf(failed, proof, t) <=> k \in DOMAIN left /\ left[k] # right[k] /\ ~CanDescend(k, left, right)
    BY <1>2 DEF EndsOf, Ends, Different, Both
  <1>9. /\ \A k \in p.required : left[k] = HashAt(failed, Ref(k)) /\ right[k] = HashAt(proof, Ref(k))
        /\ t[1] = Segment => \A i : i \in p.targets =>
              left[<<0, i>>] = HashAt(failed, Ref(<<0, i>>)) /\ right[<<0, i>>] = HashAt(proof, Ref(<<0, i>>))
    <2>1. /\ \A k \in p.required : left[k] = HashAt(failed, Ref(k))
          /\ t[1] = Segment => \A i : i \in p.targets => left[<<0, i>>] = HashAt(failed, Ref(<<0, i>>))
      BY <1>1, TraceHasHashes DEF AuditorNodes
    <2>2. /\ \A k \in p.required : right[k] = HashAt(proof, Ref(k))
          /\ t[1] = Segment => \A i : i \in p.targets => right[<<0, i>>] = HashAt(proof, Ref(<<0, i>>))
      BY <1>1, TraceHasHashes DEF ReferenceNodes
    <2> QED
      BY <2>1, <2>2
  <1>10. \A l \in proof.plan.links : l.parent = t =>
            /\ l.index \in p.targets /\ t[1] # Segment
            /\ Mismatch(failed, proof, l.child) <=> left[<<0, l.index>>] # right[<<0, l.index>>]
    BY <1>1, LinksCompare, ParentsAre
  <1>11. t[1] # Segment => \A i \in p.targets : \E l \in proof.plan.links : l.parent = t /\ l.index = i
    <2> SUFFICES ASSUME t[1] # Segment, NEW i \in p.targets
                 PROVE  \E l \in proof.plan.links : l.parent = t /\ l.index = i
      OBVIOUS
    <2>1. p.targets = {k.index : k \in {m \in proof.plan.links : m.parent = t}}
      BY <1>1 DEF WellShaped, WellFormed, ValidTargets
    <2> QED
      BY <2>1
  <1>12. \A k : Ref(k) \in C <=> /\ \/ \E a \in addresses : Ref(k) = TargetRef(a)
                                    \/ k \in p.required
                                 /\ HashAt(failed, Ref(k)) # HashAt(proof, Ref(k))
    <2> SUFFICES ASSUME NEW k
                 PROVE  Ref(k) \in Refs(proof) <=> (\E a \in addresses : Ref(k) = TargetRef(a)) \/ k \in p.required
      BY DEF Changed
    <2>1. Ref(k) \in Refs(proof) <=> \/ \E a \in addresses : Ref(k) = TargetRef(a)
                                     \/ \E q \in proof.plan.trees : \E r \in q.required : Ref(k) = <<q.tree, r>>
      BY SameRefs
    <2>2. (\E q \in proof.plan.trees : \E r \in q.required : Ref(k) = <<q.tree, r>>) <=> k \in p.required
      BY <1>1
    <2> QED
      BY <2>1, <2>2
  <1>13. \A a \in addresses : \A k : Ref(k) = TargetRef(a) => t[1] = Segment /\ k = <<0, a[4]>> /\ a[4] \in p.targets
    <2> SUFFICES ASSUME NEW a \in addresses, NEW k, Ref(k) = TargetRef(a)
                 PROVE  t[1] = Segment /\ k = <<0, a[4]>> /\ a[4] \in p.targets
      OBVIOUS
    <2>1. t = SegmentTreeRef(a) /\ k = <<0, a[4]>>
      BY DEF TargetRef
    <2>2. t[1] = Segment
      BY <2>1 DEF SegmentTreeRef
    <2>3. PICK l \in proof.leaves : l[1] = a
      BY <1>1, HashesAre
    <2>4. p.targets = {m[1][4] : m \in {n \in proof.leaves : SegmentTreeRef(n[1]) = t}}
      BY <1>1, <2>2 DEF WellShaped, WellFormed, ValidTargets
    <2> QED
      BY <2>1, <2>2, <2>3, <2>4
  <1>14. t[1] = Segment => \A i \in p.targets : \E a \in addresses : Ref(<<0, i>>) = TargetRef(a)
    <2> SUFFICES ASSUME t[1] = Segment, NEW i \in p.targets
                 PROVE  \E a \in addresses : Ref(<<0, i>>) = TargetRef(a)
      OBVIOUS
    <2>1. p.targets = {m[1][4] : m \in {n \in proof.leaves : SegmentTreeRef(n[1]) = t}}
      BY <1>1 DEF WellShaped, WellFormed, ValidTargets
    <2>2. PICK l \in proof.leaves : SegmentTreeRef(l[1]) = t /\ i = l[1][4]
      BY <2>1
    <2>3. l[1] \in addresses
      BY <1>1, HashesAre
    <2> QED
      BY <2>2, <2>3 DEF TargetRef
  <1> DEFINE Cov(k) == IsCovered(failed, proof, t, k)
             E == EndsOf(failed, proof, t)
  <1>15. \A k : Cov(k) <=> k[1] = 0 /\ \E l \in proof.plan.links :
                              l.parent = t /\ l.index = k[2] /\ Mismatch(failed, proof, l.child)
    BY DEF IsCovered
  <1>16. \A i : <<0, i>>[1] = 0 /\ <<0, i>>[2] = i
    OBVIOUS
  <1> HIDE DEF left, right, top, C, t, Ref, Cov, E
  <1>17. ASSUME NEW k \in E
         PROVE  Cov(k) \/ Ref(k) \in C
    <2>1. k \in DOMAIN left /\ left[k] # right[k] /\ (k[1] = 0 \/ k \in p.required) /\ k = <<k[1], k[2]>>
      BY <1>2, <1>8 DEF E
    <2>2. CASE k \in p.required
      BY <1>9, <1>12, <2>1, <2>2
    <2>3. CASE k \notin p.required
      <3> DEFINE i == k[2]
      <3>1. k = <<0, i>> /\ k[1] = 0
        BY <2>1, <2>3
      <3> HIDE DEF i
      <3>2. i \in p.targets
        BY <1>6, <1>7, <2>1, <2>3, <3>1
      <3>3. CASE t[1] = Segment
        BY <1>9, <1>12, <1>14, <2>1, <3>1, <3>2, <3>3
      <3>4. CASE t[1] # Segment
        <4>1. PICK l \in proof.plan.links : l.parent = t /\ l.index = i
          BY <1>11, <3>2, <3>4
        <4>2. Mismatch(failed, proof, l.child)
          BY <1>10, <2>1, <3>1, <4>1
        <4> QED
          BY <1>15, <3>1, <4>1, <4>2 DEF i
      <3> QED
        BY <3>3, <3>4
    <2> QED
      BY <2>2, <2>3
  <1>18. ASSUME NEW k, Ref(k) \in C
         PROVE  k \in E /\ ~Cov(k)
    <2>1. HashAt(failed, Ref(k)) # HashAt(proof, Ref(k))
      BY <1>12, <1>18
    <2>2. CASE k \in p.required
      <3>1. k \in DOMAIN left /\ left[k] # right[k] /\ ~CanDescend(k, left, right) /\ k = <<k[1], k[2]>>
        BY <1>2, <1>7, <1>9, <2>1, <2>2
      <3>2. ~Cov(k)
        BY <1>3, <1>10, <1>15, <2>2, <3>1
      <3> QED
        BY <1>8, <3>1, <3>2 DEF E
    <2>3. CASE \E a \in addresses : Ref(k) = TargetRef(a)
      <3>1. PICK a \in addresses : t[1] = Segment /\ k = <<0, a[4]>> /\ a[4] \in p.targets
        BY <1>13, <2>3
      <3>2. left[k] # right[k]
        BY <1>9, <2>1, <3>1
      <3>3. k \in DOMAIN left /\ k[1] = 0
        BY <1>6, <1>7, <3>1
      <3>4. ~Cov(k)
        BY <1>10, <1>15, <3>1
      <3> QED
        BY <1>2, <1>8, <3>2, <3>3, <3>4 DEF E
    <2> QED
      BY <1>12, <1>18, <2>2, <2>3
  <1>19. ASSUME NEW l \in proof.plan.links, l.parent = t, Mismatch(failed, proof, l.child)
         PROVE  E # {}
    <2>1. l.index \in p.targets /\ left[<<0, l.index>>] # right[<<0, l.index>>]
      BY <1>10, <1>19
    <2>2. <<0, l.index>> \in DOMAIN left
      BY <1>6, <1>7, <2>1
    <2>3. <<0, l.index>> \in E
      BY <1>2, <1>8, <1>16, <2>1, <2>2 DEF E
    <2> QED
      BY <2>3
  <1> QED
    BY <1>17, <1>18, <1>19 DEF t, C, Ref, Cov, E

-----------------------------------------------------------------------------
(* What analyze blames *)

\* A reference is a tree and a node; one that is not a leaf asked for is in a tree of the plan.
LEMMA RefsAre ==
    ASSUME NEW proof, NEW addresses, WellShaped(proof, addresses), NEW ref \in Refs(proof)
    PROVE  /\ ref = <<ref[1], ref[2]>>
           /\ (\A a \in addresses : SegmentTreeRef(a) \in TreesOf(proof)) => ref[1] \in TreesOf(proof)
  <1>1. \/ \E a \in addresses : ref = TargetRef(a)
        \/ \E p \in proof.plan.trees : \E k \in p.required : ref = <<p.tree, k>>
    BY HashesAre
  <1>2. CASE \E a \in addresses : ref = TargetRef(a)
    BY <1>2 DEF TargetRef
  <1>3. CASE \E p \in proof.plan.trees : \E k \in p.required : ref = <<p.tree, k>>
    BY <1>3 DEF TreesOf
  <1> QED
    BY <1>1, <1>2, <1>3

\* The nodes of a tree that are blamed are the ends that differ, but for the roots of trees
\* that are searched themselves.
LEMMA SuspectsAre ==
    ASSUME NEW failed, NEW proof, NEW t, NEW height,
           Comparable(AuditorNodes(failed, t), ReferenceNodes(proof, t), height)
    PROVE  \A ref : ref \in NodeSuspects(t, PruningRounds(<<height, 0>>, AuditorNodes(failed, t),
                                                          ReferenceNodes(proof, t)),
                                         proof, HMFTrace(failed), HMFTrace(proof))
                    <=> \E k \in EndsOf(failed, proof, t) : ~IsCovered(failed, proof, t, k) /\ ref = <<t, k>>
  <1> DEFINE left == AuditorNodes(failed, t)
             right == ReferenceNodes(proof, t)
             rounds == PruningRounds(<<height, 0>>, left, right)
             U == UNION {r.mismatches : r \in rounds}
             blamed == NodeSuspects(t, rounds, proof, HMFTrace(failed), HMFTrace(proof))
             Open(k) == ~CanDescend(k, left, right) /\ ~IsCovered(failed, proof, t, k)
             Ref(k) == <<t, k>>
  <1>1. {k \in U : ~CanDescend(k, left, right)} = EndsOf(failed, proof, t)
    BY SearchFinds DEF EndsOf
  <1>2. blamed = {Ref(k) : k \in {q \in U : Open(q)}}
    BY DEF NodeSuspects, IsCovered, Mismatch, AuditorNodes, ReferenceNodes
  <1>3. \A k : k \in U /\ ~CanDescend(k, left, right) <=> k \in EndsOf(failed, proof, t)
    BY <1>1
  <1>4. \A r : r \in blamed <=> \E k \in EndsOf(failed, proof, t) : ~IsCovered(failed, proof, t, k) /\ r = Ref(k)
    <2> HIDE DEF U, Ref, blamed, left, right
    <2> QED
      BY <1>2, <1>3
  <1> QED
    BY <1>4

\* The nodes of a tree that are blamed are those whose hash differs.
LEMMA TreeBlames ==
    ASSUME NEW failed, NEW proof, NEW addresses, Alike(failed, proof, addresses), NEW p \in proof.plan.trees
    PROVE  NodeSuspects(p.tree,
               PruningRounds(<<BitsLen[p.leafCount - 1], 0>>,
                             AuditorNodes(failed, p.tree), ReferenceNodes(proof, p.tree)),
               proof, HMFTrace(failed), HMFTrace(proof))
             = {ref \in Changed(failed, proof) : ref[1] = p.tree}
  <1> DEFINE t == p.tree
             rounds == PruningRounds(<<BitsLen[p.leafCount - 1], 0>>, AuditorNodes(failed, t), ReferenceNodes(proof, t))
             C == Changed(failed, proof)
             blamed == NodeSuspects(t, rounds, proof, HMFTrace(failed), HMFTrace(proof))
             Ref(k) == <<t, k>>
  <1>1. Comparable(AuditorNodes(failed, t), ReferenceNodes(proof, t), BitsLen[p.leafCount - 1])
    BY TreesCompare
  <1>5. \A r : r \in blamed <=> \E k \in EndsOf(failed, proof, t) : ~IsCovered(failed, proof, t, k) /\ r = Ref(k)
    BY <1>1, SuspectsAre
  <1>6. /\ \A k \in EndsOf(failed, proof, t) : IsCovered(failed, proof, t, k) \/ Ref(k) \in C
        /\ \A k : Ref(k) \in C => k \in EndsOf(failed, proof, t) /\ ~IsCovered(failed, proof, t, k)
    BY EndsAre
  <1>7. \A ref \in C : ref = <<ref[1], ref[2]>>
    <2>1. WellShaped(proof, addresses)
      BY DEF Alike
    <2> QED
      BY <2>1, RefsAre DEF Changed
  <1> HIDE DEF blamed, t, C
  <1>8. ASSUME NEW ref \in blamed
        PROVE  ref \in C /\ ref[1] = t
    BY <1>5, <1>6
  <1>9. ASSUME NEW ref \in C, ref[1] = t
        PROVE  ref \in blamed
    <2>1. ref = Ref(ref[2])
      BY <1>7, <1>9
    <2> QED
      BY <1>5, <1>6, <2>1
  <1>10. blamed = {ref \in C : ref[1] = t}
    BY <1>8, <1>9
  <1> QED
    BY <1>10 DEF blamed, t, C

\* A tree that a hash was changed in differs, and so does the tree above a tree that differs.
LEMMA TreesDiffer ==
    ASSUME NEW failed, NEW proof, NEW addresses, Alike(failed, proof, addresses),
           \A a \in addresses : SegmentTreeRef(a) \in TreesOf(proof)
    PROVE  /\ \A ref \in Changed(failed, proof) : ref[1] \in TreesOf(proof) /\ Mismatch(failed, proof, ref[1])
           /\ \A l \in proof.plan.links : Mismatch(failed, proof, l.child) => Mismatch(failed, proof, l.parent)
  <1>1. WellShaped(proof, addresses) /\ ValidLinks(proof)
    BY DEF Alike, WellShaped, WellFormed
  <1>2. ASSUME NEW ref \in Changed(failed, proof)
        PROVE  ref[1] \in TreesOf(proof) /\ Mismatch(failed, proof, ref[1])
    <2>1. ref \in Refs(proof)
      BY DEF Changed
    <2>2. ref = <<ref[1], ref[2]>> /\ ref[1] \in TreesOf(proof)
      BY <1>1, <2>1, RefsAre
    <2>3. PICK p \in proof.plan.trees : p.tree = ref[1]
      BY <2>2 DEF TreesOf
    <2>4. <<p.tree, ref[2]>> \in Changed(failed, proof)
      BY <2>2, <2>3
    <2>5. ref[2] \in EndsOf(failed, proof, p.tree)
      BY <2>4, EndsAre
    <2>6. Mismatch(failed, proof, p.tree)
      BY <2>5, TreesCompare
    <2> QED
      BY <2>2, <2>3, <2>6
  <1>3. ASSUME NEW l \in proof.plan.links, Mismatch(failed, proof, l.child)
        PROVE  Mismatch(failed, proof, l.parent)
    <2>1. l.parent \in TreesOf(proof)
      BY <1>1, ParentsAre
    <2>2. PICK p \in proof.plan.trees : p.tree = l.parent
      BY <2>1 DEF TreesOf
    <2>3. EndsOf(failed, proof, p.tree) # {}
      BY <1>3, <2>2, EndsAre
    <2>4. Mismatch(failed, proof, p.tree)
      BY <2>3, TreesCompare
    <2> QED
      BY <2>2, <2>4
  <1> QED
    BY <1>2, <1>3

\* The shards that differ are those that a changed hash belongs to.
ShardOf(ref) == IF ref[1][1] = Segment THEN ParentTree(ref[1]) ELSE ref[1]

LEMMA ShardsDiffer ==
    ASSUME NEW failed, NEW proof, NEW addresses, Alike(failed, proof, addresses),
           \A a \in addresses : SegmentTreeRef(a) \in TreesOf(proof)
    PROVE  {t \in TreesOf(proof) : Mismatch(failed, proof, t) /\ t[1] = Shard}
             = {ShardOf(ref) : ref \in {c \in Changed(failed, proof) : c[1][1] \in {Segment, Shard}}}
  <1> DEFINE C == Changed(failed, proof)
             bad == {t \in TreesOf(proof) : Mismatch(failed, proof, t) /\ t[1] = Shard}
  <1>1. ValidLinks(proof)
    BY DEF Alike, WellShaped, WellFormed
  <1>2. /\ \A ref \in C : ref[1] \in TreesOf(proof) /\ Mismatch(failed, proof, ref[1])
        /\ \A l \in proof.plan.links : Mismatch(failed, proof, l.child) => Mismatch(failed, proof, l.parent)
    BY TreesDiffer
  <1>3. ASSUME NEW t \in bad
        PROVE  \E ref \in C : ref[1][1] \in {Segment, Shard} /\ t = ShardOf(ref)
    <2>1. PICK p \in proof.plan.trees : p.tree = t
      BY DEF TreesOf
    <2>2. PICK k : k \in EndsOf(failed, proof, p.tree)
      BY <2>1, TreesCompare
    <2>3. IsCovered(failed, proof, p.tree, k) \/ <<p.tree, k>> \in C
      BY <2>2, EndsAre
    <2>4. CASE <<p.tree, k>> \in C
      <3>1. <<p.tree, k>>[1] = t /\ t[1] = Shard
        BY <2>1
      <3> QED
        BY <2>4, <3>1, LayersAre DEF ShardOf
    <2>5. CASE IsCovered(failed, proof, p.tree, k)
      <3>1. PICK l \in proof.plan.links : l.parent = t /\ Mismatch(failed, proof, l.child)
        BY <2>1, <2>5 DEF IsCovered
      <3>2. /\ l.child \in TreesOf(proof) /\ l.parent = ParentTree(l.child)
            /\ l.child[1] \in 1..3 /\ l.parent[1] = l.child[1] + 1
        BY <1>1, ParentsAre
      <3>3. l.child[1] = Segment /\ ParentTree(l.child) = t
        BY <3>1, <3>2, LayersAre
      <3>4. PICK q \in proof.plan.trees : q.tree = l.child
        BY <3>2 DEF TreesOf
      <3>5. PICK i : i \in EndsOf(failed, proof, q.tree)
        BY <3>1, <3>4, TreesCompare
      <3>6. IsCovered(failed, proof, q.tree, i) \/ <<q.tree, i>> \in C
        BY <3>5, EndsAre
      <3>7. ~IsCovered(failed, proof, q.tree, i)
        <4>1. \A m \in proof.plan.links : m.parent[1] # Segment
          BY <1>1, ParentsAre
        <4> QED
          BY <3>3, <3>4, <4>1 DEF IsCovered
      <3>8. <<q.tree, i>> \in C /\ <<q.tree, i>>[1] = l.child
        BY <3>4, <3>6, <3>7
      <3> HIDE DEF C
      <3> QED
        BY <3>3, <3>8 DEF ShardOf
    <2> QED
      BY <2>3, <2>4, <2>5
  <1>4. ASSUME NEW ref \in C, ref[1][1] \in {Segment, Shard}
        PROVE  ShardOf(ref) \in bad
    <2>1. ref[1] \in TreesOf(proof) /\ Mismatch(failed, proof, ref[1])
      BY <1>2
    <2>2. CASE ref[1][1] = Shard
      BY <2>1, <2>2, LayersAre DEF ShardOf
    <2>3. CASE ref[1][1] = Segment
      <3>1. \E l \in proof.plan.links : l.child = ref[1]
        BY <1>1, <2>1, <2>3, LayersAre DEF ValidLinks, TreesOf
      <3>2. PICK l \in proof.plan.links : l.child = ref[1]
        BY <3>1
      <3>3. l.parent \in TreesOf(proof) /\ l.parent = ParentTree(ref[1]) /\ l.parent[1] = l.child[1] + 1
        BY <1>1, <3>2, ParentsAre
      <3>4. Mismatch(failed, proof, l.parent)
        BY <1>2, <2>1, <3>2
      <3>5. l.parent[1] = Shard
        BY <2>3, <3>2, <3>3, LayersAre
      <3> QED
        BY <2>3, <3>3, <3>4, <3>5 DEF ShardOf
    <2> QED
      BY <1>4, <2>2, <2>3
  <1> HIDE DEF C, bad
  <1>5. bad = {ShardOf(ref) : ref \in {c \in C : c[1][1] \in {Segment, Shard}}}
    BY <1>3, <1>4
  <1> QED
    BY <1>5 DEF C, bad

\* The suspects are the nodes whose hash was changed, with the shards they belong to.
Accuses(result, changed, addresses) ==
    /\ result.topology = {}
    /\ result.leafSuspects = changed \cap {TargetRef(a) : a \in addresses}
    /\ result.nodeSuspects = changed \ {TargetRef(a) : a \in addresses}
    /\ result.badShards = {ShardOf(ref) : ref \in {c \in changed : c[1][1] \in {Segment, Shard}}}

\* analyze blames exactly what differs from the reference.
LEMMA AnalyzeBlames ==
    ASSUME NEW failed, NEW proof, NEW addresses, Alike(failed, proof, addresses),
           \A a \in addresses : SegmentTreeRef(a) \in TreesOf(proof)
    PROVE  Accuses(Analyze(addresses, failed, proof, HMFTrace(failed), HMFTrace(proof)),
                   Changed(failed, proof), addresses)
  <1> DEFINE C == Changed(failed, proof)
             leaves == {TargetRef(a) : a \in addresses}
             auditor == HMFTrace(failed)
             reference == HMFTrace(proof)
             Count(plan, t) == (CHOOSE p \in plan.trees : p.tree = t).leafCount
             S == {t \in TreesOf(failed) \cup TreesOf(proof) : TreeMismatch(t, auditor, reference)}
             Same == {t \in S \cap TreesOf(failed) \cap TreesOf(proof) : Count(failed.plan, t) = Count(proof.plan, t)}
             Top(t) == <<BitsLen[Count(proof.plan, t) - 1], 0>>
             Rounds(t) == PruningRounds(Top(t), auditor.nodes[t], reference.nodes[t])
             R == [t \in Same |-> Rounds(t)]
             B == UNION {NodeSuspects(t, R[t], proof, auditor, reference) : t \in Same}
             result == Analyze(addresses, failed, proof, auditor, reference)
  <1>1. result = [badShards |-> {t \in S : t[1] = Shard}, rounds |-> R, topology |-> S \ Same,
                  leafSuspects |-> B \cap leaves, nodeSuspects |-> B \ leaves]
    BY Zenon DEF Analyze, TreesOf
  <1>2. failed.plan = proof.plan /\ TreesOf(failed) = TreesOf(proof)
        /\ \A p, q \in proof.plan.trees : p.tree = q.tree => p = q
    BY DEF Alike, WellShaped, WellFormed, ValidPlansAndNodes, TreesOf
  <1>3. S = {t \in TreesOf(proof) : Mismatch(failed, proof, t)} /\ S \subseteq TreesOf(proof)
    BY <1>2 DEF Mismatch
  <1>4. Same = S
    BY <1>2, <1>3
  <1>5. ASSUME NEW t \in S
        PROVE  NodeSuspects(t, R[t], proof, auditor, reference) = {ref \in C : ref[1] = t}
    <2>1. PICK p \in proof.plan.trees : p.tree = t
      BY <1>3 DEF TreesOf
    <2>2. Count(proof.plan, t) = p.leafCount
      BY <1>2, <2>1
    <2>3. R[t] = Rounds(t)
      BY <1>4
    <2>4. Rounds(t) = PruningRounds(<<BitsLen[p.leafCount - 1], 0>>,
                                    AuditorNodes(failed, p.tree), ReferenceNodes(proof, p.tree))
      BY <2>1, <2>2 DEF AuditorNodes, ReferenceNodes
    <2> HIDE DEF R, Rounds, Count, S
    <2>5. NodeSuspects(p.tree, R[t], proof, auditor, reference) = {ref \in C : ref[1] = p.tree}
      BY <2>3, <2>4, TreeBlames
    <2> QED
      BY <2>1, <2>5
  <1>6. \A ref \in C : ref[1] \in S
    BY <1>3, TreesDiffer
  <1>7. {t \in S : t[1] = Shard} = {t \in TreesOf(proof) : Mismatch(failed, proof, t) /\ t[1] = Shard}
    BY <1>3
  <1>8. {t \in S : t[1] = Shard} = {ShardOf(ref) : ref \in {c \in C : c[1][1] \in {Segment, Shard}}}
    BY <1>7, ShardsDiffer
  <1>9. B = C
    <2> DEFINE N(t) == NodeSuspects(t, R[t], proof, auditor, reference)
    <2>1. B = UNION {N(t) : t \in S}
      BY <1>4
    <2>2. \A t \in S : N(t) = {ref \in C : ref[1] = t}
      BY <1>5
    <2> HIDE DEF N, S, C, B
    <2>3. \A ref : ref \in B <=> \E t \in S : ref \in N(t)
      BY <2>1
    <2> QED
      BY <1>6, <2>2, <2>3
  <1> HIDE DEF result, S, Same, R, B, C, leaves
  <1>10. /\ result.topology = {} /\ result.leafSuspects = C \cap leaves /\ result.nodeSuspects = C \ leaves
         /\ result.badShards = {t \in S : t[1] = Shard}
    BY <1>1, <1>4, <1>9
  <1> QED
    BY <1>8, <1>10 DEF Accuses, result, C, leaves

-----------------------------------------------------------------------------
(* Proofs with different plans *)

\* The leaves that the plan of a proof gives a tree.
CountOf(proof, t) == (CHOOSE p \in proof.plan.trees : p.tree = t).leafCount

\* analyze, for proofs of the same trees.
LEMMA AnalyzeIs ==
    ASSUME NEW failed, NEW proof, NEW addresses, TreesOf(failed) = TreesOf(proof)
    PROVE  LET result == Analyze(addresses, failed, proof, HMFTrace(failed), HMFTrace(proof))
               Rounds(t) == PruningRounds(<<BitsLen[CountOf(proof, t) - 1], 0>>,
                                          AuditorNodes(failed, t), ReferenceNodes(proof, t))
           IN /\ \A t : t \in result.topology <=>
                    t \in TreesOf(proof) /\ Mismatch(failed, proof, t) /\ CountOf(failed, t) # CountOf(proof, t)
              /\ \A ref : ref \in result.leafSuspects \cup result.nodeSuspects <=>
                    \E t \in TreesOf(proof) :
                       /\ Mismatch(failed, proof, t) /\ CountOf(failed, t) = CountOf(proof, t)
                       /\ ref \in NodeSuspects(t, Rounds(t), proof, HMFTrace(failed), HMFTrace(proof))
  <1> DEFINE leaves == {TargetRef(a) : a \in addresses}
             auditor == HMFTrace(failed)
             reference == HMFTrace(proof)
             Count(plan, t) == (CHOOSE p \in plan.trees : p.tree = t).leafCount
             S == {t \in TreesOf(failed) \cup TreesOf(proof) : TreeMismatch(t, auditor, reference)}
             Same == {t \in S \cap TreesOf(failed) \cap TreesOf(proof) : Count(failed.plan, t) = Count(proof.plan, t)}
             Top(t) == <<BitsLen[Count(proof.plan, t) - 1], 0>>
             Search(t) == PruningRounds(Top(t), auditor.nodes[t], reference.nodes[t])
             R == [t \in Same |-> Search(t)]
             B == UNION {NodeSuspects(t, R[t], proof, auditor, reference) : t \in Same}
             result == Analyze(addresses, failed, proof, auditor, reference)
             Rounds(t) == PruningRounds(<<BitsLen[CountOf(proof, t) - 1], 0>>,
                                        AuditorNodes(failed, t), ReferenceNodes(proof, t))
  <1>1. result = [badShards |-> {t \in S : t[1] = Shard}, rounds |-> R, topology |-> S \ Same,
                  leafSuspects |-> B \cap leaves, nodeSuspects |-> B \ leaves]
    BY Zenon DEF Analyze, TreesOf
  <1>2. \A t : t \in S <=> t \in TreesOf(proof) /\ Mismatch(failed, proof, t)
    BY DEF Mismatch
  <1>3. \A t : t \in Same <=> t \in S /\ CountOf(failed, t) = CountOf(proof, t)
    BY DEF CountOf
  <1>4. \A t \in Same : R[t] = Rounds(t)
    BY DEF CountOf, AuditorNodes, ReferenceNodes
  <1>5. \A ref : ref \in B <=> \E t \in Same : ref \in NodeSuspects(t, Rounds(t), proof, auditor, reference)
    <2> DEFINE N(t) == NodeSuspects(t, R[t], proof, auditor, reference)
               M(t) == NodeSuspects(t, Rounds(t), proof, auditor, reference)
    <2>1. B = UNION {N(t) : t \in Same} /\ \A t \in Same : N(t) = M(t)
      BY <1>4
    <2> HIDE DEF B, N, M, Same
    <2>2. \A ref : ref \in B <=> \E t \in Same : ref \in M(t)
      BY <2>1
    <2> QED
      BY <2>2 DEF M
  <1> HIDE DEF result, S, Same, R, B, leaves, Rounds, auditor, reference
  <1>6. /\ result.topology = S \ Same
        /\ \A ref : ref \in result.leafSuspects \cup result.nodeSuspects <=> ref \in B
    BY <1>1
  <1>7. /\ \A t : t \in result.topology <=>
              t \in TreesOf(proof) /\ Mismatch(failed, proof, t) /\ CountOf(failed, t) # CountOf(proof, t)
        /\ \A ref : ref \in result.leafSuspects \cup result.nodeSuspects <=>
              \E t \in TreesOf(proof) :
                 /\ Mismatch(failed, proof, t) /\ CountOf(failed, t) = CountOf(proof, t)
                 /\ ref \in NodeSuspects(t, Rounds(t), proof, auditor, reference)
    BY <1>2, <1>3, <1>5, <1>6
  <1> QED
    BY <1>7 DEF result, Rounds, auditor, reference

\* A tree that the plans give different leaf counts has different committed roots.
LEMMA CountsDiffer ==
    ASSUME NEW failed, NEW proof, NEW addresses, WellShaped(failed, addresses), WellShaped(proof, addresses),
           NEW q \in failed.plan.trees, NEW p \in proof.plan.trees, q.tree = p.tree, q.leafCount # p.leafCount
    PROVE  Mismatch(failed, proof, p.tree)
  <1> DEFINE A == HMFTrace(failed).committed
             R == HMFTrace(proof).committed
             x == HMFTrace(failed).nodes[q.tree][<<BitsLen[q.leafCount - 1], 0>>]
             y == HMFTrace(proof).nodes[p.tree][<<BitsLen[p.leafCount - 1], 0>>]
  <1>1. A[q.tree] = CommittedRoot(q.tree, q.leafCount, x)
    <2>1. PICK list : IsList(list) /\ Len(list) = q.leafCount
      BY DEF WellShaped
    <2> QED
      BY <2>1, TraceSays
  <1>2. R[p.tree] = CommittedRoot(p.tree, p.leafCount, y)
    <2>1. PICK list : IsList(list) /\ Len(list) = p.leafCount
      BY DEF WellShaped
    <2> QED
      BY <2>1, TraceSays
  <1>3. p.tree[1] \in 1..4
    <2>1. p.tree \in TreesOf(proof) /\ ValidLinks(proof)
      BY DEF TreesOf, WellShaped, WellFormed
    <2> QED
      BY <2>1, LayerOf DEF Segment, Global
  <1> HIDE DEF A, R, x, y
  <1>4. A[p.tree] # R[p.tree]
    BY <1>1, <1>2, <1>3, RootsDiffer
  <1> QED
    BY <1>4 DEF Mismatch, TreeMismatch, SameNode, A, R

\* The plan of a tree.
LEMMA PlanOfTree ==
    ASSUME NEW proof, NEW addresses, WellShaped(proof, addresses), NEW t \in TreesOf(proof)
    PROVE  \E p \in proof.plan.trees : p.tree = t /\ CountOf(proof, t) = p.leafCount
  <1>1. PICK p \in proof.plan.trees : p.tree = t
    BY DEF TreesOf
  <1>2. \A x \in proof.plan.trees : x.tree = t => x = p
    BY <1>1 DEF WellShaped, WellFormed, ValidPlansAndNodes
  <1> QED
    BY <1>1, <1>2 DEF CountOf

\* Every tree whose leaf count differs is reported, only ends are blamed, and when the roots
\* differ and no count does, something is: below a tree that differs there is another one, or
\* an end that is blamed.
LEMMA ShapesBlame ==
    ASSUME NEW failed, NEW proof, NEW addresses, WellShaped(failed, addresses), WellShaped(proof, addresses),
           TreesOf(failed) = TreesOf(proof)
    PROVE  LET result == Analyze(addresses, failed, proof, HMFTrace(failed), HMFTrace(proof))
               blamed == result.leafSuspects \cup result.nodeSuspects
           IN /\ \A t : t \in result.topology <=> t \in TreesOf(proof) /\ CountOf(failed, t) # CountOf(proof, t)
              /\ \A ref \in blamed : \E t \in TreesOf(proof) : \E k \in EndsOf(failed, proof, t) : ref = <<t, k>>
              /\ GlobalRoot(HMFTrace(failed)) # GlobalRoot(HMFTrace(proof)) /\ result.topology = {} => blamed # {}
  <1> DEFINE result == Analyze(addresses, failed, proof, HMFTrace(failed), HMFTrace(proof))
             blamed == result.leafSuspects \cup result.nodeSuspects
             Rounds(t) == PruningRounds(<<BitsLen[CountOf(proof, t) - 1], 0>>,
                                        AuditorNodes(failed, t), ReferenceNodes(proof, t))
             Suspects(t) == NodeSuspects(t, Rounds(t), proof, HMFTrace(failed), HMFTrace(proof))
             M(t) == Mismatch(failed, proof, t)
             E(t) == EndsOf(failed, proof, t)
             Counts(t) == CountOf(failed, t) = CountOf(proof, t)
  <1>1. /\ \A t : t \in result.topology <=> t \in TreesOf(proof) /\ M(t) /\ ~Counts(t)
        /\ \A ref : ref \in blamed <=> \E t \in TreesOf(proof) : M(t) /\ Counts(t) /\ ref \in Suspects(t)
    BY AnalyzeIs
  <1>2. ASSUME NEW t \in TreesOf(proof), ~Counts(t)
        PROVE  M(t)
    <2>1. PICK p \in proof.plan.trees : p.tree = t /\ CountOf(proof, t) = p.leafCount
      BY PlanOfTree
    <2>2. PICK q \in failed.plan.trees : q.tree = t /\ CountOf(failed, t) = q.leafCount
      BY PlanOfTree
    <2> QED
      BY <1>2, <2>1, <2>2, CountsDiffer
  <1>3. ASSUME NEW t \in TreesOf(proof), Counts(t)
        PROVE  /\ M(t) <=> E(t) # {}
               /\ \A ref : ref \in Suspects(t) <=>
                     \E k \in E(t) : ~IsCovered(failed, proof, t, k) /\ ref = <<t, k>>
    <2>1. PICK p \in proof.plan.trees : p.tree = t /\ CountOf(proof, t) = p.leafCount
      BY PlanOfTree
    <2>2. PICK q \in failed.plan.trees : q.tree = t /\ CountOf(failed, t) = q.leafCount
      BY PlanOfTree
    <2>3. /\ Comparable(AuditorNodes(failed, p.tree), ReferenceNodes(proof, p.tree), BitsLen[p.leafCount - 1])
          /\ Mismatch(failed, proof, p.tree) <=> EndsOf(failed, proof, p.tree) # {}
      BY <1>3, <2>1, <2>2, TreesComparable
    <2>4. Comparable(AuditorNodes(failed, t), ReferenceNodes(proof, t), BitsLen[CountOf(proof, t) - 1])
      BY <2>1, <2>3
    <2> HIDE DEF Suspects
    <2>5. \A ref : ref \in Suspects(t) <=> \E k \in E(t) : ~IsCovered(failed, proof, t, k) /\ ref = <<t, k>>
      BY <2>4, SuspectsAre DEF Suspects
    <2> QED
      BY <2>1, <2>3, <2>5
  <1> HIDE DEF result, blamed, Suspects, M, E, Counts
  <1>4. \A t : t \in result.topology <=> t \in TreesOf(proof) /\ ~Counts(t)
    BY <1>1, <1>2
  <1>5. \A ref \in blamed : \E t \in TreesOf(proof) : \E k \in E(t) : ref = <<t, k>>
    BY <1>1, <1>3
  <1>6. ValidPlansAndNodes(failed) /\ ValidLinks(failed) /\ ValidPlansAndNodes(proof) /\ ValidLinks(proof)
    BY DEF WellShaped, WellFormed
  <1>7. ASSUME result.topology = {}, blamed = {}, NEW t \in TreesOf(proof), M(t)
        PROVE  \E l \in proof.plan.links : l.parent = t /\ M(l.child)
    <2>1. Counts(t)
      BY <1>4, <1>7
    <2>2. PICK k : k \in E(t)
      BY <1>3, <1>7, <2>1
    <2>3. IsCovered(failed, proof, t, k)
      BY <1>1, <1>3, <1>7, <2>1, <2>2
    <2> QED
      BY <2>3 DEF IsCovered, M
  <1>8. ASSUME result.topology = {}, blamed = {}
        PROVE  \A t \in TreesOf(proof) : ~M(t)
    <2>1. \A l \in proof.plan.links : l.child \in TreesOf(proof) /\ l.child[1] \in 1..3 /\ l.parent[1] = l.child[1] + 1
      BY <1>6, ParentsAre
    <2>2. \A t \in TreesOf(proof) : t[1] \in 1..4
      BY <1>6, LayerOf DEF Segment, Global
    <2>3. \A t \in TreesOf(proof) : M(t) => \E u \in TreesOf(proof) : M(u) /\ t[1] = u[1] + 1
      BY <1>7, <1>8, <2>1
    <2>4. \A t \in TreesOf(proof) : t[1] = 1 => ~M(t)
      BY <2>2, <2>3
    <2>5. \A t \in TreesOf(proof) : t[1] = 2 => ~M(t)
      BY <2>2, <2>3, <2>4
    <2>6. \A t \in TreesOf(proof) : t[1] = 3 => ~M(t)
      BY <2>2, <2>3, <2>5
    <2>7. \A t \in TreesOf(proof) : t[1] = 4 => ~M(t)
      BY <2>2, <2>3, <2>6
    <2> QED
      BY <2>2, <2>4, <2>5, <2>6, <2>7
  <1>9. ASSUME GlobalRoot(HMFTrace(failed)) # GlobalRoot(HMFTrace(proof))
        PROVE  GlobalTreeRef \in TreesOf(proof) /\ M(GlobalTreeRef)
    <2>1. GlobalTreeRef \in TreesOf(proof)
      BY <1>6 DEF ValidLinks, TreesOf
    <2> QED
      BY <1>9, <2>1 DEF M, Mismatch, TreeMismatch, SameNode, GlobalRoot
  <1>10. GlobalRoot(HMFTrace(failed)) # GlobalRoot(HMFTrace(proof)) /\ result.topology = {} => blamed # {}
    BY <1>8, <1>9
  <1> QED
    BY <1>4, <1>5, <1>10 DEF result, blamed, E, Counts

-----------------------------------------------------------------------------
(* A proof with other hashes *)

\* It is as well formed as the proof, and has the other hashes.
LEMMA HashesReplaced ==
    ASSUME NEW p, IsProofRecord(p), NEW addresses, WellShaped(p, addresses),
           NEW hashes, DOMAIN hashes \subseteq Refs(p)
    PROVE  LET q == WithHashes(p, hashes)
           IN /\ Alike(q, p, addresses)
              /\ Changed(q, p) = {ref \in DOMAIN hashes : HashAt(p, ref) # hashes[ref]}
              /\ Changed(q, p) = {} => q = p
  <1> DEFINE New(ref, old) == IF ref \in DOMAIN hashes THEN hashes[ref] ELSE old
             L(l) == <<l[1], New(TargetRef(l[1]), l[2])>>
             N(n) == <<n[1], n[2], New(<<n[1], n[2]>>, n[3])>>
             leaves == {L(l) : l \in p.leaves}
             nodes == {N(n) : n \in p.nodes}
             q == WithHashes(p, hashes)
  <1>1. q = [p EXCEPT !.leaves = leaves, !.nodes = nodes]
    BY DEF WithHashes
  <1>2. /\ q = [plan |-> p.plan, leaves |-> leaves, nodes |-> nodes]
        /\ q.plan = p.plan /\ q.leaves = leaves /\ q.nodes = nodes
    <2> HIDE DEF q, leaves, nodes
    <2>1. q = [plan |-> p.plan, leaves |-> leaves, nodes |-> nodes]
      BY <1>1 DEF IsProofRecord
    <2> QED
      BY <2>1
  <1>3. /\ \A l : L(l)[1] = l[1] /\ L(l)[2] = New(TargetRef(l[1]), l[2])
        /\ \A n : N(n)[1] = n[1] /\ N(n)[2] = n[2] /\ N(n)[3] = New(<<n[1], n[2]>>, n[3])
    OBVIOUS
  <1> HIDE DEF L, N, New, q
  <1>4. /\ \A l \in q.leaves : \E x \in p.leaves : l = L(x)
        /\ \A x \in p.leaves : L(x) \in q.leaves
        /\ \A n \in q.nodes : \E x \in p.nodes : n = N(x)
        /\ \A x \in p.nodes : N(x) \in q.nodes
    BY <1>2
  <1>5. ValidProofLeaves(q, addresses)
    <2>1. /\ addresses = p.plan.addresses
          /\ \A l, k \in p.leaves : l[1] = k[1] => l = k
          /\ {l[1] : l \in p.leaves} = addresses
      BY DEF WellShaped, WellFormed, ValidProofLeaves
    <2>2. \A l, k \in q.leaves : l[1] = k[1] => l = k
      BY <1>3, <1>4, <2>1
    <2>3. {l[1] : l \in q.leaves} = {l[1] : l \in p.leaves}
      BY <1>3, <1>4
    <2> QED
      BY <1>2, <2>1, <2>2, <2>3 DEF ValidProofLeaves
  <1>6. ValidPlansAndNodes(q)
    <2>1. /\ \A x, y \in p.plan.trees : x.tree = y.tree => x = y
          /\ \A x \in p.plan.trees : ValidTreePlanShape(x)
          /\ \A n, k \in p.nodes : <<n[1], n[2]>> = <<k[1], k[2]>> => n = k
          /\ {<<n[1], n[2]>> : n \in p.nodes} = UNION {{<<x.tree, r>> : r \in x.required} : x \in p.plan.trees}
      BY DEF WellShaped, WellFormed, ValidPlansAndNodes
    <2>2. \A n, k \in q.nodes : <<n[1], n[2]>> = <<k[1], k[2]>> => n = k
      <3> SUFFICES ASSUME NEW n \in q.nodes, NEW k \in q.nodes, <<n[1], n[2]>> = <<k[1], k[2]>>
                   PROVE  n = k
        OBVIOUS
      <3>1. PICK x \in p.nodes : n = N(x)
        BY <1>4
      <3>2. PICK y \in p.nodes : k = N(y)
        BY <1>4
      <3>3. <<x[1], x[2]>> = <<y[1], y[2]>>
        BY <1>3, <3>1, <3>2
      <3> QED
        BY <2>1, <3>1, <3>2, <3>3
    <2>3. {<<n[1], n[2]>> : n \in q.nodes} = {<<n[1], n[2]>> : n \in p.nodes}
      <3> DEFINE K(n) == <<n[1], n[2]>>
      <3>1. \A n : K(N(n)) = K(n)
        BY <1>3
      <3> HIDE DEF K
      <3>2. {K(n) : n \in q.nodes} = {K(n) : n \in p.nodes}
        BY <1>4, <3>1
      <3> QED
        BY <3>2 DEF K
    <2> QED
      BY <1>2, <2>1, <2>2, <2>3 DEF ValidPlansAndNodes
  <1>7. ValidLinks(q)
    <2>1. ValidLinks(p)
      BY DEF WellShaped, WellFormed
    <2> QED
      BY <1>2, <2>1 DEF ValidLinks
  <1>8. ValidTargets(q)
    <2>1. ValidTargets(p)
      BY DEF WellShaped, WellFormed
    <2>2. ASSUME NEW t
          PROVE  {l[1][4] : l \in {k \in q.leaves : SegmentTreeRef(k[1]) = t}}
                   = {l[1][4] : l \in {k \in p.leaves : SegmentTreeRef(k[1]) = t}}
      <3> DEFINE K(l) == l[1][4]
                 In(l) == SegmentTreeRef(l[1]) = t
      <3>1. \A l : K(L(l)) = K(l) /\ (In(L(l)) <=> In(l))
        BY <1>3
      <3> HIDE DEF K, In
      <3>2. {K(l) : l \in {k \in q.leaves : In(k)}} = {K(l) : l \in {k \in p.leaves : In(k)}}
        BY <1>4, <3>1
      <3> QED
        BY <3>2 DEF K, In
    <2> QED
      BY <1>2, <2>1, <2>2 DEF ValidTargets
  <1>9. WellShaped(q, addresses) /\ Alike(q, p, addresses)
    <2>1. WellShaped(q, addresses)
      <3> HIDE DEF IsAddress
      <3> QED
        BY <1>2, <1>5, <1>6, <1>7, <1>8 DEF WellShaped, WellFormed
    <2> QED
      BY <1>2, <2>1 DEF Alike
  <1>10. /\ \A l \in p.leaves : HashAt(p, TargetRef(l[1])) = l[2]
         /\ \A n \in p.nodes : HashAt(p, <<n[1], n[2]>>) = n[3]
    BY HashesAre
  <1>11. /\ \A l \in q.leaves : HashAt(q, TargetRef(l[1])) = l[2]
         /\ \A n \in q.nodes : HashAt(q, <<n[1], n[2]>>) = n[3]
    BY <1>9, HashesAre
  <1>12. ASSUME NEW ref \in Refs(p)
         PROVE  HashAt(q, ref) = New(ref, HashAt(p, ref))
    <2>1. (\E l \in p.leaves : ref = TargetRef(l[1])) \/ (\E n \in p.nodes : ref = <<n[1], n[2]>>)
      BY DEF Refs
    <2>2. CASE \E l \in p.leaves : ref = TargetRef(l[1])
      <3>1. PICK l \in p.leaves : ref = TargetRef(l[1])
        BY <2>2
      <3>2. HashAt(q, TargetRef(L(l)[1])) = L(l)[2]
        BY <1>4, <1>11
      <3>3. HashAt(q, ref) = New(ref, l[2])
        BY <1>3, <3>1, <3>2
      <3> QED
        BY <1>10, <3>1, <3>3
    <2>3. CASE \E n \in p.nodes : ref = <<n[1], n[2]>>
      <3>1. PICK n \in p.nodes : ref = <<n[1], n[2]>>
        BY <2>3
      <3>2. HashAt(q, <<N(n)[1], N(n)[2]>>) = N(n)[3]
        BY <1>4, <1>11
      <3>3. HashAt(q, ref) = New(ref, n[3])
        BY <1>3, <3>1, <3>2
      <3> QED
        BY <1>10, <3>1, <3>3
    <2> QED
      BY <2>1, <2>2, <2>3
  <1>13. Changed(q, p) = {ref \in DOMAIN hashes : HashAt(p, ref) # hashes[ref]}
    BY <1>12 DEF Changed, New
  <1>14. ASSUME Changed(q, p) = {}
         PROVE  q = p
    <2>1. \A ref \in DOMAIN hashes : hashes[ref] = HashAt(p, ref)
      BY <1>13, <1>14
    <2>2. /\ \A l \in p.leaves : New(TargetRef(l[1]), l[2]) = l[2]
          /\ \A n \in p.nodes : New(<<n[1], n[2]>>, n[3]) = n[3]
      BY <1>10, <2>1 DEF New
    <2>3. /\ \A l \in p.leaves : l = <<l[1], l[2]>>
          /\ \A n \in p.nodes : n = <<n[1], n[2], n[3]>>
          /\ p = [plan |-> p.plan, leaves |-> p.leaves, nodes |-> p.nodes]
      BY DEF IsProofRecord
    <2>4. (\A l \in p.leaves : L(l) = l) /\ \A n \in p.nodes : N(n) = n
      BY <2>2, <2>3 DEF L, N
    <2>5. leaves = p.leaves /\ nodes = p.nodes
      BY <2>4
    <2> HIDE DEF leaves, nodes
    <2> QED
      BY <1>2, <2>3, <2>5
  <1> QED
    BY <1>9, <1>13, <1>14 DEF q

-----------------------------------------------------------------------------
(* Where the reference comes from *)

LEMMA SplitIsRecord ==
    ASSUME NEW store, NEW requests, NEW fetched \in FetchProofNodes(store, requests), NEW plan
    PROVE  LET q == SplitTargetLeaves(plan, fetched) IN IsProofRecord(q) /\ q.plan = plan
  <1> DEFINE At(a) == {n \in fetched : <<n[1], n[2]>> = TargetRef(a)}
             leaves == UNION {{<<a, n[3]>> : n \in At(a)} : a \in plan.addresses}
             nodes == fetched \ UNION {At(a) : a \in plan.addresses}
             Item(r) == <<r.partition[1], r.position, store.nodes[r.partition[1]][r.position]>>
  <1>1. SplitTargetLeaves(plan, fetched) = [plan |-> plan, leaves |-> leaves, nodes |-> nodes]
    BY DEF SplitTargetLeaves
  <1>2. fetched = {Item(r) : r \in requests}
    BY DEF FetchProofNodes
  <1>3. \A n \in fetched : n = <<n[1], n[2], n[3]>>
    BY <1>2
  <1>4. \A l \in leaves : l = <<l[1], l[2]>>
    <2> HIDE DEF At
    <2> QED
      OBVIOUS
  <1> HIDE DEF leaves
  <1> QED
    BY <1>1, <1>3, <1>4 DEF IsProofRecord

\* BuildProof builds around the plan that the store's metadata gives.
LEMMA BuildsRecords ==
    ASSUME NEW store, NEW addresses, NEW q \in BuildProof(store, addresses)
    PROVE  IsProofRecord(q) /\ q.plan = PlanBuilt(addresses, store)
  <1>1. PICK plan \in Plan(addresses, store) :
             \E fetched \in FetchProofNodes(store, BuildRequests(plan.trees)) : q = SplitTargetLeaves(plan, fetched)
    BY DEF BuildProof
  <1>2. PICK fetched \in FetchProofNodes(store, BuildRequests(plan.trees)) : q = SplitTargetLeaves(plan, fetched)
    BY <1>1
  <1>3. IsProofRecord(q) /\ q.plan = plan
    BY <1>2, SplitIsRecord
  <1>4. plan = PlanBuilt(addresses, store)
    BY PlanIs
  <1> QED
    BY <1>3, <1>4

\* ReferenceFromProof keeps the plan of the failed proof.
LEMMA RebuildsRecords ==
    ASSUME NEW store, NEW failed, IsProofRecord(failed), NEW addresses, NEW trusted,
           NEW q \in ReferenceFromProof(store, failed, addresses, trusted)
    PROVE  IsProofRecord(q) /\ q.plan = failed.plan /\ Verified(q, addresses, trusted)
  <1> DEFINE leafTrees == {[p EXCEPT !.required = {}] : p \in {x \in failed.plan.trees : x.tree[1] = Segment}}
             Split(fetched) == SplitTargetLeaves(failed.plan, fetched)
             Rebuilt(fetched) == [Split(fetched) EXCEPT !.nodes = failed.nodes]
             F == FetchProofNodes(store, BuildRequests(leafTrees))
  <1>1. q \in {Rebuilt(fetched) : fetched \in F} /\ Verified(q, addresses, trusted)
    BY Zenon DEF ReferenceFromProof
  <1>2. PICK fetched \in F : q = Rebuilt(fetched)
    BY <1>1
  <1>3. IsProofRecord(Split(fetched)) /\ Split(fetched).plan = failed.plan
    BY SplitIsRecord
  <1> HIDE DEF Split
  <1>4. q = [plan |-> failed.plan, leaves |-> Split(fetched).leaves, nodes |-> failed.nodes]
    BY <1>2, <1>3 DEF IsProofRecord
  <1>5. /\ \A l \in Split(fetched).leaves : l = <<l[1], l[2]>>
        /\ \A n \in failed.nodes : n = <<n[1], n[2], n[3]>>
    BY <1>3 DEF IsProofRecord
  <1> QED
    BY <1>1, <1>4, <1>5 DEF IsProofRecord

\* AuthenticatedReference: a proof that verifies, for the plan of the failed proof or for
\* the one that the store's metadata gives.
LEMMA ReferencesAre ==
    ASSUME NEW store, NEW failed, IsProofRecord(failed), NEW addresses, NEW trusted,
           NEW q \in AuthenticatedReference(store, failed, addresses, trusted)
    PROVE  /\ IsProofRecord(q) /\ Verified(q, addresses, trusted)
           /\ q.plan = failed.plan \/ q.plan = PlanBuilt(addresses, store)
  <1>1. q \in ReferenceFromProof(store, failed, addresses, trusted) \/ q \in BuildAndVerify(store, addresses, trusted)
    BY DEF AuthenticatedReference
  <1>2. CASE q \in ReferenceFromProof(store, failed, addresses, trusted)
    BY <1>2, RebuildsRecords
  <1>3. CASE q \in BuildAndVerify(store, addresses, trusted)
    <2>1. q \in BuildProof(store, addresses) /\ Verified(q, addresses, trusted)
      BY <1>3 DEF BuildAndVerify
    <2> QED
      BY <2>1, BuildsRecords
  <1> QED
    BY <1>1, <1>2, <1>3

\* Localize compares the trace of the failed proof with that of a reference.
LEMMA AnswersAre ==
    ASSUME NEW store, NEW failed, NEW addresses, NEW trusted
    PROVE  /\ \A answer \in Localize(store, failed, addresses, trusted) :
                 /\ WellFormed(failed, addresses) /\ GlobalRoot(HMFTrace(failed)) # trusted
                 /\ \E q \in AuthenticatedReference(store, failed, addresses, trusted) :
                       answer = [failed |-> failed, reference |-> q,
                                 result |-> Analyze(addresses, failed, q, HMFTrace(failed),
                                                    CHOOSE t \in TraceHMFProof(q, addresses) : TRUE)]
           /\ WellFormed(failed, addresses) /\ GlobalRoot(HMFTrace(failed)) # trusted =>
                 \A q \in AuthenticatedReference(store, failed, addresses, trusted) :
                    [failed |-> failed, reference |-> q,
                     result |-> Analyze(addresses, failed, q, HMFTrace(failed),
                                        CHOOSE t \in TraceHMFProof(q, addresses) : TRUE)]
                       \in Localize(store, failed, addresses, trusted)
  <1> DEFINE Answer(auditor, q) == [failed |-> failed, reference |-> q,
                                    result |-> Analyze(addresses, failed, q, auditor,
                                                       CHOOSE t \in TraceHMFProof(q, addresses) : TRUE)]
             auditors == {t \in TraceHMFProof(failed, addresses) : GlobalRoot(t) # trusted}
             references == AuthenticatedReference(store, failed, addresses, trusted)
  <1>1. Localize(store, failed, addresses, trusted) = UNION {{Answer(t, q) : q \in references} : t \in auditors}
    BY Zenon DEF Localize
  <1>2. \A t : t \in auditors <=>
               t = HMFTrace(failed) /\ WellFormed(failed, addresses) /\ GlobalRoot(HMFTrace(failed)) # trusted
    BY DEF TraceHMFProof
  <1> HIDE DEF Answer, auditors, references
  <1>3. \A answer : answer \in Localize(store, failed, addresses, trusted) <=>
            \E t \in auditors : \E q \in references : answer = Answer(t, q)
    BY <1>1
  <1>4. /\ \A answer \in Localize(store, failed, addresses, trusted) :
              /\ WellFormed(failed, addresses) /\ GlobalRoot(HMFTrace(failed)) # trusted
              /\ \E q \in references : answer = Answer(HMFTrace(failed), q)
        /\ WellFormed(failed, addresses) /\ GlobalRoot(HMFTrace(failed)) # trusted =>
              \A q \in references : Answer(HMFTrace(failed), q) \in Localize(store, failed, addresses, trusted)
    BY <1>2, <1>3
  <1> QED
    BY <1>4 DEF Answer, references
=============================================================================
