---------------------------- MODULE MerkleProofs ----------------------------
(***************************************************************************)
(* What the operators of HMFTrees compute, for trees of every size: the    *)
(* levels of a tree, path recomputation and the append frontier give the   *)
(* trees of the reference definition.                                      *)
(*                                                                         *)
(* Induction is over subsets of Nat, by the first-order theorem WFMin: a   *)
(* set that holds 0 and the successor of each of its elements is Nat.      *)
(***************************************************************************)
EXTENDS Merkle, SequenceTheorems, WellFoundedInduction, TLAPS

(* Induction *)

\* A nonempty set of naturals has a least element.
LEMMA NatMin ==
    ASSUME NEW T, T \subseteq Nat, T # {}
    PROVE  \E x \in T : \A y \in T : x <= y
  <1>1. PICK x \in T : \A y \in T : ~(<<y, x>> \in OpToRel(<, Nat))
    BY NatLessThanWellFounded, WFMin
  <1>2. \A y \in T : ~(y < x)
    BY <1>1 DEF OpToRel
  <1> QED
    BY <1>2

\* Induction, for the set of the numbers that have the property.
LEMMA NatInduct ==
    ASSUME NEW T, 0 \in T, \A n \in Nat : n \in T => n + 1 \in T
    PROVE  \A n \in Nat : n \in T
  <1> DEFINE U == {n \in Nat : n \notin T}
  <1> SUFFICES ASSUME U # {}
               PROVE  FALSE
    OBVIOUS
  <1>1. PICK x \in U : \A y \in U : x <= y
    BY NatMin
  <1>2. x # 0
    OBVIOUS
  <1>3. x - 1 \in Nat /\ x - 1 \notin U
    BY <1>1, <1>2
  <1>4. (x - 1) + 1 \in T
    BY <1>3
  <1> QED
    BY <1>4

\* Strong induction.
LEMMA NatStrong ==
    ASSUME NEW T, \A n \in Nat : (\A m \in 0..(n - 1) : m \in T) => n \in T
    PROVE  \A n \in Nat : n \in T
  <1> DEFINE U == {n \in Nat : n \notin T}
  <1> SUFFICES ASSUME U # {}
               PROVE  FALSE
    OBVIOUS
  <1>1. PICK x \in U : \A y \in U : x <= y
    BY NatMin
  <1>2. \A m \in 0..(x - 1) : m \in T
    <2> SUFFICES ASSUME NEW m \in 0..(x - 1), m \notin T
                 PROVE  FALSE
      OBVIOUS
    <2>1. m \in U
      OBVIOUS
    <2> QED
      BY <1>1, <2>1
  <1> QED
    BY <1>2

-----------------------------------------------------------------------------
(* Powers of two and bits.Len *)

\* The recursive definition of Pow2 defines a function.
LEMMA Pow2Def ==
    Pow2 = [n \in Nat |-> IF n = 0 THEN 1 ELSE 2 * Pow2[n - 1]]
  <1> DEFINE Is(f, n) == f \in [0..n -> Nat] /\ f[0] = 1 /\ \A m \in 1..n : f[m] = 2 * f[m - 1]
             T == {n \in Nat : \E f : Is(f, n)}
  <1>1. 0 \in T
    <2>1. Is([m \in 0..0 |-> 1], 0)
      OBVIOUS
    <2> QED
      BY <2>1
  <1>2. ASSUME NEW n \in Nat, n \in T
        PROVE  n + 1 \in T
    <2>1. PICK f : Is(f, n)
      BY <1>2
    <2> DEFINE g == [m \in 0..(n + 1) |-> IF m = n + 1 THEN 2 * f[n] ELSE f[m]]
    <2>2. Is(g, n + 1)
      BY <2>1
    <2> HIDE DEF g, Is
    <2> QED
      BY <2>2
  <1>3. \A n \in Nat : \E f : Is(f, n)
    <2> HIDE DEF T
    <2>1. \A n \in Nat : n \in T
      BY <1>1, <1>2, NatInduct
    <2> QED
      BY <2>1 DEF T
  <1> DEFINE F(n) == CHOOSE f : Is(f, n)
  <1>4. \A n \in Nat : Is(F(n), n)
    BY <1>3
  <1> HIDE DEF F
  <1>5. \A n \in Nat : F(n + 1)[n] = F(n)[n]
    <2> SUFFICES ASSUME NEW n \in Nat
                 PROVE  F(n + 1)[n] = F(n)[n]
      OBVIOUS
    <2> DEFINE V == {m \in Nat : m <= n => F(n + 1)[m] = F(n)[m]}
    <2>1. 0 \in V
      <3>1. Is(F(n), n) /\ Is(F(n + 1), n + 1)
        BY <1>4, n + 1 \in Nat
      <3> QED
        BY <3>1
    <2>2. ASSUME NEW m \in Nat, m \in V
          PROVE  m + 1 \in V
      <3> SUFFICES ASSUME m + 1 <= n
                   PROVE  F(n + 1)[m + 1] = F(n)[m + 1]
        OBVIOUS
      <3>1. F(n + 1)[m] = F(n)[m]
        BY <2>2
      <3>2. F(n + 1)[m + 1] = 2 * F(n + 1)[m] /\ F(n)[m + 1] = 2 * F(n)[m]
        <4>1. m + 1 \in 1..n /\ m + 1 \in 1..(n + 1) /\ (m + 1) - 1 = m
          OBVIOUS
        <4> QED
          BY <1>4, <4>1
      <3> QED
        BY <3>1, <3>2
    <2> HIDE DEF V
    <2>3. n \in V
      BY <2>1, <2>2, NatInduct
    <2> QED
      BY <2>3 DEF V
  <1> DEFINE g == [n \in Nat |-> F(n)[n]]
  <1>6. \A n \in Nat : g[n] = IF n = 0 THEN 1 ELSE 2 * g[n - 1]
    <2> SUFFICES ASSUME NEW n \in Nat
                 PROVE  g[n] = IF n = 0 THEN 1 ELSE 2 * g[n - 1]
      OBVIOUS
    <2>1. CASE n = 0
      BY <1>4, <2>1
    <2>2. CASE n # 0
      <3>1. n - 1 \in Nat /\ (n - 1) + 1 = n /\ n \in 1..n
        BY <2>2
      <3>2. F(n)[n] = 2 * F(n)[n - 1]
        BY <1>4, <3>1
      <3>3. F(n)[n - 1] = F(n - 1)[n - 1]
        BY <1>5, <3>1
      <3> QED
        BY <2>2, <3>1, <3>2, <3>3
    <2> QED
      BY <2>1, <2>2
  <1>7. g = [n \in Nat |-> IF n = 0 THEN 1 ELSE 2 * g[n - 1]]
    BY <1>6
  <1> HIDE DEF g
  <1>8. \E f : f = [n \in Nat |-> IF n = 0 THEN 1 ELSE 2 * f[n - 1]]
    BY <1>7
  <1> QED
    BY <1>8 DEF Pow2

LEMMA Pow2Step ==
    /\ Pow2[0] = 1
    /\ \A n \in Nat : Pow2[n] \in Nat /\ Pow2[n] > 0 /\ Pow2[n + 1] = 2 * Pow2[n]
  <1>1. Pow2[0] = 1
    BY Pow2Def
  <1>2. \A n \in Nat : Pow2[n + 1] = 2 * Pow2[n]
    <2> SUFFICES ASSUME NEW n \in Nat
                 PROVE  Pow2[n + 1] = 2 * Pow2[n]
      OBVIOUS
    <2>1. n + 1 \in Nat /\ n + 1 # 0 /\ (n + 1) - 1 = n
      OBVIOUS
    <2> QED
      BY <2>1, Pow2Def
  <1> DEFINE T == {n \in Nat : Pow2[n] \in Nat /\ Pow2[n] > 0}
  <1>3. 0 \in T
    BY <1>1
  <1>4. \A n \in Nat : n \in T => n + 1 \in T
    BY <1>2
  <1>5. \A n \in Nat : n \in T
    <2> HIDE DEF T
    <2> QED
      BY <1>3, <1>4, NatInduct
  <1> QED
    BY <1>1, <1>2, <1>5

LEMMA Pow2Mono ==
    \A m, n \in Nat : m < n => 2 * Pow2[m] <= Pow2[n]
  <1> SUFFICES ASSUME NEW m \in Nat
               PROVE  \A n \in Nat : m < n => 2 * Pow2[m] <= Pow2[n]
    OBVIOUS
  <1> DEFINE T == {n \in Nat : m < n => 2 * Pow2[m] <= Pow2[n]}
  <1>1. 0 \in T
    OBVIOUS
  <1>2. ASSUME NEW n \in Nat, n \in T
        PROVE  n + 1 \in T
    <2>1. Pow2[n + 1] = 2 * Pow2[n] /\ Pow2[n] \in Nat /\ Pow2[m] \in Nat
      BY Pow2Step
    <2>2. CASE m = n
      BY <2>1, <2>2
    <2>3. CASE m < n
      BY <1>2, <2>1, <2>3
    <2> QED
      BY <2>2, <2>3
  <1>3. \A n \in Nat : n \in T
    <2> HIDE DEF T
    <2> QED
      BY <1>1, <1>2, NatInduct
  <1> QED
    BY <1>3

LEMMA Pow2Large ==
    \A n \in Nat : n < Pow2[n]
  <1> DEFINE T == {n \in Nat : n < Pow2[n]}
  <1>1. 0 \in T
    BY Pow2Step
  <1>2. ASSUME NEW n \in Nat, n \in T
        PROVE  n + 1 \in T
    BY <1>2, Pow2Step
  <1>3. \A n \in Nat : n \in T
    <2> HIDE DEF T
    <2> QED
      BY <1>1, <1>2, NatInduct
  <1> QED
    BY <1>3

\* b is the number of bits of n.
HasBits(n, b) ==
    b \in Nat /\ n < Pow2[b] /\ (n = 0 => b = 0) /\ (n > 0 => b > 0 /\ Pow2[b - 1] <= n)

LEMMA HasBitsUnique ==
    ASSUME NEW n \in Nat, NEW b, NEW c, HasBits(n, b), HasBits(n, c)
    PROVE  b = c
  <1> b \in Nat /\ c \in Nat
    BY DEF HasBits
  <1>1. CASE n = 0
    BY <1>1 DEF HasBits
  <1>2. CASE n > 0
    <2>1. b - 1 \in Nat /\ c - 1 \in Nat
      BY <1>2 DEF HasBits
    <2>2. Pow2[b - 1] <= n /\ Pow2[c - 1] <= n /\ n < Pow2[b] /\ n < Pow2[c]
      BY <1>2 DEF HasBits
    <2>3. Pow2[b] \in Nat /\ Pow2[c] \in Nat /\ Pow2[b - 1] \in Nat /\ Pow2[c - 1] \in Nat
      BY <2>1, Pow2Step
    <2>4. b - 1 < c
      <3> SUFFICES ASSUME c <= b - 1
                   PROVE  FALSE
        BY <2>1
      <3>1. CASE c = b - 1
        BY <2>2, <2>3, <3>1
      <3>2. CASE c < b - 1
        <4>1. 2 * Pow2[c] <= Pow2[b - 1]
          BY <2>1, <3>2, Pow2Mono
        <4> QED
          BY <2>2, <2>3, <4>1
      <3> QED
        BY <3>1, <3>2, <2>1
    <2>5. c - 1 < b
      <3> SUFFICES ASSUME b <= c - 1
                   PROVE  FALSE
        BY <2>1
      <3>1. CASE b = c - 1
        BY <2>2, <2>3, <3>1
      <3>2. CASE b < c - 1
        <4>1. 2 * Pow2[b] <= Pow2[c - 1]
          BY <2>1, <3>2, Pow2Mono
        <4> QED
          BY <2>2, <2>3, <4>1
      <3> QED
        BY <3>1, <3>2, <2>1
    <2> QED
      BY <2>4, <2>5
  <1> QED
    BY <1>1, <1>2

LEMMA HasBitsExists ==
    ASSUME NEW n \in Nat
    PROVE  \E b : HasBits(n, b)
  <1> DEFINE T == {b \in Nat : n < Pow2[b]}
  <1>1. T \subseteq Nat /\ T # {}
    BY Pow2Large
  <1>2. PICK b \in T : \A c \in T : b <= c
    <2> HIDE DEF T
    <2> QED
      BY <1>1, NatMin
  <1>3. n = 0 => b = 0
    BY <1>2, Pow2Step
  <1>4. n > 0 => b > 0 /\ Pow2[b - 1] <= n
    <2> SUFFICES ASSUME n > 0
                 PROVE  b > 0 /\ Pow2[b - 1] <= n
      OBVIOUS
    <2>1. b > 0
      BY Pow2Step
    <2>2. b - 1 \in Nat /\ b - 1 \notin T
      BY <1>2, <2>1
    <2>3. Pow2[b - 1] \in Nat
      BY <2>2, Pow2Step
    <2> QED
      BY <2>1, <2>2, <2>3
  <1> QED
    BY <1>3, <1>4 DEF HasBits

\* One bit more for a number of twice the size.
LEMMA HasBitsHalf ==
    ASSUME NEW n \in Nat, n > 0, NEW b, HasBits(n \div 2, b)
    PROVE  HasBits(n, 1 + b)
  <1> DEFINE h == n \div 2
  <1>1. h \in Nat /\ 2 * h <= n /\ n <= 2 * h + 1
    OBVIOUS
  <1> HIDE DEF h
  <1>2. b \in Nat /\ h < Pow2[b] /\ (h = 0 => b = 0) /\ (h > 0 => b > 0 /\ Pow2[b - 1] <= h)
    BY DEF HasBits, h
  <1>3. Pow2[b + 1] = 2 * Pow2[b] /\ Pow2[b] \in Nat /\ 1 + b = b + 1
    BY <1>2, Pow2Step
  <1>4. n < Pow2[1 + b]
    BY <1>1, <1>2, <1>3
  <1>5. Pow2[b] <= n
    <2>1. CASE h = 0
      BY <1>2, <2>1, Pow2Step
    <2>2. CASE h > 0
      <3>1. b - 1 \in Nat /\ (b - 1) + 1 = b
        BY <1>2, <2>2
      <3>2. Pow2[b] = 2 * Pow2[b - 1] /\ Pow2[b - 1] \in Nat
        BY <3>1, Pow2Step
      <3> QED
        BY <1>1, <1>2, <2>2, <3>2
    <2> QED
      BY <1>1, <2>1, <2>2
  <1>6. (1 + b) - 1 = b /\ 1 + b \in Nat /\ 1 + b > 0
    BY <1>2
  <1> QED
    BY <1>4, <1>5, <1>6 DEF HasBits

LEMMA BitsLenDef ==
    BitsLen = [n \in Nat |-> IF n = 0 THEN 0 ELSE 1 + BitsLen[n \div 2]]
  <1> DEFINE g == [n \in Nat |-> CHOOSE b : HasBits(n, b)]
  <1>1. \A n \in Nat : HasBits(n, g[n])
    <2> SUFFICES ASSUME NEW n \in Nat
                 PROVE  HasBits(n, CHOOSE b : HasBits(n, b))
      OBVIOUS
    <2>1. \E b : HasBits(n, b)
      BY HasBitsExists
    <2> QED
      BY <2>1
  <1>2. DOMAIN g = Nat /\ g = [n \in Nat |-> g[n]]
    OBVIOUS
  <1> HIDE DEF g
  <1>3. \A n \in Nat : g[n] = IF n = 0 THEN 0 ELSE 1 + g[n \div 2]
    <2> SUFFICES ASSUME NEW n \in Nat
                 PROVE  g[n] = IF n = 0 THEN 0 ELSE 1 + g[n \div 2]
      OBVIOUS
    <2>1. CASE n = 0
      BY <1>1, <2>1 DEF HasBits
    <2>2. CASE n > 0
      <3>1. n \div 2 \in Nat
        OBVIOUS
      <3>2. HasBits(n \div 2, g[n \div 2]) /\ HasBits(n, g[n])
        BY <1>1, <3>1
      <3>3. HasBits(n, 1 + g[n \div 2])
        BY <2>2, <3>2, HasBitsHalf
      <3>4. g[n] = 1 + g[n \div 2]
        BY <3>2, <3>3, HasBitsUnique
      <3> QED
        BY <2>2, <3>4
    <2> QED
      BY <2>1, <2>2
  <1>4. g = [n \in Nat |-> IF n = 0 THEN 0 ELSE 1 + g[n \div 2]]
    BY <1>2, <1>3
  <1>5. \E f : f = [n \in Nat |-> IF n = 0 THEN 0 ELSE 1 + f[n \div 2]]
    BY <1>4
  <1> QED
    BY <1>5 DEF BitsLen

\* bits.Len gives the number of bits.
LEMMA BitsLenHasBits ==
    \A n \in Nat : HasBits(n, BitsLen[n])
  <1> DEFINE T == {n \in Nat : HasBits(n, BitsLen[n])}
  <1>1. ASSUME NEW n \in Nat, \A m \in 0..(n - 1) : m \in T
        PROVE  n \in T
    <2>1. CASE n = 0
      <3>1. BitsLen[n] = 0
        BY <2>1, BitsLenDef
      <3> QED
        BY <2>1, <3>1, Pow2Step DEF HasBits
    <2>2. CASE n > 0
      <3>1. n \div 2 \in 0..(n - 1)
        BY <2>2
      <3>2. HasBits(n \div 2, BitsLen[n \div 2])
        BY <1>1, <3>1
      <3>3. BitsLen[n] = 1 + BitsLen[n \div 2]
        BY <2>2, BitsLenDef
      <3>4. HasBits(n, 1 + BitsLen[n \div 2])
        BY <2>2, <3>2, HasBitsHalf
      <3> QED
        BY <3>3, <3>4
    <2> QED
      BY <2>1, <2>2
  <1>2. \A n \in Nat : n \in T
    <2> HIDE DEF T
    <2> QED
      BY <1>1, NatStrong
  <1> QED
    BY <1>2

-----------------------------------------------------------------------------
(* Lists, levels and the reference as functions *)

IsList(s) == Len(s) \in Nat /\ s = [i \in 1..Len(s) |-> s[i]]

LEMMA ListIs ==
    ASSUME NEW n \in Nat, NEW s, s = [i \in 1..n |-> s[i]]
    PROVE  IsList(s) /\ Len(s) = n /\ DOMAIN s = 1..n
  BY DEF IsList

LEMMA ListEqual ==
    ASSUME NEW s, NEW t, IsList(s), IsList(t), Len(s) = Len(t), \A i \in 1..Len(s) : s[i] = t[i]
    PROVE  s = t
  BY DEF IsList

LEMMA NextLevelIs ==
    ASSUME NEW s, IsList(s)
    PROVE  /\ IsList(NextLevel(s))
           /\ Len(NextLevel(s)) = (Len(s) + 1) \div 2
           /\ \A i \in 0..(((Len(s) + 1) \div 2) - 1) : NextLevel(s)[i + 1] = ParentHash(s, i)
  <1> DEFINE n == (Len(s) + 1) \div 2
  <1>1. n \in Nat
    BY DEF IsList
  <1>2. NextLevel(s) = [i \in 1..n |-> ParentHash(s, i - 1)]
    BY DEF NextLevel
  <1> HIDE DEF n
  <1>3. NextLevel(s) = [i \in 1..n |-> NextLevel(s)[i]]
    BY <1>2
  <1>4. IsList(NextLevel(s)) /\ Len(NextLevel(s)) = n
    BY <1>1, <1>3, ListIs
  <1>5. \A i \in 0..(n - 1) : NextLevel(s)[i + 1] = ParentHash(s, i)
    <2> SUFFICES ASSUME NEW i \in 0..(n - 1)
                 PROVE  NextLevel(s)[i + 1] = ParentHash(s, i)
      OBVIOUS
    <2>1. i + 1 \in 1..n /\ (i + 1) - 1 = i
      BY <1>1
    <2> QED
      BY <1>2, <2>1
  <1> QED
    BY <1>4, <1>5 DEF n

LEMMA BuildDef ==
    ASSUME NEW leaves, NEW height \in Nat
    PROVE  Build(leaves, height) =
               [h \in 1..(height + 1) |->
                   IF h = 1 THEN leaves ELSE NextLevel(Build(leaves, height)[h - 1])]
  <1> DEFINE Is(f, n) == f = [h \in 1..n |-> IF h = 1 THEN leaves ELSE NextLevel(f[h - 1])]
             T == {n \in Nat : \E f : Is(f, n)}
  <1>1. 0 \in T
    <2>1. Is([h \in 1..0 |-> leaves], 0)
      OBVIOUS
    <2> QED
      BY <2>1
  <1>2. ASSUME NEW n \in Nat, n \in T
        PROVE  n + 1 \in T
    <2>1. PICK f : Is(f, n)
      BY <1>2
    <2> DEFINE g == [h \in 1..(n + 1) |-> IF h = n + 1 THEN (IF h = 1 THEN leaves ELSE NextLevel(f[n])) ELSE f[h]]
    <2>2. ASSUME NEW h \in 1..(n + 1)
          PROVE  g[h] = IF h = 1 THEN leaves ELSE NextLevel(g[h - 1])
      <3>1. CASE h = n + 1
        BY <3>1
      <3>2. CASE h # n + 1
        <4>1. h \in 1..n /\ (h # 1 => h - 1 \in 1..n /\ h - 1 # n + 1)
          BY <3>2
        <4>2. f[h] = IF h = 1 THEN leaves ELSE NextLevel(f[h - 1])
          BY <2>1, <4>1
        <4> QED
          BY <3>2, <4>1, <4>2
      <3> QED
        BY <3>1, <3>2
    <2>3. Is(g, n + 1)
      BY <2>2
    <2> HIDE DEF g, Is
    <2> QED
      BY <2>3
  <1>3. \E f : Is(f, height + 1)
    <2> HIDE DEF T
    <2>1. height + 1 \in T
      BY <1>1, <1>2, NatInduct
    <2> QED
      BY <2>1 DEF T
  <1> QED
    BY <1>3 DEF Build

\* The levels of a tree: the leaves, and over every level its parents.
LEMMA BuildLevels ==
    ASSUME NEW leaves, NEW height \in Nat
    PROVE  LET tree == Build(leaves, height)
           IN /\ IsList(tree) /\ Len(tree) = height + 1
              /\ tree[1] = leaves
              /\ \A l \in 1..height : tree[l + 1] = NextLevel(tree[l])
  <1> DEFINE tree == Build(leaves, height)
             Level(h) == IF h = 1 THEN leaves ELSE NextLevel(tree[h - 1])
  <1>1. tree = [h \in 1..(height + 1) |-> Level(h)]
    BY BuildDef
  <1> HIDE DEF tree
  <1>2. tree = [h \in 1..(height + 1) |-> tree[h]]
    <2> HIDE DEF Level
    <2> QED
      BY <1>1
  <1>3. IsList(tree) /\ Len(tree) = height + 1
    BY <1>2, ListIs
  <1>4. \A h \in 1..(height + 1) : tree[h] = Level(h)
    <2> HIDE DEF Level
    <2> QED
      BY <1>1
  <1>5. tree[1] = leaves
    BY <1>4
  <1>6. \A l \in 1..height : tree[l + 1] = NextLevel(tree[l])
    <2> SUFFICES ASSUME NEW l \in 1..height
                 PROVE  tree[l + 1] = NextLevel(tree[l])
      OBVIOUS
    <2>1. l + 1 \in 1..(height + 1) /\ l + 1 # 1 /\ (l + 1) - 1 = l
      OBVIOUS
    <2> QED
      BY <1>4, <2>1
  <1> QED
    BY <1>3, <1>5, <1>6 DEF tree

\* Every level is a list, with half the nodes of the level below, rounded up.
LEMMA BuildWidths ==
    ASSUME NEW leaves, IsList(leaves), NEW height \in Nat
    PROVE  LET tree == Build(leaves, height)
           IN /\ \A l \in 1..(height + 1) : IsList(tree[l])
              /\ \A l \in 1..height : Len(tree[l + 1]) = (Len(tree[l]) + 1) \div 2
  <1> DEFINE tree == Build(leaves, height)
             T == {n \in Nat : n <= height => IsList(tree[n + 1])}
  <1>a. \A list : LET built == Build(list, height)
                 IN built[1] = list /\ \A l \in 1..height : built[l + 1] = NextLevel(built[l])
    BY BuildLevels
  <1>1. tree[1] = leaves /\ \A l \in 1..height : tree[l + 1] = NextLevel(tree[l])
    BY <1>a
  <1> HIDE DEF tree
  <1>2. 0 \in T
    BY <1>1
  <1>3. ASSUME NEW n \in Nat, n \in T
        PROVE  n + 1 \in T
    <2> SUFFICES ASSUME n + 1 <= height
                 PROVE  IsList(tree[(n + 1) + 1])
      OBVIOUS
    <2>1. n + 1 \in 1..height /\ IsList(tree[n + 1])
      BY <1>3
    <2> QED
      BY <1>1, <2>1, NextLevelIs
  <1>4. \A l \in 1..(height + 1) : IsList(tree[l])
    <2> SUFFICES ASSUME NEW l \in 1..(height + 1)
                 PROVE  IsList(tree[l])
      OBVIOUS
    <2> HIDE DEF T
    <2>1. l - 1 \in Nat /\ l - 1 <= height /\ (l - 1) + 1 = l
      OBVIOUS
    <2>2. l - 1 \in T
      BY <1>2, <1>3, <2>1, NatInduct
    <2> QED
      BY <2>1, <2>2 DEF T
  <1>5. \A l \in 1..height : Len(tree[l + 1]) = (Len(tree[l]) + 1) \div 2
    <2> SUFFICES ASSUME NEW l \in 1..height
                 PROVE  Len(tree[l + 1]) = (Len(tree[l]) + 1) \div 2
      OBVIOUS
    <2>1. l \in 1..(height + 1)
      OBVIOUS
    <2> QED
      BY <1>1, <1>4, <2>1, NextLevelIs
  <1> QED
    BY <1>4, <1>5 DEF tree

\* The nodes of a level that is l levels above n leaves: it ends where the leaves end.
LEMMA BuildSpans ==
    ASSUME NEW leaves, IsList(leaves), NEW height \in Nat, Len(leaves) > 0
    PROVE  LET tree == Build(leaves, height)
           IN \A l \in 0..height :
                 /\ Len(tree[l + 1]) > 0
                 /\ (Len(tree[l + 1]) - 1) * Pow2[l] < Len(leaves)
                 /\ Len(leaves) <= Len(tree[l + 1]) * Pow2[l]
  <1> DEFINE tree == Build(leaves, height)
             n == Len(leaves)
             Spans(l) == /\ Len(tree[l + 1]) > 0
                         /\ (Len(tree[l + 1]) - 1) * Pow2[l] < n
                         /\ n <= Len(tree[l + 1]) * Pow2[l]
             T == {l \in Nat : l <= height => Spans(l)}
  <1>1. tree[1] = leaves
    BY BuildLevels
  <1>2. /\ \A l \in 1..(height + 1) : Len(tree[l]) \in Nat
        /\ \A l \in 1..height : Len(tree[l + 1]) = (Len(tree[l]) + 1) \div 2
    BY BuildWidths DEF IsList
  <1>3. n \in Nat /\ n > 0
    BY DEF IsList
  <1> HIDE DEF tree
  <1>4. 0 \in T
    <2>1. Pow2[0] = 1 /\ tree[0 + 1] = leaves
      BY <1>1, Pow2Step
    <2> QED
      BY <1>3, <2>1
  <1>5. ASSUME NEW l \in Nat, l \in T
        PROVE  l + 1 \in T
    <2> SUFFICES ASSUME l + 1 <= height
                 PROVE  Spans(l + 1)
      OBVIOUS
    <2> DEFINE w == Len(tree[l + 1])
               v == Len(tree[(l + 1) + 1])
               p == Pow2[l]
    <2>1. w \in Nat /\ v \in Nat /\ v = (w + 1) \div 2
      <3>1. l + 1 \in 1..height /\ l + 1 \in 1..(height + 1) /\ (l + 1) + 1 \in 1..(height + 1)
        OBVIOUS
      <3> QED
        BY <1>2, <3>1
    <2>2. w > 0 /\ (w - 1) * p < n /\ n <= w * p
      BY <1>5
    <2> HIDE DEF w, v
    <2>3. Pow2[l + 1] = 2 * p /\ p \in Nat /\ p > 0
      BY Pow2Step
    <2>4. v > 0 /\ 2 * (v - 1) <= w - 1 /\ w <= 2 * v
      BY <2>1, <2>2
    <2> HIDE DEF p
    <2>5. p \in Nat /\ p > 0
      BY <2>3
    <2>6. (2 * (v - 1)) * p <= (w - 1) * p /\ w * p <= (2 * v) * p
      BY <2>1, <2>4, <2>5
    <2>7. (v - 1) * (2 * p) = (2 * (v - 1)) * p /\ v * (2 * p) = (2 * v) * p
      BY <2>1, <2>5
    <2>8. (v - 1) * (2 * p) < n /\ n <= v * (2 * p)
      <3>1. (w - 1) * p \in Int /\ w * p \in Int /\ (2 * (v - 1)) * p \in Int /\ (2 * v) * p \in Int
        BY <2>1, <2>5
      <3> QED
        BY <1>3, <2>2, <2>6, <2>7, <3>1
    <2> QED
      BY <2>3, <2>4, <2>8 DEF v
  <1>6. \A l \in Nat : l \in T
    <2> HIDE DEF T
    <2> QED
      BY <1>4, <1>5, NatInduct
  <1>7. \A l \in 0..height : Spans(l)
    BY <1>6
  <1> QED
    BY <1>7 DEF tree

\* A region tree ends in one node, and in the first level that has one.
LEMMA TopIsSingle ==
    ASSUME NEW leaves, IsList(leaves), Len(leaves) > 0, NEW height \in Nat,
           BitsLen[Len(leaves) - 1] <= height
    PROVE  LET tree == Build(leaves, height)
               top == BitsLen[Len(leaves) - 1]
           IN top \in Nat /\ \A l \in 0..top : Len(tree[l + 1]) = 1 <=> l = top
  <1> DEFINE tree == Build(leaves, height)
             n == Len(leaves)
             top == BitsLen[n - 1]
  <1>1. n \in Nat /\ n - 1 \in Nat
    BY DEF IsList
  <1>2. top \in Nat /\ n - 1 < Pow2[top] /\ (n - 1 > 0 => top > 0 /\ Pow2[top - 1] <= n - 1)
                    /\ (n - 1 = 0 => top = 0)
    BY <1>1, BitsLenHasBits DEF HasBits
  <1>3. \A l \in 0..height : /\ Len(tree[l + 1]) > 0
                             /\ (Len(tree[l + 1]) - 1) * Pow2[l] < n
                             /\ n <= Len(tree[l + 1]) * Pow2[l]
    BY BuildSpans
  <1>4. \A l \in 0..height : Len(tree[l + 1]) \in Nat
    <2>1. \A l \in 0..height : l + 1 \in 1..(height + 1)
      OBVIOUS
    <2> QED
      BY <2>1, BuildWidths DEF IsList
  <1> HIDE DEF tree, top
  <1>5. ASSUME NEW l \in 0..top
        PROVE  Len(tree[l + 1]) = 1 <=> l = top
    <2> DEFINE w == Len(tree[l + 1])
               p == Pow2[l]
    <2>1. l \in 0..height /\ l \in Nat
      BY <1>2 DEF top
    <2>2. w \in Nat /\ w > 0 /\ (w - 1) * p < n /\ n <= w * p /\ p \in Nat /\ p > 0
      BY <1>3, <1>4, <2>1, Pow2Step
    <2> HIDE DEF w
    <2>3. CASE l = top
      <3>1. n <= p
        BY <1>1, <1>2, <2>2, <2>3
      <3> HIDE DEF p
      <3>2. w >= 2 => (w - 1) * p >= p
        BY <2>2
      <3>3. (w - 1) * p \in Int
        BY <2>2
      <3>4. w = 1
        BY <1>1, <2>2, <3>1, <3>2, <3>3
      <3> QED
        BY <2>3, <3>4 DEF w
    <2>4. CASE l < top
      <3>1. top - 1 \in Nat /\ n - 1 > 0 /\ Pow2[top - 1] <= n - 1
        <4>1. top > 0 /\ top - 1 \in Nat
          BY <1>2, <2>1, <2>4
        <4>2. n - 1 > 0
          <5>1. n - 1 # 0
            BY <1>2, <4>1
          <5> HIDE DEF n
          <5> QED
            BY <1>1, <5>1
        <4> QED
          BY <1>2, <4>1, <4>2
      <3>2. p <= Pow2[top - 1]
        <4>1. CASE l = top - 1
          BY <3>1, <4>1, <2>2
        <4>2. CASE l < top - 1
          <5>1. 2 * p <= Pow2[top - 1]
            BY <2>1, <3>1, <4>2, Pow2Mono
          <5>2. p \in Nat /\ Pow2[top - 1] \in Nat
            BY <2>1, <3>1, Pow2Step
          <5> QED
            BY <5>1, <5>2
        <4> QED
          BY <2>4, <1>2, <4>1, <4>2
      <3>3. p < n
        <4>1. p \in Nat /\ Pow2[top - 1] \in Nat
          BY <2>1, <3>1, Pow2Step
        <4> QED
          BY <1>1, <3>1, <3>2, <4>1
      <3> HIDE DEF p
      <3>4. w # 1
        BY <2>2, <3>3
      <3> QED
        BY <2>4, <3>4 DEF w
    <2> QED
      BY <1>2, <2>3, <2>4
  <1> QED
    BY <1>2, <1>5 DEF tree, top

-----------------------------------------------------------------------------
(* The reference *)

\* The left part of n leaves.
SplitAt(n) == Pow2[BitsLen[n - 1] - 1]

LEMMA SplitAtBounds ==
    ASSUME NEW n \in Nat, n >= 2
    PROVE  SplitAt(n) \in 1..(n - 1) /\ n - SplitAt(n) \in 1..(n - 1)
  <1> DEFINE b == BitsLen[n - 1]
  <1>1. n - 1 \in Nat /\ n - 1 > 0
    OBVIOUS
  <1>2. HasBits(n - 1, b)
    BY <1>1, BitsLenHasBits
  <1> HIDE DEF b
  <1>3. b - 1 \in Nat /\ Pow2[b - 1] <= n - 1
    BY <1>1, <1>2 DEF HasBits
  <1>4. Pow2[b - 1] \in Nat /\ Pow2[b - 1] > 0
    BY <1>3, Pow2Step
  <1> DEFINE p == Pow2[b - 1]
  <1>5. p \in 1..(n - 1) /\ n - p \in 1..(n - 1)
    <2> HIDE DEF p
    <2>1. p \in Nat /\ p > 0 /\ p <= n - 1
      BY <1>3, <1>4 DEF p
    <2> QED
      BY <2>1
  <1> QED
    BY <1>5 DEF SplitAt, b

\* More than 2^l leaves and not more than twice as many are split after 2^l.
LEMMA SplitAtPow2 ==
    ASSUME NEW l \in Nat, NEW m \in 1..Pow2[l]
    PROVE  SplitAt(Pow2[l] + m) = Pow2[l]
  <1> DEFINE p == Pow2[l]
             n == p + m
  <1>1. p \in Nat /\ p > 0 /\ Pow2[l + 1] = 2 * p /\ m \in Nat /\ m > 0 /\ m <= p
    BY Pow2Step
  <1>2. HasBits(n - 1, l + 1)
    <2>1. (l + 1) - 1 = l /\ l + 1 \in Nat /\ l + 1 > 0
      OBVIOUS
    <2> HIDE DEF p
    <2>2. n - 1 < Pow2[l + 1] /\ p <= n - 1 /\ n - 1 # 0
      BY <1>1
    <2> QED
      BY <2>1, <2>2 DEF HasBits, p
  <1>3. n - 1 \in Nat
    <2> HIDE DEF p
    <2> QED
      BY <1>1
  <1>4. HasBits(n - 1, BitsLen[n - 1])
    BY <1>3, BitsLenHasBits
  <1>5. BitsLen[n - 1] = l + 1
    <2> HIDE DEF n
    <2> QED
      BY <1>2, <1>3, <1>4, HasBitsUnique
  <1>6. (l + 1) - 1 = l
    OBVIOUS
  <1> QED
    BY <1>5, <1>6 DEF SplitAt

\* The entry of a table of roots for n leaves after the first i.
RootEntry(leaves, root, n, i) ==
    IF n = 1 THEN leaves[i + 1]
    ELSE HashPair(root[SplitAt(n)][i], root[n - SplitAt(n)][i + SplitAt(n)])

LEMMA RootsDef ==
    ASSUME NEW leaves, Len(leaves) \in Nat
    PROVE  Roots(leaves) = [n \in 1..Len(leaves) |->
                              [i \in 0..(Len(leaves) - n) |-> RootEntry(leaves, Roots(leaves), n, i)]]
  <1> DEFINE N == Len(leaves)
             Row(f, n) == [i \in 0..(N - n) |-> RootEntry(leaves, f, n, i)]
             Is(f, m) == f = [n \in 1..m |-> Row(f, n)]
             T == {m \in Nat : \E f : Is(f, m)}
  <1>1. 0 \in T
    <2>1. Is([n \in 1..0 |-> 0], 0)
      OBVIOUS
    <2> QED
      BY <2>1
  <1>2. ASSUME NEW m \in Nat, m \in T
        PROVE  m + 1 \in T
    <2>1. PICK f : Is(f, m)
      BY <1>2
    <2> DEFINE g == [n \in 1..(m + 1) |-> IF n = m + 1 THEN Row(f, n) ELSE f[n]]
    <2>2. \A n \in 1..m : g[n] = f[n]
      OBVIOUS
    <2>3. ASSUME NEW n \in 1..(m + 1)
          PROVE  g[n] = Row(f, n)
      <3> HIDE DEF Row
      <3> QED
        BY <2>1
    <2> HIDE DEF g
    <2>4. ASSUME NEW n \in 1..(m + 1), NEW i
          PROVE  RootEntry(leaves, f, n, i) = RootEntry(leaves, g, n, i)
      <3>1. CASE n = 1
        BY <3>1 DEF RootEntry
      <3>2. CASE n # 1
        <4>1. SplitAt(n) \in 1..(n - 1) /\ n - SplitAt(n) \in 1..(n - 1)
          BY <3>2, SplitAtBounds
        <4>2. SplitAt(n) \in 1..m /\ n - SplitAt(n) \in 1..m
          BY <4>1
        <4>3. g[SplitAt(n)] = f[SplitAt(n)] /\ g[n - SplitAt(n)] = f[n - SplitAt(n)]
          BY <2>2, <4>2
        <4> QED
          BY <3>2, <4>3 DEF RootEntry
      <3> QED
        BY <3>1, <3>2
    <2>5. \A n \in 1..(m + 1) : g[n] = Row(g, n)
      <3> SUFFICES ASSUME NEW n \in 1..(m + 1)
                   PROVE  Row(f, n) = Row(g, n)
        BY <2>3
      <3> QED
        BY <2>4
    <2>6. Is(g, m + 1)
      <3> HIDE DEF Row
      <3>1. g = [n \in 1..(m + 1) |-> g[n]]
        BY DEF g
      <3> QED
        BY <2>5, <3>1
    <2> HIDE DEF Is
    <2> QED
      BY <2>6
  <1>3. \E f : Is(f, N)
    <2> HIDE DEF T
    <2>1. N \in T
      BY <1>1, <1>2, NatInduct
    <2> QED
      BY <2>1 DEF T
  <1> DEFINE Body(f, n, i) ==
                 IF n = 1 THEN leaves[i + 1]
                 ELSE HashPair(f[Pow2[BitsLen[n - 1] - 1]][i],
                               f[n - Pow2[BitsLen[n - 1] - 1]][i + Pow2[BitsLen[n - 1] - 1]])
  <1>4. Roots(leaves) = CHOOSE f : f = [n \in 1..N |-> [i \in 0..(N - n) |-> Body(f, n, i)]]
    BY DEF Roots
  <1>5. \A f, n, i : Body(f, n, i) = RootEntry(leaves, f, n, i)
    BY DEF RootEntry, SplitAt
  <1> HIDE DEF Body
  <1>6. PICK f : Is(f, N)
    BY <1>3
  <1>7. f = [n \in 1..N |-> [i \in 0..(N - n) |-> Body(f, n, i)]]
    BY <1>5, <1>6
  <1>8. Roots(leaves) = [n \in 1..N |-> [i \in 0..(N - n) |-> Body(Roots(leaves), n, i)]]
    BY <1>4, <1>7
  <1> QED
    BY <1>5, <1>8

LEMMA RootOverIs ==
    ASSUME NEW leaves, Len(leaves) \in Nat, NEW n \in 1..Len(leaves), NEW i \in 0..(Len(leaves) - n)
    PROVE  RootOver(leaves, i, n) =
               IF n = 1 THEN leaves[i + 1]
               ELSE HashPair(RootOver(leaves, i, SplitAt(n)),
                             RootOver(leaves, i + SplitAt(n), n - SplitAt(n)))
  <1> DEFINE R == Roots(leaves)
             N == Len(leaves)
             Row(m) == [j \in 0..(N - m) |-> RootEntry(leaves, R, m, j)]
  <1>1. R = [m \in 1..N |-> Row(m)]
    BY RootsDef
  <1> HIDE DEF R, N
  <1>2. R[n] = Row(n)
    <2> HIDE DEF Row
    <2> QED
      BY <1>1 DEF N
  <1>3. Row(n)[i] = RootEntry(leaves, R, n, i)
    BY DEF N
  <1> QED
    BY <1>2, <1>3 DEF RootEntry, RootOver, R

LEMMA RootOverOne ==
    ASSUME NEW leaves, Len(leaves) \in Nat, NEW i \in 0..(Len(leaves) - 1)
    PROVE  RootOver(leaves, i, 1) = leaves[i + 1]
  <1>1. 1 \in 1..Len(leaves)
    OBVIOUS
  <1> QED
    BY <1>1, RootOverIs

\* 2^l leaves and the leaves that follow, not more than as many again.
LEMMA RootOverPair ==
    ASSUME NEW leaves, Len(leaves) \in Nat, NEW l \in Nat, NEW i \in Nat,
           NEW m \in 1..Pow2[l], i + Pow2[l] + m <= Len(leaves)
    PROVE  RootOver(leaves, i, Pow2[l] + m) =
               HashPair(RootOver(leaves, i, Pow2[l]), RootOver(leaves, i + Pow2[l], m))
  <1> DEFINE p == Pow2[l]
             n == p + m
             N == Len(leaves)
  <1>1. p \in Nat /\ p > 0
    BY Pow2Step
  <1>2. SplitAt(n) = p
    BY SplitAtPow2
  <1> HIDE DEF p
  <1>3. m \in Nat /\ m > 0
    BY <1>1 DEF p
  <1>4. n - SplitAt(n) = m
    BY <1>1, <1>2, <1>3
  <1>5. N \in Nat /\ i + p + m <= N
    BY DEF p
  <1> HIDE DEF N
  <1>6. n \in 1..N /\ i \in 0..(N - n) /\ n # 1
    BY <1>1, <1>3, <1>5
  <1>7. RootOver(leaves, i, n) = HashPair(RootOver(leaves, i, p), RootOver(leaves, i + p, m))
    <2> HIDE DEF n
    <2>1. RootOver(leaves, i, n) = IF n = 1 THEN leaves[i + 1]
               ELSE HashPair(RootOver(leaves, i, SplitAt(n)),
                             RootOver(leaves, i + SplitAt(n), n - SplitAt(n)))
      BY <1>5, <1>6, RootOverIs DEF N
    <2> QED
      BY <1>2, <1>4, <1>6, <2>1
  <1> QED
    BY <1>7 DEF p

\* A root depends on the leaves it is over.
LEMMA RootOverPrefix ==
    ASSUME NEW s, NEW t, Len(s) \in Nat, Len(t) \in Nat, NEW k \in 0..Len(s), k <= Len(t),
           \A i \in 1..k : s[i] = t[i]
    PROVE  \A n \in 1..k : \A i \in 0..(k - n) : RootOver(s, i, n) = RootOver(t, i, n)
  <1> DEFINE T == {n \in Nat : n \in 1..k => \A i \in 0..(k - n) : RootOver(s, i, n) = RootOver(t, i, n)}
             M == Len(s)
             N == Len(t)
  <1>0. M \in Nat /\ N \in Nat /\ k \in Nat /\ k <= M /\ k <= N
    OBVIOUS
  <1> HIDE DEF M, N
  <1>1. ASSUME NEW n \in Nat, \A m \in 0..(n - 1) : m \in T
        PROVE  n \in T
    <2> SUFFICES ASSUME n \in 1..k, NEW i \in 0..(k - n)
                 PROVE  RootOver(s, i, n) = RootOver(t, i, n)
      OBVIOUS
    <2>1. n \in 1..M /\ n \in 1..N /\ i \in 0..(M - n) /\ i \in 0..(N - n)
      BY <1>0
    <2> DEFINE a == SplitAt(n)
               b == n - a
    <2>2. /\ RootOver(s, i, n) = IF n = 1 THEN s[i + 1] ELSE HashPair(RootOver(s, i, a), RootOver(s, i + a, b))
          /\ RootOver(t, i, n) = IF n = 1 THEN t[i + 1] ELSE HashPair(RootOver(t, i, a), RootOver(t, i + a, b))
      BY <2>1, RootOverIs DEF M, N
    <2>3. CASE n = 1
      <3>1. i + 1 \in 1..k
        BY <2>3, <1>0
      <3> QED
        BY <2>2, <2>3, <3>1
    <2>4. CASE n # 1
      <3>1. a \in 1..(n - 1) /\ b \in 1..(n - 1)
        BY <2>4, SplitAtBounds
      <3>2. a \in Nat /\ b \in Nat /\ a + b = n
        BY <3>1
      <3> HIDE DEF a, b
      <3>3. a \in 0..(n - 1) /\ b \in 0..(n - 1) /\ a \in 1..k /\ b \in 1..k
            /\ i \in 0..(k - a) /\ i + a \in 0..(k - b)
        BY <1>0, <3>1, <3>2
      <3>4. RootOver(s, i, a) = RootOver(t, i, a) /\ RootOver(s, i + a, b) = RootOver(t, i + a, b)
        <4>1. a \in T /\ b \in T
          BY <1>1, <3>3
        <4> QED
          BY <3>3, <4>1
      <3> QED
        BY <2>2, <2>4, <3>4
    <2> QED
      BY <2>3, <2>4
  <1>2. \A n \in Nat : n \in T
    <2> HIDE DEF T
    <2> QED
      BY <1>1, NatStrong
  <1> QED
    BY <1>2

-----------------------------------------------------------------------------
(* The levels of a tree are those of the reference *)

\* Leaves below node i of level l, of n leaves.
NodeSize(n, l, i) == IF (i + 1) * Pow2[l] < n THEN Pow2[l] ELSE n - i * Pow2[l]

LEMMA MulMono ==
    ASSUME NEW a \in Nat, NEW b \in Nat, NEW p \in Nat, a <= b
    PROVE  a * p <= b * p /\ a * p \in Nat /\ b * p \in Nat
  OBVIOUS

\* The nodes of a level are those that begin before the leaves end.
LEMMA NodeInLevel ==
    ASSUME NEW leaves, IsList(leaves), Len(leaves) > 0, NEW height \in Nat, NEW l \in 0..height,
           NEW i \in Nat
    PROVE  i < Len(Build(leaves, height)[l + 1]) <=> i * Pow2[l] < Len(leaves)
  <1> DEFINE w == Len(Build(leaves, height)[l + 1])
             p == Pow2[l]
             n == Len(leaves)
  <1>1. w > 0 /\ (w - 1) * p < n /\ n <= w * p
    BY BuildSpans
  <1>2. w \in Nat
    <2>1. l + 1 \in 1..(height + 1)
      OBVIOUS
    <2> QED
      BY <2>1, BuildWidths DEF IsList
  <1>3. p \in Nat /\ n \in Nat
    BY Pow2Step DEF IsList
  <1> HIDE DEF w, p, n
  <1>4. w - 1 \in Nat
    BY <1>1, <1>2
  <1>5. CASE i < w
    <2>1. i <= w - 1
      BY <1>2, <1>5
    <2>2. i * p <= (w - 1) * p /\ i * p \in Nat /\ (w - 1) * p \in Nat
      BY <1>3, <1>4, <2>1, MulMono
    <2>3. i * p < n
      BY <1>1, <1>3, <2>2
    <2> QED
      BY <1>5, <2>3 DEF w, p, n
  <1>6. CASE w <= i
    <2>1. w * p <= i * p /\ i * p \in Nat /\ w * p \in Nat
      BY <1>2, <1>3, <1>6, MulMono
    <2>2. ~(i * p < n)
      BY <1>1, <1>3, <2>1
    <2>3. ~(i < w)
      BY <1>2, <1>6
    <2> QED
      BY <2>2, <2>3 DEF w, p, n
  <1> QED
    BY <1>2, <1>5, <1>6

LEMMA NodeSizeBounds ==
    ASSUME NEW n \in Nat, NEW l \in Nat, NEW i \in Nat, i * Pow2[l] < n
    PROVE  /\ NodeSize(n, l, i) \in 1..Pow2[l]
           /\ i * Pow2[l] \in Nat
           /\ i * Pow2[l] + NodeSize(n, l, i) <= n
           /\ (i + 1) * Pow2[l] = i * Pow2[l] + Pow2[l]
  <1> DEFINE p == Pow2[l]
             a == i * p
  <1>1. p \in Nat /\ p > 0
    BY Pow2Step
  <1>2. a \in Nat /\ (i + 1) * p = a + p /\ a < n
    <2> HIDE DEF p
    <2>1. i * p \in Nat /\ (i + 1) * p = i * p + p
      BY <1>1
    <2> QED
      BY <2>1 DEF p
  <1>3. NodeSize(n, l, i) = IF a + p < n THEN p ELSE n - a
    BY <1>2 DEF NodeSize
  <1> HIDE DEF a, p
  <1>4. NodeSize(n, l, i) \in 1..p /\ a + NodeSize(n, l, i) <= n
    BY <1>1, <1>2, <1>3
  <1> QED
    BY <1>2, <1>4 DEF a, p

\* Every node of a tree is the reference root over the leaves below it.
LEMMA BuildNodes ==
    ASSUME NEW leaves, IsList(leaves), Len(leaves) > 0, NEW height \in Nat
    PROVE  LET tree == Build(leaves, height)
           IN \A l \in 0..height : \A i \in 0..(Len(tree[l + 1]) - 1) :
                 tree[l + 1][i + 1] = RootOver(leaves, i * Pow2[l], NodeSize(Len(leaves), l, i))
  <1> DEFINE tree == Build(leaves, height)
             n == Len(leaves)
             W(l) == Len(tree[l + 1])
             Good(l) == \A i \in 0..(W(l) - 1) :
                           tree[l + 1][i + 1] = RootOver(leaves, i * Pow2[l], NodeSize(n, l, i))
             T == {l \in Nat : l <= height => Good(l)}
  <1>1. n \in Nat /\ n > 0
    BY DEF IsList
  <1>a. \A list : LET built == Build(list, height)
                 IN built[1] = list /\ \A l \in 1..height : built[l + 1] = NextLevel(built[l])
    BY BuildLevels
  <1>2. tree[1] = leaves /\ \A l \in 1..height : tree[l + 1] = NextLevel(tree[l])
    BY <1>a
  <1>3. \A l \in 1..(height + 1) : IsList(tree[l])
    BY BuildWidths
  <1>4. \A l \in 0..height : \A i \in Nat : i < W(l) <=> i * Pow2[l] < n
    BY NodeInLevel
  <1> HIDE DEF tree
  <1>5. 0 \in T
    <2> SUFFICES ASSUME NEW i \in 0..(W(0) - 1)
                 PROVE  tree[0 + 1][i + 1] = RootOver(leaves, i * Pow2[0], NodeSize(n, 0, i))
      OBVIOUS
    <2>1. tree[0 + 1] = leaves /\ i \in Nat /\ i \in 0..(n - 1) /\ Pow2[0] = 1
      <3>1. tree[0 + 1] = leaves /\ W(0) = n
        BY <1>2
      <3>2. i \in 0..(n - 1)
        BY <3>1
      <3> HIDE DEF n
      <3> QED
        BY <1>1, <3>1, <3>2, Pow2Step
    <2> HIDE DEF n
    <2>2. i * Pow2[0] = i /\ NodeSize(n, 0, i) = 1
      BY <1>1, <2>1 DEF NodeSize
    <2> QED
      BY <1>1, <2>1, <2>2, RootOverOne DEF n
  <1>6. ASSUME NEW l \in Nat, l \in T
        PROVE  l + 1 \in T
    <2> SUFFICES ASSUME l + 1 <= height, NEW i \in 0..(W(l + 1) - 1)
                 PROVE  tree[(l + 1) + 1][i + 1] = RootOver(leaves, i * Pow2[l + 1], NodeSize(n, l + 1, i))
      OBVIOUS
    <2> DEFINE p == Pow2[l]
               w == W(l)
               v == W(l + 1)
    <2>1. l \in 0..height /\ l + 1 \in 0..height /\ l + 1 \in 1..height /\ l + 1 \in 1..(height + 1)
      OBVIOUS
    <2>2. Good(l)
      BY <1>6
    <2>3. IsList(tree[l + 1]) /\ tree[(l + 1) + 1] = NextLevel(tree[l + 1])
      BY <1>2, <1>3, <2>1
    <2>4. w \in Nat /\ v = (w + 1) \div 2 /\ tree[(l + 1) + 1][i + 1] = ParentHash(tree[l + 1], i)
      <3>1. Len(tree[l + 1]) \in Nat /\ Len(NextLevel(tree[l + 1])) = (Len(tree[l + 1]) + 1) \div 2
        BY <2>3, NextLevelIs DEF IsList
      <3>2. i \in 0..(((Len(tree[l + 1]) + 1) \div 2) - 1)
        BY <2>3, <3>1
      <3>3. NextLevel(tree[l + 1])[i + 1] = ParentHash(tree[l + 1], i)
        BY <2>3, <3>2, NextLevelIs
      <3> QED
        BY <2>3, <3>1, <3>3
    <2>5. Pow2[l + 1] = 2 * p /\ p \in Nat /\ p > 0
      BY Pow2Step
    <2>6. i \in Nat /\ 2 * i \in 0..(w - 1) /\ (2 * i + 1 < w => 2 * i + 1 \in 0..(w - 1))
      <3> HIDE DEF w, v
      <3>1. i \in 0..(((w + 1) \div 2) - 1)
        BY <2>4 DEF v
      <3> QED
        BY <2>4, <3>1
    <2> DEFINE a == (2 * i) * p
    <2>7. a \in Nat /\ i * Pow2[l + 1] = a /\ (2 * i + 1) * p = a + p /\ (i + 1) * Pow2[l + 1] = a + p + p
          /\ ((2 * i + 1) + 1) * p = a + p + p
      <3>1. i \in Nat /\ p \in Nat
        BY <2>5, <2>6
      <3> HIDE DEF p
      <3>2. (2 * i) * p \in Nat /\ i * (2 * p) = (2 * i) * p /\ (2 * i + 1) * p = (2 * i) * p + p
            /\ (i + 1) * (2 * p) = (2 * i) * p + p + p /\ ((2 * i + 1) + 1) * p = (2 * i) * p + p + p
        BY <3>1
      <3> QED
        BY <2>5, <3>2
    <2>8. a < n
      BY <1>4, <2>1, <2>6
    <2>9. (2 * i + 1 < w) <=> (a + p < n)
      <3>1. 2 * i + 1 \in Nat
        BY <2>6
      <3>2. (2 * i + 1 < w) <=> ((2 * i + 1) * p < n)
        BY <1>4, <2>1, <3>1
      <3> QED
        BY <2>7, <3>2
    <2>10. tree[l + 1][2 * i + 1] = RootOver(leaves, a, IF a + p < n THEN p ELSE n - a)
      <3>1. tree[l + 1][2 * i + 1] = RootOver(leaves, (2 * i) * Pow2[l], NodeSize(n, l, 2 * i))
        BY <2>2, <2>6
      <3>2. NodeSize(n, l, 2 * i) = IF a + p < n THEN p ELSE n - a
        BY <2>7 DEF NodeSize
      <3> QED
        BY <3>1, <3>2
    <2>11. NodeSize(n, l + 1, i) = IF a + p + p < n THEN Pow2[l + 1] ELSE n - a
      BY <2>7 DEF NodeSize
    <2>12. CASE 2 * i + 1 < w
      <3> DEFINE m == IF a + p + p < n THEN p ELSE n - (a + p)
      <3>1. tree[l + 1][2 * i + 2] = RootOver(leaves, a + p, m)
        <4>1. 2 * i + 1 \in 0..(w - 1) /\ (2 * i + 1) + 1 = 2 * i + 2
          BY <2>6, <2>12
        <4>2. tree[l + 1][(2 * i + 1) + 1] = RootOver(leaves, (2 * i + 1) * Pow2[l], NodeSize(n, l, 2 * i + 1))
          BY <2>2, <4>1
        <4>3. NodeSize(n, l, 2 * i + 1) = m
          BY <2>7 DEF NodeSize
        <4> QED
          BY <2>7, <4>1, <4>2, <4>3
      <3>2. tree[(l + 1) + 1][i + 1] = HashPair(RootOver(leaves, a, p), RootOver(leaves, a + p, m))
        <4>1. a + p < n
          BY <2>9, <2>12
        <4>2. ParentHash(tree[l + 1], i) = HashPair(tree[l + 1][2 * i + 1], tree[l + 1][2 * i + 2])
          BY <2>12 DEF ParentHash
        <4> QED
          BY <2>4, <2>10, <3>1, <4>1, <4>2
      <3> HIDE DEF a, n
      <3>3. m \in 1..p /\ a + p + m <= n /\ p + m = IF a + p + p < n THEN 2 * p ELSE n - a
        <4> HIDE DEF p
        <4> QED
          BY <1>1, <2>5, <2>7, <2>9, <2>12
      <3>4. RootOver(leaves, a, p + m) = HashPair(RootOver(leaves, a, p), RootOver(leaves, a + p, m))
        <4> HIDE DEF m
        <4> QED
          BY <1>1, <2>7, <3>3, RootOverPair DEF n
      <3>5. NodeSize(n, l + 1, i) = p + m
        BY <2>5, <2>11, <3>3
      <3> QED
        BY <2>7, <3>2, <3>4, <3>5
    <2>13. CASE ~(2 * i + 1 < w)
      <3>1. ~(a + p < n) /\ ~(a + p + p < n)
        <4>1. ~(a + p < n)
          BY <2>9, <2>13
        <4> HIDE DEF a, p, n
        <4> QED
          BY <1>1, <2>5, <2>7, <4>1
      <3>2. ParentHash(tree[l + 1], i) = tree[l + 1][2 * i + 1]
        BY <2>13 DEF ParentHash
      <3> QED
        BY <2>4, <2>7, <2>10, <2>11, <3>1, <3>2
    <2> QED
      BY <2>12, <2>13
  <1>7. \A l \in Nat : l \in T
    <2> HIDE DEF T
    <2> QED
      BY <1>5, <1>6, NatInduct
  <1>8. \A l \in 0..height : Good(l)
    BY <1>7
  <1> QED
    BY <1>8 DEF tree

LEMMA RefHeightIs ==
    ASSUME NEW n \in Nat, n > 0
    PROVE  RefHeight(n) = BitsLen[n - 1] /\ BitsLen[n - 1] \in Nat
  <1> DEFINE b == BitsLen[n - 1]
             Is(h) == Pow2[h] >= n /\ \A g \in 0..(h - 1) : Pow2[g] < n
  <1>1. n - 1 \in Nat
    OBVIOUS
  <1>2. HasBits(n - 1, b)
    BY <1>1, BitsLenHasBits
  <1> HIDE DEF b
  <1>3. b \in Nat /\ n - 1 < Pow2[b] /\ Pow2[b] \in Nat
    BY <1>2, Pow2Step DEF HasBits
  <1>4. \A g \in 0..(b - 1) : Pow2[g] < n
    <2> SUFFICES ASSUME NEW g \in 0..(b - 1)
                 PROVE  Pow2[g] < n
      OBVIOUS
    <2>1. g \in Nat /\ b - 1 \in Nat /\ n - 1 # 0
      BY <1>2, <1>3 DEF HasBits
    <2>2. Pow2[b - 1] <= n - 1 /\ Pow2[g] \in Nat /\ Pow2[b - 1] \in Nat
      BY <1>1, <1>2, <2>1, Pow2Step DEF HasBits
    <2>3. CASE g = b - 1
      BY <2>2, <2>3
    <2>4. CASE g < b - 1
      <3>1. 2 * Pow2[g] <= Pow2[b - 1]
        BY <2>1, <2>4, Pow2Mono
      <3> QED
        BY <2>2, <3>1
    <2> QED
      BY <1>3, <2>1, <2>3, <2>4
  <1>5. b \in 0..n
    <2>1. CASE b = 0
      BY <2>1
    <2>2. CASE b > 0
      <3>1. b - 1 \in Nat /\ b - 1 \in 0..(b - 1)
        BY <1>3, <2>2
      <3>2. Pow2[b - 1] < n /\ b - 1 < Pow2[b - 1] /\ Pow2[b - 1] \in Nat
        BY <1>4, <3>1, Pow2Large, Pow2Step
      <3> QED
        BY <1>3, <3>2
    <2> QED
      BY <1>3, <2>1, <2>2
  <1>6. Is(b)
    BY <1>3, <1>4
  <1>7. ASSUME NEW h \in 0..n, Is(h)
        PROVE  h = b
    <2>1. CASE h < b
      <3>1. h \in 0..(b - 1)
        BY <1>3, <2>1
      <3>2. Pow2[h] \in Nat
        BY <3>1, Pow2Step
      <3> QED
        BY <1>4, <1>7, <3>1, <3>2
    <2>2. CASE b < h
      <3>1. b \in 0..(h - 1)
        BY <1>3, <2>2
      <3> QED
        BY <1>3, <1>7, <3>1
    <2> QED
      BY <1>3, <2>1, <2>2
  <1>8. RefHeight(n) = CHOOSE h \in 0..n : Is(h)
    BY DEF RefHeight
  <1> HIDE DEF Is
  <1>9. RefHeight(n) = b
    BY <1>5, <1>6, <1>7, <1>8
  <1> QED
    BY <1>3, <1>9 DEF b

\* A region or global tree has the nodes of the reference.
LEMMA RegionTreeNodes ==
    ASSUME NEW leaves, IsList(leaves), Len(leaves) > 0
    PROVE  /\ NodesOf(RegionTree(leaves)) = RefNodes(leaves)
           /\ Root(RegionTree(leaves)) = MerkleRoot(leaves)
           /\ RegionTree(leaves)[1] = leaves
           /\ Len(RegionTree(leaves)) = RefHeight(Len(leaves)) + 1
  <1> DEFINE n == Len(leaves)
             H == BitsLen[n - 1]
             tree == Build(leaves, H)
             Keys == {k \in (0..H) \X (0..(n - 1)) : k[2] * Pow2[k[1]] < n}
             Positions == UNION {{l - 1} \X (0..(Len(tree[l]) - 1)) : l \in DOMAIN tree}
  <1>1. n \in Nat /\ n > 0
    BY DEF IsList
  <1>2. H \in Nat /\ RefHeight(n) = H
    <2> HIDE DEF n
    <2> QED
      BY <1>1, RefHeightIs
  <1>3. RegionTree(leaves) = tree
    BY DEF RegionTree
  <1> HIDE DEF H
  <1>4. IsList(tree) /\ Len(tree) = H + 1 /\ DOMAIN tree = 1..(H + 1) /\ tree[1] = leaves
    <2>1. IsList(tree) /\ Len(tree) = H + 1 /\ tree[1] = leaves
      BY <1>2, BuildLevels
    <2> HIDE DEF tree
    <2> QED
      BY <2>1 DEF IsList
  <1>5. \A l \in 0..H : \A i \in Nat : i < Len(tree[l + 1]) <=> i * Pow2[l] < n
    BY <1>2, NodeInLevel
  <1>6. \A l \in 0..H : Len(tree[l + 1]) \in Nat
    <2>1. \A l \in 0..H : l + 1 \in 1..(H + 1)
      BY <1>2
    <2> QED
      BY <1>2, <2>1, BuildWidths DEF IsList
  <1>7. \A l \in 0..H : \A i \in 0..(Len(tree[l + 1]) - 1) :
           tree[l + 1][i + 1] = RootOver(leaves, i * Pow2[l], NodeSize(n, l, i))
    BY <1>2, BuildNodes
  <1>8. Len(tree[H + 1]) = 1
    <2>1. H \in 0..H /\ H <= H
      BY <1>2
    <2> QED
      BY <1>2, <2>1, TopIsSingle DEF H
  <1> HIDE DEF tree, n
  <1>9. \A l \in 0..H : \A i \in Nat : i * Pow2[l] < n => i \in 0..(n - 1)
    <2> SUFFICES ASSUME NEW l \in 0..H, NEW i \in Nat, i * Pow2[l] < n
                 PROVE  i < n
      BY <1>1
    <2> DEFINE p == Pow2[l]
    <2>1. p \in Nat /\ p > 0
      BY <1>2, Pow2Step
    <2> HIDE DEF p
    <2>2. i <= i * p /\ i * p \in Nat /\ i * p < n
      BY <2>1 DEF p
    <2> QED
      BY <1>1, <2>2
  <1>10. Positions = Keys
    <2>1. ASSUME NEW k \in Positions
          PROVE  k \in Keys
      <3>1. PICK l \in 1..(H + 1) : k \in {l - 1} \X (0..(Len(tree[l]) - 1))
        BY <1>4
      <3>2. l - 1 \in 0..H /\ (l - 1) + 1 = l
        BY <1>2, <3>1
      <3>3. k = <<l - 1, k[2]>> /\ k[1] = l - 1 /\ k[2] \in 0..(Len(tree[(l - 1) + 1]) - 1)
        BY <3>1, <3>2
      <3>4. k[2] \in Nat /\ k[2] < Len(tree[(l - 1) + 1])
        BY <1>6, <3>2, <3>3
      <3>5. k[2] * Pow2[l - 1] < n
        BY <1>5, <3>2, <3>4
      <3>6. k[2] \in 0..(n - 1)
        BY <1>9, <3>2, <3>4, <3>5
      <3> QED
        BY <3>2, <3>3, <3>5, <3>6
    <2>2. ASSUME NEW k \in Keys
          PROVE  k \in Positions
      <3>1. k[1] \in 0..H /\ k[2] \in Nat /\ k = <<k[1], k[2]>> /\ k[2] * Pow2[k[1]] < n
        BY <1>1
      <3>2. k[2] \in 0..(Len(tree[k[1] + 1]) - 1)
        <4>1. k[2] < Len(tree[k[1] + 1]) /\ Len(tree[k[1] + 1]) \in Nat
          BY <1>5, <1>6, <3>1
        <4> QED
          BY <3>1, <4>1
      <3>3. k[1] + 1 \in DOMAIN tree /\ (k[1] + 1) - 1 = k[1]
        BY <1>2, <1>4, <3>1
      <3>4. k \in {(k[1] + 1) - 1} \X (0..(Len(tree[k[1] + 1]) - 1))
        BY <3>1, <3>2, <3>3
      <3> QED
        BY <3>3, <3>4
    <2> QED
      BY <2>1, <2>2
  <1>11. ASSUME NEW k \in Keys
         PROVE  tree[k[1] + 1][k[2] + 1] = RootOver(leaves, k[2] * Pow2[k[1]], NodeSize(n, k[1], k[2]))
    <2>1. k[1] \in 0..H /\ k[2] \in Nat /\ k[2] * Pow2[k[1]] < n
      BY <1>1
    <2>2. k[2] \in 0..(Len(tree[k[1] + 1]) - 1)
      <3>1. k[2] < Len(tree[k[1] + 1]) /\ Len(tree[k[1] + 1]) \in Nat
        BY <1>5, <1>6, <2>1
      <3> QED
        BY <2>1, <3>1
    <2> QED
      BY <1>7, <2>1, <2>2
  <1>12. NodesOf(tree) = [k \in Positions |-> tree[k[1] + 1][k[2] + 1]]
    BY DEF NodesOf
  <1>13. RefNodes(leaves) = [k \in Keys |-> RootOver(leaves, k[2] * Pow2[k[1]], NodeSize(n, k[1], k[2]))]
    BY <1>2 DEF RefNodes, NodeSize, n
  <1>14. NodesOf(tree) = RefNodes(leaves)
    <2> HIDE DEF Positions, Keys
    <2> QED
      BY <1>10, <1>11, <1>12, <1>13
  <1>15. Root(tree) = MerkleRoot(leaves)
    <2>1. Root(tree) = tree[H + 1][0 + 1]
      BY <1>4 DEF Root, Last
    <2>2. tree[H + 1][0 + 1] = RootOver(leaves, 0 * Pow2[H], NodeSize(n, H, 0))
      <3>1. H \in 0..H /\ 0 \in 0..(Len(tree[H + 1]) - 1)
        BY <1>2, <1>8
      <3> QED
        BY <1>7, <3>1
    <2>3. Pow2[H] \in Nat /\ n <= Pow2[H]
      <3>1. n - 1 \in Nat
        BY <1>1
      <3>2. n - 1 < Pow2[H] /\ Pow2[H] \in Nat
        BY <1>2, <3>1, BitsLenHasBits, Pow2Step DEF HasBits, H
      <3> QED
        BY <1>1, <3>2
    <2>4. 0 * Pow2[H] = 0 /\ NodeSize(n, H, 0) = n
      <3> DEFINE p == Pow2[H]
      <3>1. p \in Nat /\ n <= p
        BY <2>3
      <3>2. NodeSize(n, H, 0) = IF (0 + 1) * p < n THEN p ELSE n - 0 * p
        BY DEF NodeSize
      <3> HIDE DEF p
      <3>3. 0 * p = 0 /\ NodeSize(n, H, 0) = n
        BY <1>1, <3>1, <3>2
      <3> QED
        BY <3>3 DEF p
    <2> QED
      BY <2>1, <2>2, <2>4 DEF MerkleRoot, n
  <1> QED
    BY <1>2, <1>3, <1>4, <1>14, <1>15 DEF n

\* Levels do not depend on how many follow.
LEMMA BuildPrefix ==
    ASSUME NEW leaves, NEW low \in Nat, NEW high \in Nat, low <= high
    PROVE  \A l \in 1..(low + 1) : Build(leaves, low)[l] = Build(leaves, high)[l]
  <1> DEFINE A == Build(leaves, low)
             B == Build(leaves, high)
             T == {n \in Nat : n <= low => A[n + 1] = B[n + 1]}
  <1>1. A[1] = leaves /\ \A l \in 1..low : A[l + 1] = NextLevel(A[l])
    BY BuildLevels
  <1>2. B[1] = leaves /\ \A l \in 1..high : B[l + 1] = NextLevel(B[l])
    BY BuildLevels
  <1> HIDE DEF A, B
  <1>3. 0 \in T
    BY <1>1, <1>2
  <1>4. ASSUME NEW n \in Nat, n \in T
        PROVE  n + 1 \in T
    <2> SUFFICES ASSUME n + 1 <= low
                 PROVE  A[(n + 1) + 1] = B[(n + 1) + 1]
      OBVIOUS
    <2>1. n + 1 \in 1..low /\ n + 1 \in 1..high /\ A[n + 1] = B[n + 1]
      BY <1>4
    <2> QED
      BY <1>1, <1>2, <2>1
  <1>5. \A n \in Nat : n \in T
    <2> HIDE DEF T
    <2> QED
      BY <1>3, <1>4, NatInduct
  <1>6. ASSUME NEW l \in 1..(low + 1)
        PROVE  A[l] = B[l]
    <2>1. l - 1 \in Nat /\ l - 1 <= low /\ (l - 1) + 1 = l
      OBVIOUS
    <2>2. l - 1 \in T
      BY <1>5, <2>1
    <2> QED
      BY <2>1, <2>2
  <1> QED
    BY <1>6 DEF A, B

LEMMA SubSeqIs ==
    ASSUME NEW s, IsList(s), NEW n \in 0..Len(s)
    PROVE  /\ IsList(SubSeq(s, 1, n)) /\ Len(SubSeq(s, 1, n)) = n
           /\ \A i \in 1..n : SubSeq(s, 1, n)[i] = s[i]
  <1> DEFINE S == {s[i] : i \in 1..n}
             t == SubSeq(s, 1, n)
  <1>1. n \in Nat
    BY DEF IsList
  <1>2. t \in Seq(S) /\ Len(t) = (IF 1 <= n THEN n - 1 + 1 ELSE 0) /\ \A i \in 1..(n - 1 + 1) : t[i] = s[1 + i - 1]
    <2>1. \A i \in 1..n : s[i] \in S
      OBVIOUS
    <2> HIDE DEF S
    <2> QED
      BY <1>1, <2>1, SubSeqProperties
  <1> HIDE DEF t, S
  <1>3. Len(t) = n /\ \A i \in 1..n : t[i] = s[i]
    <2>1. Len(t) = n /\ n - 1 + 1 = n
      BY <1>1, <1>2
    <2>2. \A i \in 1..n : 1 + i - 1 = i
      OBVIOUS
    <2> QED
      BY <1>2, <2>1, <2>2
  <1>4. IsList(t)
    BY <1>1, <1>2, <1>3, LenProperties DEF IsList
  <1> QED
    BY <1>3, <1>4 DEF t

\* A sealed segment has the tree that a region tree over its leaves would have.
LEMMA SealedTreeIs ==
    ASSUME NEW leaves, IsList(leaves), Len(leaves) > 0
    PROVE  SealedTree(leaves) = RegionTree(leaves)
  <1> DEFINE n == Len(leaves)
             top == BitsLen[n - 1]
             level == Build(leaves, n)
             tree == Build(leaves, top)
             S == {h \in DOMAIN level : Len(level[h]) = 1}
  <1>1. n \in Nat /\ n > 0 /\ n - 1 \in Nat
    BY DEF IsList
  <1>2. top \in Nat /\ top <= n
    <2> HIDE DEF n
    <2>1. HasBits(n - 1, top)
      BY <1>1, BitsLenHasBits
    <2> HIDE DEF top
    <2>2. top \in Nat
      BY <2>1 DEF HasBits
    <2>3. CASE top = 0
      BY <1>1, <2>3
    <2>4. CASE top > 0
      <3>1. top - 1 \in Nat /\ n - 1 # 0
        BY <2>1, <2>2, <2>4 DEF HasBits
      <3>2. Pow2[top - 1] <= n - 1
        BY <1>1, <2>1, <3>1 DEF HasBits
      <3>3. top - 1 < Pow2[top - 1] /\ Pow2[top - 1] \in Nat
        BY <3>1, Pow2Large, Pow2Step
      <3> QED
        BY <1>1, <2>2, <3>2, <3>3
    <2> QED
      BY <2>2, <2>3, <2>4
  <1>3. IsList(level) /\ Len(level) = n + 1 /\ DOMAIN level = 1..(n + 1)
    <2>1. IsList(level) /\ Len(level) = n + 1
      BY <1>1, BuildLevels
    <2> HIDE DEF level
    <2> QED
      BY <2>1 DEF IsList
  <1>4. \A l \in 0..top : Len(level[l + 1]) = 1 <=> l = top
    BY <1>1, <1>2, TopIsSingle
  <1>5. IsList(tree) /\ Len(tree) = top + 1
    BY <1>2, BuildLevels
  <1>6. \A l \in 1..(top + 1) : tree[l] = level[l]
    BY <1>1, <1>2, BuildPrefix
  <1> HIDE DEF n, top, level, tree
  <1>7. Min(S) = top + 1
    <2>1. top + 1 \in S
      BY <1>2, <1>1, <1>3, <1>4
    <2>2. ASSUME NEW h \in S
          PROVE  top + 1 <= h
      <3> SUFFICES ASSUME h < top + 1
                   PROVE  FALSE
        BY <1>1, <1>2, <1>3
      <3>1. h \in 1..(n + 1) /\ Len(level[h]) = 1
        BY <1>3
      <3>2. h - 1 \in 0..top /\ h - 1 # top /\ (h - 1) + 1 = h
        BY <1>1, <1>2, <3>1
      <3> QED
        BY <1>4, <3>1, <3>2
    <2>3. \A h \in S : h \in Nat
      BY <1>1, <1>3
    <2> HIDE DEF S
    <2>4. Min(S) \in S /\ \A h \in S : Min(S) <= h
      <3>1. \E x \in S : \A y \in S : x <= y
        BY <2>1, <2>2
      <3> QED
        BY <3>1 DEF Min
    <2> QED
      BY <1>2, <2>1, <2>2, <2>3, <2>4
  <1>8. SubSeq(level, 1, top + 1) = tree
    <2>1. top + 1 \in 0..Len(level)
      BY <1>1, <1>2, <1>3
    <2>2. /\ IsList(SubSeq(level, 1, top + 1)) /\ Len(SubSeq(level, 1, top + 1)) = top + 1
          /\ \A i \in 1..(top + 1) : SubSeq(level, 1, top + 1)[i] = level[i]
      BY <1>3, <2>1, SubSeqIs
    <2> QED
      BY <1>5, <1>6, <2>2, ListEqual
  <1>9. SealedTree(leaves) = SubSeq(level, 1, Min(S))
    BY DEF SealedTree, BuildInternalNode, level, n
  <1> QED
    BY <1>7, <1>8, <1>9 DEF RegionTree, tree, top, n

-----------------------------------------------------------------------------
(* Path recomputation *)

\* The ancestor of leaf index l levels up.
Ancestor(index, l) == index \div Pow2[l]

LEMMA DivIs ==
    ASSUME NEW x \in Nat, NEW p \in Nat, p > 0
    PROVE  x \div p \in Nat /\ (x \div p) * p <= x /\ x < (x \div p) * p + p
  OBVIOUS

LEMMA DivUnique ==
    ASSUME NEW x \in Nat, NEW p \in Nat, p > 0, NEW q \in Nat, q * p <= x, x < q * p + p
    PROVE  x \div p = q
  <1> DEFINE d == x \div p
  <1>1. d \in Nat /\ d * p <= x /\ x < d * p + p
    BY DivIs
  <1> HIDE DEF d
  <1>2. CASE d < q
    <2>1. (d + 1) * p <= q * p /\ (d + 1) * p = d * p + p /\ d * p \in Nat /\ q * p \in Nat
      <3>1. d + 1 <= q
        BY <1>1, <1>2
      <3> QED
        BY <1>1, <3>1, MulMono
    <2> QED
      BY <1>1, <2>1
  <1>3. CASE q < d
    <2>1. (q + 1) * p <= d * p /\ (q + 1) * p = q * p + p /\ d * p \in Nat /\ q * p \in Nat
      <3>1. q + 1 <= d
        BY <1>1, <1>3
      <3> QED
        BY <1>1, <3>1, MulMono
    <2> QED
      BY <1>1, <2>1
  <1> QED
    BY <1>1, <1>2, <1>3 DEF d

LEMMA AncestorUp ==
    ASSUME NEW index \in Nat
    PROVE  /\ Ancestor(index, 0) = index
           /\ \A l \in Nat : /\ Ancestor(index, l) \in Nat
                             /\ Ancestor(index, l + 1) = Ancestor(index, l) \div 2
  <1>1. Ancestor(index, 0) = index
    BY Pow2Step DEF Ancestor
  <1>2. ASSUME NEW l \in Nat
        PROVE  Ancestor(index, l) \in Nat /\ Ancestor(index, l + 1) = Ancestor(index, l) \div 2
    <2> DEFINE p == Pow2[l]
               q == index \div p
               h == q \div 2
    <2>1. p \in Nat /\ p > 0 /\ Pow2[l + 1] = 2 * p
      BY Pow2Step
    <2> HIDE DEF p
    <2>2. q \in Nat /\ q * p <= index /\ index < q * p + p
      BY <2>1, DivIs
    <2> HIDE DEF q
    <2>3. h \in Nat /\ 2 * h <= q /\ q <= 2 * h + 1
      BY <2>2
    <2> HIDE DEF h
    <2>4. (2 * h) * p <= q * p /\ q * p <= (2 * h + 1) * p /\ q * p \in Nat
      <3>1. 2 * h \in Nat /\ 2 * h + 1 \in Nat
        BY <2>3
      <3> QED
        BY <2>1, <2>2, <2>3, <3>1, MulMono
    <2>5. (2 * h) * p = h * (2 * p) /\ (2 * h + 1) * p = h * (2 * p) + p /\ h * (2 * p) \in Nat
      BY <2>1, <2>3
    <2>6. h * (2 * p) <= index /\ index < h * (2 * p) + 2 * p
      BY <2>1, <2>2, <2>4, <2>5
    <2>7. index \div (2 * p) = h
      <3>1. 2 * p \in Nat /\ 2 * p > 0
        BY <2>1
      <3> QED
        BY <2>3, <2>6, <3>1, DivUnique
    <2> QED
      BY <2>1, <2>2, <2>7 DEF Ancestor, p, q, h
  <1> QED
    BY <1>1, <1>2

LEMMA ListExcept ==
    ASSUME NEW s, IsList(s), NEW i \in 1..Len(s), NEW e
    PROVE  /\ IsList([s EXCEPT ![i] = e]) /\ Len([s EXCEPT ![i] = e]) = Len(s)
           /\ [s EXCEPT ![i] = e][i] = e
           /\ \A j \in 1..Len(s) : j # i => [s EXCEPT ![i] = e][j] = s[j]
  <1> DEFINE n == Len(s)
             t == [s EXCEPT ![i] = e]
  <1>1. n \in Nat /\ s = [j \in 1..n |-> s[j]]
    BY DEF IsList
  <1> HIDE DEF n
  <1>2. t = [j \in 1..n |-> IF j = i THEN e ELSE s[j]]
    BY <1>1
  <1>3. i \in 1..n
    BY DEF n
  <1> HIDE DEF t
  <1>4. t = [j \in 1..n |-> t[j]] /\ t[i] = e /\ \A j \in 1..n : j # i => t[j] = s[j]
    BY <1>2, <1>3
  <1>5. IsList(t) /\ Len(t) = n
    BY <1>1, <1>4, ListIs
  <1> QED
    BY <1>4, <1>5 DEF n, t

LEMMA RecomputePathDef ==
    ASSUME NEW levels, NEW top \in Nat, Len(levels) = top + 1, NEW index, NEW nodes
    PROVE  \E path : /\ RecomputePath(levels, index, nodes) = path[top]
                     /\ path[0] = [index |-> index, levels |-> levels, nodes |-> nodes]
                     /\ \A l \in 1..top : path[l] = PathUp(path[l - 1], l)
  <1> DEFINE start == [index |-> index, levels |-> levels, nodes |-> nodes]
             Is(f, n) == f = [l \in 0..n |-> IF l = 0 THEN start ELSE PathUp(f[l - 1], l)]
             T == {n \in Nat : \E f : Is(f, n)}
  <1> HIDE DEF start
  <1>1. 0 \in T
    <2> DEFINE g == [l \in 0..0 |-> start]
    <2>1. Is(g, 0)
      OBVIOUS
    <2> HIDE DEF Is, g
    <2> QED
      BY <2>1
  <1>2. ASSUME NEW n \in Nat, n \in T
        PROVE  n + 1 \in T
    <2>1. PICK f : Is(f, n)
      BY <1>2
    <2> DEFINE g == [l \in 0..(n + 1) |-> IF l = n + 1 THEN PathUp(f[n], n + 1) ELSE f[l]]
    <2>2. ASSUME NEW l \in 0..(n + 1)
          PROVE  g[l] = IF l = 0 THEN start ELSE PathUp(g[l - 1], l)
      <3>1. CASE l = n + 1
        BY <3>1
      <3>2. CASE l # n + 1
        <4>1. l \in 0..n /\ (l # 0 => l - 1 \in 0..(n + 1) /\ l - 1 # n + 1)
          BY <3>2
        <4>2. f[l] = IF l = 0 THEN start ELSE PathUp(f[l - 1], l)
          BY <2>1, <4>1
        <4>3. g[l] = f[l] /\ (l # 0 => g[l - 1] = f[l - 1])
          BY <3>2, <4>1
        <4> HIDE DEF g
        <4> QED
          BY <4>2, <4>3
      <3> QED
        BY <3>1, <3>2
    <2>3. Is(g, n + 1)
      BY <2>2
    <2> HIDE DEF g, Is
    <2> QED
      BY <2>3
  <1>3. \E f : Is(f, top)
    <2> HIDE DEF T
    <2>1. top \in T
      BY <1>1, <1>2, NatInduct
    <2> QED
      BY <2>1 DEF T
  <1> DEFINE path == CHOOSE f : Is(f, top)
  <1>4. Is(path, top)
    BY <1>3
  <1>5. RecomputePath(levels, index, nodes) = path[top]
    <2>1. Len(levels) - 1 = top
      OBVIOUS
    <2> QED
      BY <2>1 DEF RecomputePath, start
  <1> HIDE DEF path
  <1>6. path[0] = start /\ \A l \in 1..top : path[l] = PathUp(path[l - 1], l)
    BY <1>4
  <1> QED
    BY <1>5, <1>6 DEF start

\* Two trees that differ in the ancestors of leaf index only, if at all.
SameBesides(old, new, index, height) ==
    \A l \in 0..height :
        /\ Len(new[l + 1]) = Len(old[l + 1])
        /\ Ancestor(index, l) \in 0..(Len(old[l + 1]) - 1)
        /\ \A i \in 0..(Len(old[l + 1]) - 1) :
              i # Ancestor(index, l) => new[l + 1][i + 1] = old[l + 1][i + 1]

\* With another leaf, a tree differs in the ancestors of the leaf only.
LEMMA BuildOtherLeaf ==
    ASSUME NEW leaves, IsList(leaves), NEW height \in Nat, NEW index \in 0..(Len(leaves) - 1),
           NEW other, IsList(other), Len(other) = Len(leaves),
           \A j \in 1..Len(leaves) : j # index + 1 => other[j] = leaves[j]
    PROVE  SameBesides(Build(leaves, height), Build(other, height), index, height)
  <1> DEFINE old == Build(leaves, height)
             new == Build(other, height)
             Same(l) == /\ Len(new[l + 1]) = Len(old[l + 1])
                        /\ Ancestor(index, l) \in 0..(Len(old[l + 1]) - 1)
                        /\ \A i \in 0..(Len(old[l + 1]) - 1) :
                              i # Ancestor(index, l) => new[l + 1][i + 1] = old[l + 1][i + 1]
             T == {l \in Nat : l <= height => Same(l)}
  <1>0. Len(leaves) \in Nat /\ index \in Nat /\ index + 1 \in 1..Len(leaves)
    BY DEF IsList
  <1>1. /\ IsList(other) /\ Len(other) = Len(leaves)
        /\ \A j \in 1..Len(leaves) : j # index + 1 => other[j] = leaves[j]
    OBVIOUS
  <1>a. \A list : LET built == Build(list, height)
                 IN built[1] = list /\ \A l \in 1..height : built[l + 1] = NextLevel(built[l])
    BY BuildLevels
  <1>2. old[1] = leaves /\ \A l \in 1..height : old[l + 1] = NextLevel(old[l])
    BY <1>a
  <1>3. new[1] = other /\ \A l \in 1..height : new[l + 1] = NextLevel(new[l])
    BY <1>a
  <1>4. \A l \in 1..(height + 1) : IsList(old[l]) /\ IsList(new[l])
    BY <1>1, BuildWidths
  <1> HIDE DEF old, new
  <1>5. 0 \in T
    <2>1. old[0 + 1] = leaves /\ new[0 + 1] = other /\ Ancestor(index, 0) = index
      BY <1>0, <1>2, <1>3, AncestorUp
    <2>2. \A i \in 0..(Len(leaves) - 1) : i # index => other[i + 1] = leaves[i + 1]
      <3> SUFFICES ASSUME NEW i \in 0..(Len(leaves) - 1), i # index
                   PROVE  other[i + 1] = leaves[i + 1]
        OBVIOUS
      <3>1. i + 1 \in 1..Len(leaves) /\ i + 1 # index + 1
        BY <1>0
      <3> QED
        BY <1>1, <3>1
    <2> QED
      BY <1>1, <2>1, <2>2
  <1>6. ASSUME NEW l \in Nat, l \in T
        PROVE  l + 1 \in T
    <2> SUFFICES ASSUME l + 1 <= height
                 PROVE  Same(l + 1)
      OBVIOUS
    <2> DEFINE a == Ancestor(index, l)
               w == Len(old[l + 1])
               v == (w + 1) \div 2
    <2>1. l + 1 \in 1..height /\ l + 1 \in 1..(height + 1)
      OBVIOUS
    <2>2. Same(l)
      BY <1>6
    <2>3. IsList(old[l + 1]) /\ IsList(new[l + 1]) /\ w \in Nat
      BY <1>4, <2>1 DEF IsList
    <2>4. old[(l + 1) + 1] = NextLevel(old[l + 1]) /\ new[(l + 1) + 1] = NextLevel(new[l + 1])
      BY <1>2, <1>3, <2>1
    <2>5. /\ Len(old[(l + 1) + 1]) = v /\ Len(new[(l + 1) + 1]) = v
          /\ \A i \in 0..(v - 1) : /\ old[(l + 1) + 1][i + 1] = ParentHash(old[l + 1], i)
                                   /\ new[(l + 1) + 1][i + 1] = ParentHash(new[l + 1], i)
      <3>1. Len(new[l + 1]) = w
        BY <2>2
      <3> QED
        BY <2>3, <2>4, <3>1, NextLevelIs
    <2>6. Ancestor(index, l + 1) = a \div 2 /\ a \in Nat /\ a \in 0..(w - 1)
      BY <1>0, <2>2, AncestorUp
    <2>7. a \div 2 \in 0..(v - 1)
      <3> HIDE DEF a, w
      <3> QED
        BY <2>3, <2>6
    <2>8. ASSUME NEW i \in 0..(v - 1), i # a \div 2
          PROVE  ParentHash(old[l + 1], i) = ParentHash(new[l + 1], i)
      <3>1. i \in Nat /\ 2 * i \in 0..(w - 1) /\ 2 * i # a /\ 2 * i + 1 # a
        <4> HIDE DEF a, w
        <4> QED
          BY <2>3, <2>6, <2>8
      <3>2. new[l + 1][2 * i + 1] = old[l + 1][2 * i + 1]
        BY <2>2, <3>1
      <3>3. 2 * i + 1 < w => new[l + 1][2 * i + 2] = old[l + 1][2 * i + 2]
        <4> SUFFICES ASSUME 2 * i + 1 < w
                     PROVE  new[l + 1][2 * i + 2] = old[l + 1][2 * i + 2]
          OBVIOUS
        <4>1. 2 * i + 1 \in 0..(w - 1) /\ (2 * i + 1) + 1 = 2 * i + 2
          BY <2>3, <3>1
        <4>2. new[l + 1][(2 * i + 1) + 1] = old[l + 1][(2 * i + 1) + 1]
          BY <2>2, <3>1, <4>1
        <4> QED
          BY <4>1, <4>2
      <3>4. Len(new[l + 1]) = w
        BY <2>2
      <3> QED
        BY <3>2, <3>3, <3>4 DEF ParentHash
    <2> HIDE DEF a, v, w
    <2> QED
      BY <2>5, <2>6, <2>7, <2>8
  <1>7. \A l \in Nat : l \in T
    <2> HIDE DEF T
    <2> QED
      BY <1>5, <1>6, NatInduct
  <1>8. \A l \in 0..height : Same(l)
    <2> HIDE DEF Same
    <2> QED
      BY <1>7
  <1> QED
    BY <1>8 DEF SameBesides, old, new

\* The other child of the parent of node i.
Sib(i) == IF i % 2 = 0 THEN i + 1 ELSE i - 1

\* The nodes that an update of leaf index carries: nodes of the tree, among them the
\* ancestors of the leaf and their siblings.
CarriesPath(nodes, tree, index, height) ==
    /\ \A n \in nodes : \E k \in 0..height, i \in Nat :
          i < Len(tree[k + 1]) /\ n = <<k, i, tree[k + 1][i + 1]>>
    /\ \A k \in 0..height :
          <<k, Ancestor(index, k), tree[k + 1][Ancestor(index, k) + 1]>> \in nodes
    /\ \A k \in 0..(height - 1) : Sib(Ancestor(index, k)) < Len(tree[k + 1]) =>
          <<k, Sib(Ancestor(index, k)), tree[k + 1][Sib(Ancestor(index, k)) + 1]>> \in nodes

\* updateShardRoot gives the tree over the changed leaves, built from nothing.
LEMMA UpdateShardRootIs ==
    ASSUME NEW leaves, IsList(leaves), NEW height \in Nat, NEW index \in 0..(Len(leaves) - 1), NEW hash
    PROVE  LET new == Build([leaves EXCEPT ![index + 1] = hash], height)
               result == UpdateShardRoot(Build(leaves, height), index, hash)
           IN result.levels = new /\ CarriesPath(result.nodes, new, index, height)
  <1> DEFINE other == [leaves EXCEPT ![index + 1] = hash]
             old == Build(leaves, height)
             new == Build(other, height)
             start == [old EXCEPT ![1][index + 1] = hash]
             nodes == {<<0, index, hash>>}
  <1>0. Len(leaves) \in Nat /\ index \in Nat /\ index + 1 \in 1..Len(leaves)
    BY DEF IsList
  <1>1. IsList(other) /\ Len(other) = Len(leaves) /\ other[index + 1] = hash
        /\ \A j \in 1..Len(leaves) : j # index + 1 => other[j] = leaves[j]
    BY <1>0, ListExcept
  <1>2. \A l \in 0..height :
           /\ Len(new[l + 1]) = Len(old[l + 1])
           /\ Ancestor(index, l) \in 0..(Len(old[l + 1]) - 1)
           /\ \A i \in 0..(Len(old[l + 1]) - 1) :
                 i # Ancestor(index, l) => new[l + 1][i + 1] = old[l + 1][i + 1]
    <2>1. SameBesides(old, new, index, height)
      <3> HIDE DEF other
      <3> QED
        BY <1>1, BuildOtherLeaf
    <2> HIDE DEF old, new
    <2> QED
      BY <2>1 DEF SameBesides
  <1>3. IsList(old) /\ Len(old) = height + 1 /\ old[1] = leaves
    BY BuildLevels
  <1>4. IsList(new) /\ Len(new) = height + 1 /\ new[1] = other
        /\ \A l \in 1..height : new[l + 1] = NextLevel(new[l])
    BY BuildLevels
  <1>5. \A l \in 1..(height + 1) : IsList(new[l]) /\ IsList(old[l])
    BY <1>1, BuildWidths
  <1>6. IsList(start) /\ Len(start) = height + 1 /\ start[1] = new[1]
        /\ \A h \in 2..(height + 1) : start[h] = old[h]
    <2>1. start = [old EXCEPT ![1] = other]
      BY <1>3
    <2>2. 1 \in 1..Len(old)
      BY <1>3
    <2> HIDE DEF old, other, start
    <2>3. start = [h \in 1..(height + 1) |-> IF h = 1 THEN other ELSE old[h]]
      <3>1. old = [h \in 1..(height + 1) |-> old[h]]
        BY <1>3 DEF IsList
      <3> QED
        BY <2>1, <3>1
    <2>4. \A h \in 2..(height + 1) : h \in 1..(height + 1) /\ h # 1
      OBVIOUS
    <2>5. IsList(start) /\ Len(start) = Len(old) /\ start[1] = other
          /\ \A h \in 1..Len(old) : h # 1 => start[h] = old[h]
      <3>1. start = [h \in 1..(height + 1) |-> start[h]] /\ start[1] = other
        BY <2>3
      <3>2. IsList(start) /\ Len(start) = height + 1
        BY <3>1, ListIs
      <3> QED
        BY <1>3, <2>3, <3>1, <3>2
    <2> QED
      BY <1>3, <1>4, <2>4, <2>5
  <1>7. UpdateShardRoot(old, index, hash) = RecomputePath(start, index, nodes)
    BY DEF UpdateShardRoot
  <1> HIDE DEF other, old, new, start, nodes
  <1>8. PICK path : /\ RecomputePath(start, index, nodes) = path[height]
                    /\ path[0] = [index |-> index, levels |-> start, nodes |-> nodes]
                    /\ \A l \in 1..height : path[l] = PathUp(path[l - 1], l)
    BY <1>6, RecomputePathDef
  <1> DEFINE A(k) == Ancestor(index, k)
             Levels(l) == /\ path[l].index = A(l)
                          /\ IsList(path[l].levels) /\ Len(path[l].levels) = height + 1
                          /\ \A h \in 1..(height + 1) :
                                path[l].levels[h] = IF h <= l + 1 THEN new[h] ELSE old[h]
             Sound(l) == \A n \in path[l].nodes : \E k \in 0..height, i \in Nat :
                            i < Len(new[k + 1]) /\ n = <<k, i, new[k + 1][i + 1]>>
             Complete(l) == /\ \A k \in 0..l : <<k, A(k), new[k + 1][A(k) + 1]>> \in path[l].nodes
                            /\ \A k \in 0..(l - 1) : Sib(A(k)) < Len(new[k + 1]) =>
                                  <<k, Sib(A(k)), new[k + 1][Sib(A(k)) + 1]>> \in path[l].nodes
             T == {l \in Nat : l <= height => Levels(l) /\ Sound(l) /\ Complete(l)}
  <1>9. \A k \in 0..height : A(k) \in Nat /\ A(k) < Len(new[k + 1]) /\ Len(new[k + 1]) \in Nat
    <2> SUFFICES ASSUME NEW k \in 0..height
                 PROVE  A(k) \in Nat /\ A(k) < Len(new[k + 1]) /\ Len(new[k + 1]) \in Nat
      OBVIOUS
    <2>1. k + 1 \in 1..(height + 1)
      OBVIOUS
    <2>2. Len(new[k + 1]) \in Nat /\ A(k) \in 0..(Len(new[k + 1]) - 1)
      BY <1>2, <1>5, <2>1 DEF IsList
    <2> QED
      BY <2>2
  <1>10. 0 \in T
    <2>1. A(0) = index
      BY <1>0, AncestorUp
    <2>2. path[0].index = index /\ path[0].levels = start /\ path[0].nodes = {<<0, index, hash>>}
      BY <1>8 DEF nodes
    <2>3. new[0 + 1][index + 1] = hash /\ 0 \in 0..height
      BY <1>1, <1>4
    <2>4. Levels(0)
      <3>1. \A h \in 1..(height + 1) : start[h] = IF h <= 0 + 1 THEN new[h] ELSE old[h]
        BY <1>6
      <3> QED
        BY <1>6, <2>1, <2>2, <3>1
    <2>5. Sound(0)
      BY <1>0, <1>9, <2>1, <2>2, <2>3
    <2>6. Complete(0)
      BY <2>1, <2>2, <2>3
    <2> QED
      BY <2>4, <2>5, <2>6
  <1>11. ASSUME NEW l \in Nat, l \in T
         PROVE  l + 1 \in T
    <2>0. (l + 1 <= height => Levels(l + 1) /\ Sound(l + 1) /\ Complete(l + 1)) => l + 1 \in T
      <3> HIDE DEF Levels, Sound, Complete
      <3> QED
        OBVIOUS
    <2> SUFFICES ASSUME l + 1 <= height
                 PROVE  Levels(l + 1) /\ Sound(l + 1) /\ Complete(l + 1)
      <3> HIDE DEF Levels, Sound, Complete, T
      <3> QED
        BY <2>0
    <2> DEFINE p == path[l]
               q == path[l + 1]
               a == A(l)
               b == A(l + 1)
               W == Len(new[l + 1])
               upper == [p.levels EXCEPT ![(l + 1) + 1][b + 1] = new[(l + 1) + 1][b + 1]]
               sibs == {s \in {Sib(a)} : s < W}
    <2>1. Levels(l) /\ Sound(l) /\ Complete(l)
      BY <1>11
    <2>2. l \in 0..height /\ l + 1 \in 0..height /\ l + 1 \in 1..height /\ l + 1 \in 1..(height + 1)
          /\ (l + 1) - 1 = l /\ (l + 1) + 1 \in 1..(height + 1)
      OBVIOUS
    <2>3. q = PathUp(p, l + 1)
      BY <1>8, <2>2
    <2>4. p.index = a /\ b = a \div 2 /\ a \in Nat /\ b \in Nat
      <3>1. b = a \div 2 /\ a \in Nat /\ b \in Nat
        <4>1. b = a \div 2 /\ a \in Nat
          BY <1>0, AncestorUp
        <4> HIDE DEF a, b
        <4> QED
          BY <4>1
      <3> QED
        BY <2>1, <3>1
    <2>5. p.levels[l + 1] = new[l + 1]
      BY <2>1, <2>2
    <2>6. ParentHash(new[l + 1], b) = new[(l + 1) + 1][b + 1]
      <3>1. new[(l + 1) + 1] = NextLevel(new[l + 1]) /\ IsList(new[l + 1])
        BY <1>4, <1>5, <2>2
      <3>2. Len(new[(l + 1) + 1]) = (W + 1) \div 2
        BY <3>1, NextLevelIs
      <3>3. b \in 0..(((W + 1) \div 2) - 1)
        <4>1. b < Len(new[(l + 1) + 1])
          BY <1>9, <2>2
        <4> HIDE DEF a, b, W
        <4> QED
          BY <2>4, <3>2, <4>1
      <3> QED
        BY <3>1, <3>3, NextLevelIs
    <2>7. /\ q.index = b
          /\ q.levels = upper
          /\ q.nodes = p.nodes \cup {<<l, s, new[l + 1][s + 1]>> : s \in sibs}
                               \cup {<<l + 1, b, new[(l + 1) + 1][b + 1]>>}
      <3> HIDE DEF p, q, a, b
      <3>1. /\ q.index = p.index \div 2
            /\ q.levels = [p.levels EXCEPT ![(l + 1) + 1][p.index \div 2 + 1]
                                             = ParentHash(p.levels[l + 1], p.index \div 2)]
            /\ q.nodes = p.nodes \cup {<<(l + 1) - 1, s, p.levels[l + 1][s + 1]>> :
                                          s \in {s \in {Sib(p.index)} : s < Len(p.levels[l + 1])}}
                           \cup {<<l + 1, p.index \div 2, ParentHash(p.levels[l + 1], p.index \div 2)>>}
        BY <2>3 DEF PathUp, Sib
      <3> QED
        BY <2>2, <2>4, <2>5, <2>6, <3>1, SMTT(30)
    <2>8. Levels(l + 1)
      <3> DEFINE row == [old[(l + 1) + 1] EXCEPT ![b + 1] = new[(l + 1) + 1][b + 1]]
      <3>1. p.levels[(l + 1) + 1] = old[(l + 1) + 1]
        BY <2>1, <2>2
      <3>2. IsList(p.levels) /\ Len(p.levels) = height + 1 /\ (l + 1) + 1 \in 1..Len(p.levels)
        BY <2>1, <2>2
      <3>3. upper = [p.levels EXCEPT ![(l + 1) + 1] = row]
        BY <3>1
      <3>4. row = new[(l + 1) + 1]
        <4> DEFINE o == old[(l + 1) + 1]
                   m == new[(l + 1) + 1]
        <4>1. IsList(o) /\ IsList(m) /\ Len(m) = Len(o) /\ Len(o) \in Nat
          <5>1. IsList(o) /\ IsList(m)
            BY <1>5, <2>2
          <5>2. Len(m) = Len(o)
            BY <1>2, <2>2
          <5> HIDE DEF o, m
          <5> QED
            BY <5>1, <5>2 DEF IsList
        <4>2. b + 1 \in 1..Len(o)
          <5>1. b < Len(m)
            BY <1>9, <2>2
          <5> HIDE DEF b, o, m
          <5> QED
            BY <2>4, <4>1, <5>1
        <4>3. \A i \in 1..Len(o) : i # b + 1 => m[i] = o[i]
          <5> SUFFICES ASSUME NEW i \in 1..Len(o), i # b + 1
                       PROVE  m[i] = o[i]
            OBVIOUS
          <5>1. i - 1 \in 0..(Len(o) - 1) /\ i - 1 # b /\ (i - 1) + 1 = i
            BY <2>4, <4>1
          <5> QED
            BY <1>2, <2>2, <5>1
        <4> HIDE DEF o, m, b
        <4>4. row = [o EXCEPT ![b + 1] = m[b + 1]]
          BY DEF o, m
        <4> DEFINE n == Len(o)
        <4>5. o = [j \in 1..n |-> o[j]] /\ m = [j \in 1..n |-> m[j]] /\ b + 1 \in 1..n
          BY <4>1, <4>2 DEF IsList
        <4> HIDE DEF n
        <4>6. [o EXCEPT ![b + 1] = m[b + 1]] = [j \in 1..n |-> IF j = b + 1 THEN m[b + 1] ELSE o[j]]
          BY <4>5
        <4>7. [o EXCEPT ![b + 1] = m[b + 1]] = m
          BY <4>3, <4>5, <4>6 DEF n
        <4> QED
          BY <4>4, <4>7 DEF m
      <3> HIDE DEF upper, row
      <3>5. /\ IsList(upper) /\ Len(upper) = height + 1
            /\ upper[(l + 1) + 1] = row
            /\ \A h \in 1..(height + 1) : h # (l + 1) + 1 => upper[h] = p.levels[h]
        <4> HIDE DEF p
        <4>1. /\ IsList(upper) /\ Len(upper) = Len(p.levels)
              /\ upper[(l + 1) + 1] = row
              /\ \A h \in 1..Len(p.levels) : h # (l + 1) + 1 => upper[h] = p.levels[h]
          BY <3>2, <3>3, ListExcept, SMTT(30)
        <4> QED
          BY <3>2, <4>1
      <3>6. \A h \in 1..(height + 1) : upper[h] = IF h <= (l + 1) + 1 THEN new[h] ELSE old[h]
        <4> SUFFICES ASSUME NEW h \in 1..(height + 1)
                     PROVE  upper[h] = IF h <= (l + 1) + 1 THEN new[h] ELSE old[h]
          OBVIOUS
        <4>1. p.levels[h] = IF h <= l + 1 THEN new[h] ELSE old[h]
          BY <2>1
        <4>2. CASE h = (l + 1) + 1
          BY <3>4, <3>5, <4>2
        <4>3. CASE h # (l + 1) + 1
          <5>1. h <= l + 1 <=> h <= (l + 1) + 1
            BY <4>3
          <5> QED
            BY <3>5, <4>1, <4>3, <5>1
        <4> QED
          BY <4>2, <4>3
      <3> QED
        BY <2>7, <3>5, <3>6
    <2>9. Sound(l + 1)
      <3> SUFFICES ASSUME NEW n \in q.nodes
                   PROVE  \E k \in 0..height, i \in Nat : i < Len(new[k + 1]) /\ n = <<k, i, new[k + 1][i + 1]>>
        OBVIOUS
      <3>1. CASE n \in p.nodes
        BY <2>1, <3>1
      <3>2. CASE n \in {<<l, s, new[l + 1][s + 1]>> : s \in sibs}
        <4>1. Sib(a) < W /\ n = <<l, Sib(a), new[l + 1][Sib(a) + 1]>>
          BY <3>2
        <4>2. Sib(a) \in Nat
          BY <2>4 DEF Sib
        <4> QED
          BY <2>2, <4>1, <4>2
      <3>3. CASE n = <<l + 1, b, new[(l + 1) + 1][b + 1]>>
        <4>1. b < Len(new[(l + 1) + 1])
          BY <1>9, <2>2
        <4> QED
          BY <2>2, <2>4, <3>3, <4>1
      <3> QED
        BY <2>7, <3>1, <3>2, <3>3
    <2>10. Complete(l + 1)
      <3>1. ASSUME NEW k \in 0..(l + 1)
            PROVE  <<k, A(k), new[k + 1][A(k) + 1]>> \in q.nodes
        <4>1. CASE k = l + 1
          BY <2>7, <4>1
        <4>2. CASE k # l + 1
          <5>1. k \in 0..l
            BY <4>2
          <5> QED
            BY <2>1, <2>7, <5>1
        <4> QED
          BY <4>1, <4>2
      <3>2. ASSUME NEW k \in 0..((l + 1) - 1), Sib(A(k)) < Len(new[k + 1])
            PROVE  <<k, Sib(A(k)), new[k + 1][Sib(A(k)) + 1]>> \in q.nodes
        <4>1. CASE k = l
          <5>1. Sib(a) \in sibs
            BY <3>2, <4>1
          <5> QED
            BY <2>7, <4>1, <5>1
        <4>2. CASE k # l
          <5>1. k \in 0..(l - 1)
            BY <4>2
          <5>2. <<k, Sib(A(k)), new[k + 1][Sib(A(k)) + 1]>> \in p.nodes
            BY <2>1, <3>2, <5>1
          <5> QED
            BY <2>7, <5>2
        <4> QED
          BY <4>1, <4>2
      <3> QED
        BY <3>1, <3>2
    <2> HIDE DEF Levels, Sound, Complete
    <2> QED
      BY <2>8, <2>9, <2>10
  <1>12. height \in T
    <2> HIDE DEF T
    <2> QED
      BY <1>10, <1>11, NatInduct
  <1>13. path[height].levels = new
    <2>1. IsList(path[height].levels) /\ Len(path[height].levels) = height + 1
          /\ \A h \in 1..(height + 1) : path[height].levels[h] = new[h]
      BY <1>12
    <2> QED
      BY <1>4, <2>1, ListEqual
  <1>14. CarriesPath(path[height].nodes, new, index, height)
    BY <1>12 DEF CarriesPath
  <1> QED
    BY <1>7, <1>8, <1>13, <1>14 DEF new, other, old

-----------------------------------------------------------------------------
(***************************************************************************)
(* The append frontier of a shard tree (mergeFrontier and                  *)
(* materializeRootPath), for any number of leaves: an append gives the     *)
(* root and the height of the reference tree over all leaves, a frontier   *)
(* to go on from, and exactly the nodes that are new or have changed.      *)
(***************************************************************************)
(* Arithmetic of powers of two *)

LEMMA Pow2Divides ==
    ASSUME NEW m \in Nat, NEW n \in Nat, m <= n
    PROVE  n - m \in Nat /\ Pow2[n] = Pow2[n - m] * Pow2[m]
  <1> DEFINE T == {d \in Nat : Pow2[m + d] = Pow2[d] * Pow2[m]}
  <1>1. 0 \in T
    BY Pow2Step
  <1>2. ASSUME NEW d \in Nat, d \in T
        PROVE  d + 1 \in T
    <2>1. Pow2[m + d] = Pow2[d] * Pow2[m]
      BY <1>2
    <2>2. m + (d + 1) = (m + d) + 1 /\ m + d \in Nat
      OBVIOUS
    <2>3. Pow2[m + (d + 1)] = 2 * Pow2[m + d] /\ Pow2[d + 1] = 2 * Pow2[d] /\ Pow2[d] \in Nat /\ Pow2[m] \in Nat
      BY <2>2, Pow2Step
    <2> DEFINE p == Pow2[d]
               q == Pow2[m]
    <2>4. p \in Nat /\ q \in Nat
      BY <2>3
    <2> HIDE DEF p, q
    <2>5. 2 * (p * q) = (2 * p) * q
      BY <2>4
    <2> QED
      BY <2>1, <2>3, <2>5 DEF p, q
  <1>3. \A d \in Nat : d \in T
    <2> HIDE DEF T
    <2> QED
      BY <1>1, <1>2, NatInduct
  <1>4. n - m \in Nat /\ m + (n - m) = n
    OBVIOUS
  <1> QED
    BY <1>3, <1>4

LEMMA Pow2LE ==
    ASSUME NEW m \in Nat, NEW n \in Nat, m <= n
    PROVE  Pow2[m] <= Pow2[n]
  <1>1. Pow2[m] \in Nat /\ Pow2[n] \in Nat
    BY Pow2Step
  <1>2. CASE m = n
    BY <1>1, <1>2
  <1>3. CASE m < n
    <2>1. 2 * Pow2[m] <= Pow2[n]
      BY <1>3, Pow2Mono
    <2> QED
      BY <1>1, <2>1
  <1> QED
    BY <1>2, <1>3

LEMMA MulCancel ==
    ASSUME NEW a \in Nat, NEW b \in Nat, NEW p \in Nat, p > 0, a * p = b * p
    PROVE  a = b
  <1>1. CASE a < b
    <2>1. (a + 1) * p <= b * p /\ (a + 1) * p = a * p + p /\ a * p \in Nat /\ b * p \in Nat
      <3>1. a + 1 \in Nat /\ a + 1 <= b
        BY <1>1
      <3> QED
        BY <3>1, MulMono
    <2> QED
      BY <2>1
  <1>2. CASE b < a
    <2>1. (b + 1) * p <= a * p /\ (b + 1) * p = b * p + p /\ a * p \in Nat /\ b * p \in Nat
      <3>1. b + 1 \in Nat /\ b + 1 <= a
        BY <1>2
      <3> QED
        BY <3>1, MulMono
    <2> QED
      BY <2>1
  <1> QED
    BY <1>1, <1>2

\* Ancestors of ancestors.
LEMMA AncestorAdd ==
    ASSUME NEW x \in Nat, NEW a \in Nat, NEW b \in Nat
    PROVE  Ancestor(Ancestor(x, a), b) = Ancestor(x, a + b)
  <1> DEFINE y == Ancestor(x, a)
             T == {d \in Nat : Ancestor(y, d) = Ancestor(x, a + d)}
  <1>1. y \in Nat
    BY AncestorUp
  <1> HIDE DEF y
  <1>2. 0 \in T
    BY <1>1, AncestorUp DEF y
  <1>3. ASSUME NEW d \in Nat, d \in T
        PROVE  d + 1 \in T
    <2>1. a + (d + 1) = (a + d) + 1 /\ a + d \in Nat
      OBVIOUS
    <2>2. Ancestor(y, d + 1) = Ancestor(y, d) \div 2
      BY <1>1, AncestorUp
    <2>3. Ancestor(x, (a + d) + 1) = Ancestor(x, a + d) \div 2
      BY <2>1, AncestorUp
    <2> QED
      BY <1>3, <2>1, <2>2, <2>3
  <1>4. b \in T
    <2> HIDE DEF T
    <2> QED
      BY <1>2, <1>3, NatInduct
  <1> QED
    BY <1>4 DEF y

\* A multiple of 2^l with x among the 2^l numbers after it is that of the ancestor of x.
LEMMA AncestorIs ==
    ASSUME NEW x \in Nat, NEW l \in Nat, NEW q \in Nat, q * Pow2[l] <= x, x < q * Pow2[l] + Pow2[l]
    PROVE  Ancestor(x, l) = q
  <1>1. Pow2[l] \in Nat /\ Pow2[l] > 0
    BY Pow2Step
  <1> QED
    BY <1>1, DivUnique DEF Ancestor

-----------------------------------------------------------------------------
(* Frontiers *)

NodeStart(node) == node.index * Pow2[node.level]
NodeEnd(node) == NodeStart(node) + Pow2[node.level]
IsNode(node) == node = Node(node.level, node.index, node.hash) /\ node.level \in Nat /\ node.index \in Nat

\* Complete subtrees side by side, the largest first.
Staircase(fs) ==
    /\ IsList(fs)
    /\ \A i \in 1..Len(fs) :
          /\ IsNode(fs[i])
          /\ NodeStart(fs[i]) = IF i = 1 THEN 0 ELSE NodeEnd(fs[i - 1])
          /\ i > 1 => fs[i].level < fs[i - 1].level

\* The frontier of a tree: complete subtrees over all of its leaves.
IsFrontier(fs, leaves) ==
    /\ Staircase(fs)
    /\ \A i \in 1..Len(fs) : fs[i].hash = RootOver(leaves, NodeStart(fs[i]), Pow2[fs[i].level])
    /\ Len(leaves) = IF Len(fs) = 0 THEN 0 ELSE NodeEnd(fs[Len(fs)])

LEMMA NodeSpan ==
    ASSUME NEW node, IsNode(node)
    PROVE  /\ node.level \in Nat /\ node.index \in Nat
           /\ Pow2[node.level] \in Nat /\ Pow2[node.level] > 0
           /\ NodeStart(node) \in Nat /\ NodeEnd(node) \in Nat /\ NodeStart(node) < NodeEnd(node)
           /\ NodeEnd(node) = NodeStart(node) + Pow2[node.level]
  <1> DEFINE p == Pow2[node.level]
             x == node.index
  <1>1. node.level \in Nat /\ x \in Nat
    BY DEF IsNode
  <1>2. p \in Nat /\ p > 0
    BY <1>1, Pow2Step
  <1>3. NodeStart(node) = x * p /\ NodeEnd(node) = x * p + p
    BY DEF NodeStart, NodeEnd
  <1> HIDE DEF p, x
  <1>4. x * p \in Nat
    BY <1>1, <1>2
  <1> QED
    BY <1>1, <1>2, <1>3, <1>4 DEF p, x

\* A subtree that follows a larger one, or none, is a left child.
LEMMA StaircaseEven ==
    ASSUME NEW fs, Staircase(fs), NEW i \in 1..Len(fs)
    PROVE  fs[i].index % 2 = 0
  <1> DEFINE x == fs[i].index
             p == Pow2[fs[i].level]
  <1>0. Len(fs) \in Nat /\ IsNode(fs[i])
    BY DEF Staircase, IsList
  <1>1. x \in Nat /\ p \in Nat /\ p > 0 /\ fs[i].level \in Nat
    BY <1>0, NodeSpan
  <1>2. CASE i = 1
    <2>1. x * p = 0
      BY <1>2 DEF Staircase, NodeStart
    <2> HIDE DEF x, p
    <2>2. x = 0
      <3>1. x * p = 0 * p
        BY <1>1, <2>1
      <3> QED
        BY <1>1, <3>1, MulCancel
    <2> QED
      BY <2>2 DEF x
  <1>3. CASE i > 1
    <2> DEFINE y == fs[i - 1].index
               m == fs[i].level
               n == fs[i - 1].level
               c == Pow2[(n - 1) - m]
    <2>1. i - 1 \in 1..Len(fs) /\ i # 1
      BY <1>0, <1>3
    <2>2. IsNode(fs[i - 1])
      BY <2>1 DEF Staircase
    <2>3. x * p = NodeEnd(fs[i - 1]) /\ m < n
      BY <1>3, <2>1 DEF Staircase, NodeStart
    <2>4. y \in Nat /\ n \in Nat /\ m \in Nat
      BY <1>1, <2>2 DEF IsNode
    <2>5. NodeEnd(fs[i - 1]) = y * Pow2[n] + Pow2[n]
      BY DEF NodeEnd, NodeStart
    <2> HIDE DEF x, y, m, n
    <2>6. n - 1 \in Nat /\ m <= n - 1 /\ (n - 1) + 1 = n
      BY <2>3, <2>4
    <2>7. Pow2[n] = 2 * Pow2[n - 1] /\ (n - 1) - m \in Nat /\ Pow2[n - 1] = c * p /\ c \in Nat
      <3>1. Pow2[n] = 2 * Pow2[n - 1]
        BY <2>6, Pow2Step
      <3>2. (n - 1) - m \in Nat /\ Pow2[n - 1] = c * Pow2[m]
        BY <2>4, <2>6, Pow2Divides
      <3>3. c \in Nat
        BY <3>2, Pow2Step
      <3> QED
        BY <3>1, <3>2, <3>3 DEF m
    <2> HIDE DEF p, c
    <2>8. x * p = (2 * (c * (y + 1))) * p
      <3>1. Pow2[n] = (2 * c) * p
        BY <1>1, <2>7
      <3>2. y * ((2 * c) * p) + (2 * c) * p = (2 * (c * (y + 1))) * p
        BY <1>1, <2>4, <2>7
      <3> QED
        BY <2>3, <2>5, <3>1, <3>2
    <2> DEFINE d == c * (y + 1)
    <2>9. d \in Nat
      BY <2>4, <2>7
    <2> HIDE DEF d
    <2>10. x = 2 * d
      <3>1. 2 * d \in Nat /\ x * p = (2 * d) * p
        BY <2>8, <2>9 DEF d
      <3> QED
        BY <1>1, <3>1, MulCancel
    <2>11. x % 2 = 0
      BY <2>9, <2>10
    <2> QED
      BY <2>11 DEF x
  <1> QED
    BY <1>0, <1>2, <1>3

\* Subtrees end at or before the last one.
LEMMA StaircaseEnds ==
    ASSUME NEW fs, Staircase(fs)
    PROVE  \A i \in 1..Len(fs) : NodeEnd(fs[i]) <= NodeEnd(fs[Len(fs)])
  <1> DEFINE n == Len(fs)
             T == {d \in Nat : d < n => NodeEnd(fs[n - d]) <= NodeEnd(fs[n])}
  <1>0. n \in Nat /\ \A i \in 1..n : NodeEnd(fs[i]) \in Nat /\ NodeStart(fs[i]) \in Nat /\ NodeStart(fs[i]) < NodeEnd(fs[i])
    BY NodeSpan DEF Staircase, IsList
  <1>1. \A i \in 1..n : i # 1 => NodeStart(fs[i]) = NodeEnd(fs[i - 1])
    BY DEF Staircase
  <1> HIDE DEF n
  <1>2. 0 \in T
    <2> SUFFICES ASSUME 0 < n
                 PROVE  NodeEnd(fs[n - 0]) <= NodeEnd(fs[n])
      OBVIOUS
    <2>1. n \in 1..n /\ n - 0 = n
      BY <1>0
    <2> QED
      BY <1>0, <2>1
  <1>3. ASSUME NEW d \in Nat, d \in T
        PROVE  d + 1 \in T
    <2> SUFFICES ASSUME d + 1 < n
                 PROVE  NodeEnd(fs[n - (d + 1)]) <= NodeEnd(fs[n])
      OBVIOUS
    <2> DEFINE i == n - d
    <2>1. i \in 1..n /\ i # 1 /\ i - 1 = n - (d + 1) /\ i - 1 \in 1..n /\ n \in 1..n
      BY <1>0
    <2>2. NodeEnd(fs[i]) <= NodeEnd(fs[n])
      BY <1>0, <1>3
    <2> HIDE DEF i
    <2>3. NodeEnd(fs[i - 1]) <= NodeEnd(fs[n])
      BY <1>0, <1>1, <2>1, <2>2
    <2> QED
      BY <2>1, <2>3
  <1>4. \A d \in Nat : d \in T
    <2> HIDE DEF T
    <2> QED
      BY <1>2, <1>3, NatInduct
  <1>5. ASSUME NEW i \in 1..n
        PROVE  NodeEnd(fs[i]) <= NodeEnd(fs[n])
    <2>1. n - i \in Nat /\ n - i < n /\ n - (n - i) = i
      BY <1>0
    <2>2. n - i \in T
      BY <1>4, <2>1
    <2> QED
      BY <2>1, <2>2
  <1> QED
    BY <1>5 DEF n

-----------------------------------------------------------------------------
(* The path of the last leaf *)

\* The ancestor of the last leaf on level l.
LastNode(leaves, l) ==
    LET a == Ancestor(Len(leaves) - 1, l)
    IN Node(l, a, RootOver(leaves, a * Pow2[l], Len(leaves) - a * Pow2[l]))

LEMMA LastNodeIs ==
    ASSUME NEW leaves, Len(leaves) \in Nat, NEW l \in Nat, NEW q \in Nat,
           q * Pow2[l] < Len(leaves), Len(leaves) <= q * Pow2[l] + Pow2[l]
    PROVE  /\ LastNode(leaves, l) = Node(l, q, RootOver(leaves, q * Pow2[l], Len(leaves) - q * Pow2[l]))
           /\ IsNode(LastNode(leaves, l))
  <1> DEFINE n == Len(leaves)
             p == Pow2[l]
             s == q * p
  <1>1. n \in Nat /\ p \in Nat /\ s < n /\ n <= s + p
    BY Pow2Step
  <1>2. s \in Nat
    <2> HIDE DEF p
    <2> QED
      BY <1>1
  <1>3. n - 1 \in Nat /\ s <= n - 1 /\ n - 1 < s + p
    <2> HIDE DEF n, p, s
    <2> QED
      BY <1>1, <1>2
  <1>4. Ancestor(n - 1, l) = q
    <2> HIDE DEF n
    <2> QED
      BY <1>3, AncestorIs
  <1>5. LastNode(leaves, l) = Node(l, q, RootOver(leaves, q * Pow2[l], Len(leaves) - q * Pow2[l]))
    BY <1>4 DEF LastNode
  <1>6. \A h : IsNode(Node(l, q, h))
    BY DEF IsNode, Node
  <1> QED
    BY <1>5, <1>6

\* Pairing a complete left subtree with the rest of the leaves, which are not more,
\* gives the ancestor of the last leaf one level up.
LEMMA PairUp ==
    ASSUME NEW leaves, Len(leaves) \in Nat, NEW left, IsNode(left), left.index % 2 = 0,
           left.hash = RootOver(leaves, NodeStart(left), Pow2[left.level]),
           NodeEnd(left) < Len(leaves), Len(leaves) <= NodeEnd(left) + Pow2[left.level],
           NEW right, right = RootOver(leaves, NodeEnd(left), Len(leaves) - NodeEnd(left))
    PROVE  LET up == Node(left.level + 1, left.index \div 2, HashPair(left.hash, right))
           IN /\ up = LastNode(leaves, left.level + 1) /\ IsNode(up)
              /\ NodeStart(up) = NodeStart(left)
              /\ NodeEnd(up) = NodeEnd(left) + Pow2[left.level]
              /\ left.index \div 2 = (left.index + 1) \div 2
  <1> DEFINE n == Len(leaves)
             l == left.level
             x == left.index
             j == x \div 2
             p == Pow2[l]
             s == NodeStart(left)
             m == n - (s + p)
             up == Node(l + 1, j, HashPair(left.hash, right))
  <1>1. l \in Nat /\ x \in Nat /\ p \in Nat /\ p > 0 /\ s \in Nat /\ NodeEnd(left) = s + p /\ s = x * p
    BY NodeSpan DEF NodeStart
  <1>2. n \in Nat /\ s + p < n /\ n <= s + p + p
    BY <1>1
  <1>3. Pow2[l + 1] = 2 * p
    BY <1>1, Pow2Step
  <1>4. j \in Nat /\ x = 2 * j /\ j = (x + 1) \div 2
    <2>1. x % 2 = 0
      OBVIOUS
    <2> HIDE DEF x
    <2> QED
      BY <1>1, <2>1
  <1>5. left.hash = RootOver(leaves, s, p) /\ right = RootOver(leaves, s + p, m)
    BY <1>1
  <1> HIDE DEF n, l, x, j, p, s
  <1>6. j * (2 * p) = s
    <2>1. j * (2 * p) = (2 * j) * p
      BY <1>1, <1>4
    <2> QED
      BY <1>1, <1>4, <2>1
  <1>7. m \in 1..p /\ s + p + m = n /\ p + m = n - s
    BY <1>1, <1>2
  <1>8. RootOver(leaves, s, p + m) = HashPair(left.hash, right)
    <2>1. m \in 1..Pow2[l] /\ s + Pow2[l] + m <= Len(leaves)
      BY <1>1, <1>2, <1>7 DEF n, p
    <2> HIDE DEF m
    <2>2. RootOver(leaves, s, Pow2[l] + m) = HashPair(RootOver(leaves, s, Pow2[l]), RootOver(leaves, s + Pow2[l], m))
      BY <1>1, <2>1, RootOverPair
    <2> QED
      BY <1>5, <2>2 DEF p
  <1>9. up = LastNode(leaves, l + 1) /\ IsNode(up)
    <2>1. l + 1 \in Nat /\ j * Pow2[l + 1] < n /\ n <= j * Pow2[l + 1] + Pow2[l + 1]
      BY <1>1, <1>2, <1>3, <1>6
    <2>2. /\ LastNode(leaves, l + 1) = Node(l + 1, j, RootOver(leaves, j * Pow2[l + 1], n - j * Pow2[l + 1]))
          /\ IsNode(LastNode(leaves, l + 1))
      BY <1>4, <1>2, <2>1, LastNodeIs DEF n
    <2>3. RootOver(leaves, j * Pow2[l + 1], n - j * Pow2[l + 1]) = HashPair(left.hash, right)
      BY <1>3, <1>6, <1>7, <1>8
    <2> QED
      BY <2>2, <2>3
  <1>10. NodeStart(up) = s /\ NodeEnd(up) = s + p + p
    <2>1. up.level = l + 1 /\ up.index = j
      BY DEF Node
    <2>2. NodeStart(up) = j * Pow2[l + 1] /\ NodeEnd(up) = j * Pow2[l + 1] + Pow2[l + 1]
      BY <2>1 DEF NodeStart, NodeEnd
    <2> QED
      BY <1>1, <1>3, <1>6, <2>2
  <1> HIDE DEF up
  <1>11. up = LastNode(leaves, l + 1) /\ IsNode(up) /\ NodeStart(up) = s /\ NodeEnd(up) = NodeEnd(left) + p
         /\ j = (x + 1) \div 2
    BY <1>1, <1>4, <1>9, <1>10
  <1> QED
    BY <1>11 DEF up, l, x, j, p, s

-----------------------------------------------------------------------------
(* mergeFrontier *)

IsMerge(merge, fs, leaf) ==
    /\ merge[0] = [kept |-> Len(fs), node |-> leaf, nodes |-> {leaf}]
    /\ \A i \in 1..Len(fs) : merge[i] = MergeStep(fs, merge[i - 1])
    /\ LET merged == merge[Len(fs)]
       IN MergeFrontier(fs, leaf) =
             [frontiers |-> Append(SubSeq(fs, 1, merged.kept), merged.node), nodes |-> merged.nodes]

LEMMA MergeFrontierDef ==
    ASSUME NEW fs, Len(fs) \in Nat, NEW leaf
    PROVE  \E merge : IsMerge(merge, fs, leaf)
  <1> DEFINE n == Len(fs)
  <1> DEFINE start == [kept |-> n, node |-> leaf, nodes |-> {leaf}]
             Is(f, k) == f = [i \in 0..k |-> IF i = 0 THEN start ELSE MergeStep(fs, f[i - 1])]
             T == {k \in Nat : \E f : Is(f, k)}
  <1>0. n \in Nat
    OBVIOUS
  <1> HIDE DEF start, n
  <1>1. 0 \in T
    <2> DEFINE g == [i \in 0..0 |-> start]
    <2>1. Is(g, 0)
      OBVIOUS
    <2> HIDE DEF Is, g
    <2> QED
      BY <2>1
  <1>2. ASSUME NEW k \in Nat, k \in T
        PROVE  k + 1 \in T
    <2>1. PICK f : Is(f, k)
      BY <1>2
    <2> DEFINE g == [i \in 0..(k + 1) |-> IF i = k + 1 THEN MergeStep(fs, f[k]) ELSE f[i]]
    <2>2. ASSUME NEW i \in 0..(k + 1)
          PROVE  g[i] = IF i = 0 THEN start ELSE MergeStep(fs, g[i - 1])
      <3>1. CASE i = k + 1
        BY <3>1
      <3>2. CASE i # k + 1
        <4>1. i \in 0..k /\ (i # 0 => i - 1 \in 0..(k + 1) /\ i - 1 # k + 1)
          BY <3>2
        <4>2. f[i] = IF i = 0 THEN start ELSE MergeStep(fs, f[i - 1])
          BY <2>1, <4>1
        <4>3. g[i] = f[i] /\ (i # 0 => g[i - 1] = f[i - 1])
          BY <3>2, <4>1
        <4> HIDE DEF g
        <4> QED
          BY <4>2, <4>3
      <3> QED
        BY <3>1, <3>2
    <2>3. Is(g, k + 1)
      BY <2>2
    <2> HIDE DEF g, Is
    <2> QED
      BY <2>3
  <1>3. \E f : Is(f, n)
    <2> HIDE DEF T
    <2>1. n \in T
      BY <1>0, <1>1, <1>2, NatInduct
    <2> QED
      BY <2>1 DEF T
  <1> DEFINE merge == CHOOSE f : Is(f, n)
  <1>4. Is(merge, n)
    BY <1>3
  <1>5. MergeFrontier(fs, leaf) =
           [frontiers |-> Append(SubSeq(fs, 1, merge[n].kept), merge[n].node), nodes |-> merge[n].nodes]
    BY DEF MergeFrontier, start, n
  <1> HIDE DEF merge
  <1>6. merge[0] = start /\ \A i \in 1..n : merge[i] = MergeStep(fs, merge[i - 1])
    BY <1>0, <1>4
  <1>7. IsMerge(merge, fs, leaf)
    BY <1>5, <1>6 DEF start, n, IsMerge
  <1> QED
    BY <1>7

\* The frontier's subtrees cover all leaves but the last, in a list that has one more.
OverPrefix(fs, leaves) ==
    /\ Staircase(fs)
    /\ \A i \in 1..Len(fs) : fs[i].hash = RootOver(leaves, NodeStart(fs[i]), Pow2[fs[i].level])
    /\ Len(leaves) = 1 + (IF Len(fs) = 0 THEN 0 ELSE NodeEnd(fs[Len(fs)]))

\* Between two rounds of mergeFrontier: the node to merge is the root of the complete
\* subtree that ends with the last leaf.
Merging(m, fs, leaves) ==
    /\ m.kept \in 0..Len(fs)
    /\ IsNode(m.node) /\ m.node = LastNode(leaves, m.node.level)
    /\ NodeEnd(m.node) = Len(leaves)
    /\ NodeStart(m.node) = IF m.kept = 0 THEN 0 ELSE NodeEnd(fs[m.kept])
    /\ m.kept > 0 => m.node.level <= fs[m.kept].level
    /\ m.nodes = {LastNode(leaves, l) : l \in 0..m.node.level}

Merged(m, fs) == m.kept = 0 \/ m.node.level < fs[m.kept].level

LEMMA LastNodeHash ==
    ASSUME NEW leaves, NEW node, IsNode(node), node = LastNode(leaves, node.level)
    PROVE  /\ node.hash = RootOver(leaves, NodeStart(node), Len(leaves) - NodeStart(node))
           /\ node.index = Ancestor(Len(leaves) - 1, node.level)
  <1> DEFINE l == node.level
             a == Ancestor(Len(leaves) - 1, l)
             h == RootOver(leaves, a * Pow2[l], Len(leaves) - a * Pow2[l])
  <1>1. node = Node(l, a, h)
    BY DEF LastNode
  <1> HIDE DEF a, h
  <1>2. node.index = a /\ node.hash = h
    <2> DEFINE k == l
    <2>1. node = Node(k, a, h)
      BY <1>1
    <2> HIDE DEF k
    <2> QED
      BY <2>1 DEF Node
  <1> QED
    BY <1>2 DEF a, h, NodeStart

LEMMA MergeStepKeeps ==
    ASSUME NEW leaves, Len(leaves) \in Nat, NEW fs, OverPrefix(fs, leaves), NEW m, Merging(m, fs, leaves)
    PROVE  /\ Merging(MergeStep(fs, m), fs, leaves)
           /\ MergeStep(fs, m).kept = m.kept - 1 \/ (Merged(m, fs) /\ MergeStep(fs, m) = m)
  <1> DEFINE left == fs[m.kept]
             node == m.node
             up == Node(node.level + 1, node.index \div 2, HashPair(left.hash, node.hash))
  <1>1. m.kept \in 0..Len(fs) /\ Len(fs) \in Nat /\ IsNode(node) /\ node.level \in Nat
    BY DEF Merging, OverPrefix, Staircase, IsList, IsNode
  <1>2. CASE m.kept > 0 /\ left.level = node.level
    <2>1. m.kept \in 1..Len(fs)
      BY <1>1, <1>2
    <2>2. IsNode(left) /\ left.hash = RootOver(leaves, NodeStart(left), Pow2[left.level])
      BY <2>1 DEF OverPrefix, Staircase
    <2>3. left.index % 2 = 0
      BY <2>1, StaircaseEven DEF OverPrefix
    <2>4. NodeStart(node) = NodeEnd(left) /\ NodeEnd(node) = Len(leaves)
      BY <1>2 DEF Merging
    <2>5. /\ NodeEnd(left) < Len(leaves) /\ Len(leaves) = NodeEnd(left) + Pow2[left.level]
          /\ Len(leaves) <= NodeEnd(left) + Pow2[left.level]
      BY <1>1, <1>2, <2>4, NodeSpan
    <2>6. node.hash = RootOver(leaves, NodeEnd(left), Len(leaves) - NodeEnd(left))
      BY <1>1, <2>4, LastNodeHash DEF Merging
    <2>7. node.index = left.index + 1
      <3> DEFINE p == Pow2[left.level]
                 a == node.index
                 b == left.index
      <3>1. a \in Nat /\ b \in Nat /\ p \in Nat /\ p > 0
        BY <1>1, <2>2, NodeSpan
      <3>2. a * p = b * p + p
        BY <1>2, <2>4 DEF NodeStart, NodeEnd
      <3> HIDE DEF a, b, p
      <3>3. a * p = (b + 1) * p /\ b + 1 \in Nat
        BY <3>1, <3>2
      <3>4. a = b + 1
        BY <3>1, <3>3, MulCancel
      <3> QED
        BY <3>4 DEF a, b
    <2> DEFINE raised == Node(left.level + 1, left.index \div 2, HashPair(left.hash, node.hash))
    <2>8. /\ raised = LastNode(leaves, left.level + 1) /\ IsNode(raised)
          /\ NodeStart(raised) = NodeStart(left)
          /\ NodeEnd(raised) = NodeEnd(left) + Pow2[left.level]
          /\ left.index \div 2 = (left.index + 1) \div 2
      <3> HIDE DEF left, node
      <3> QED
        BY <2>2, <2>3, <2>5, <2>6, PairUp
    <2>9. up = raised /\ up.level = node.level + 1
      BY <1>2, <2>7, <2>8 DEF Node
    <2>10. IsNode(up) /\ up = LastNode(leaves, up.level) /\ NodeStart(up) = NodeStart(left) /\ NodeEnd(up) = Len(leaves)
      <3> HIDE DEF raised, up, left, node
      <3> QED
        BY <1>2, <2>5, <2>8, <2>9
    <2>11. /\ MergeStep(fs, m) = [kept |-> m.kept - 1, node |-> up, nodes |-> m.nodes \cup {up}]
      BY <1>2 DEF MergeStep
    <2>12. NodeStart(left) = IF m.kept - 1 = 0 THEN 0 ELSE NodeEnd(fs[m.kept - 1])
      BY <1>1, <2>1 DEF OverPrefix, Staircase
    <2>13. m.kept - 1 > 0 => node.level + 1 <= fs[m.kept - 1].level
      <3> SUFFICES ASSUME m.kept - 1 > 0
                   PROVE  node.level + 1 <= fs[m.kept - 1].level
        OBVIOUS
      <3>1. m.kept - 1 \in 1..Len(fs) /\ m.kept > 1
        BY <1>1
      <3>2. left.level < fs[m.kept - 1].level /\ IsNode(fs[m.kept - 1])
        BY <2>1, <3>1 DEF OverPrefix, Staircase
      <3>3. fs[m.kept - 1].level \in Nat
        BY <3>2 DEF IsNode
      <3> QED
        BY <1>1, <1>2, <3>2, <3>3
    <2>14. m.nodes \cup {up} = {LastNode(leaves, l) : l \in 0..up.level}
      <3>1. m.nodes = {LastNode(leaves, l) : l \in 0..node.level}
        BY DEF Merging
      <3> HIDE DEF up, node
      <3>2. 0..up.level = 0..node.level \cup {up.level}
        BY <1>1, <2>9, SMTT(30)
      <3> DEFINE F(l) == LastNode(leaves, l)
      <3>3. up = F(up.level) /\ m.nodes = {F(l) : l \in 0..node.level}
        BY <2>10, <3>1
      <3> HIDE DEF F
      <3>4. m.nodes \cup {up} = {F(l) : l \in 0..up.level}
        BY <3>2, <3>3
      <3> QED
        BY <3>4 DEF F
    <2>15. m.kept - 1 \in 0..Len(fs)
      BY <1>1, <2>1
    <2> DEFINE next == [kept |-> m.kept - 1, node |-> up, nodes |-> m.nodes \cup {up}]
    <2>16. next.kept = m.kept - 1 /\ next.node = up /\ next.nodes = m.nodes \cup {up}
      OBVIOUS
    <2> HIDE DEF next, up, node, left
    <2>17. Merging(next, fs, leaves)
      BY <2>9, <2>10, <2>12, <2>13, <2>14, <2>15, <2>16 DEF Merging
    <2> QED
      BY <2>11, <2>16, <2>17 DEF next
  <1>3. CASE ~(m.kept > 0 /\ left.level = node.level)
    <2>1. MergeStep(fs, m) = m
      BY <1>3 DEF MergeStep
    <2>2. Merged(m, fs)
      <3>1. CASE m.kept > 0
        <4>1. m.kept \in 1..Len(fs) /\ left.level # node.level /\ node.level <= left.level
          BY <1>1, <1>3, <3>1 DEF Merging
        <4>2. left.level \in Nat
          BY <4>1 DEF OverPrefix, Staircase, IsNode
        <4> QED
          BY <1>1, <4>1, <4>2 DEF Merged
      <3> QED
        BY <1>1, <3>1 DEF Merged
    <2> QED
      BY <2>1, <2>2
  <1> QED
    BY <1>2, <1>3

LEMMA AppendIs ==
    ASSUME NEW s, IsList(s), NEW e
    PROVE  /\ IsList(Append(s, e)) /\ Len(Append(s, e)) = Len(s) + 1
           /\ \A i \in 1..Len(s) : Append(s, e)[i] = s[i]
           /\ Append(s, e)[Len(s) + 1] = e
  <1> DEFINE n == Len(s)
             t == [i \in 1..(n + 1) |-> IF i = n + 1 THEN e ELSE s[i]]
  <1>1. n \in Nat /\ s = [i \in 1..n |-> s[i]]
    BY DEF IsList
  <1>2. s \in Seq({s[i] : i \in 1..n} \cup {e})
    BY <1>1
  <1>3. Append(s, e) = t
    <2>1. /\ Append(s, e) \in Seq({s[i] : i \in 1..n} \cup {e}) /\ Len(Append(s, e)) = n + 1
          /\ \A i \in 1..n : Append(s, e)[i] = s[i]
          /\ Append(s, e)[n + 1] = e
      BY <1>2, AppendProperties
    <2>2. Append(s, e) = [i \in 1..(n + 1) |-> Append(s, e)[i]]
      <3> DEFINE a == Append(s, e)
                 S == {s[i] : i \in 1..n} \cup {e}
                 k == n + 1
      <3>1. a \in Seq(S) /\ Len(a) = k
        BY <2>1
      <3> HIDE DEF a, S, k
      <3>2. a = [i \in 1..k |-> a[i]]
        BY <3>1
      <3> QED
        BY <3>2 DEF a, k
    <2> QED
      BY <1>1, <2>1, <2>2
  <1>4. n + 1 \in Nat /\ t = [i \in 1..(n + 1) |-> t[i]] /\ t[n + 1] = e /\ \A i \in 1..n : t[i] = s[i]
    BY <1>1
  <1> HIDE DEF t
  <1>5. IsList(t) /\ Len(t) = n + 1
    BY <1>4, ListIs
  <1> QED
    BY <1>3, <1>4, <1>5

\* mergeFrontier leaves a frontier over all leaves, and returns the path of the last
\* leaf up to the frontier's last node.
LEMMA MergeFrontierIs ==
    ASSUME NEW leaves, IsList(leaves), NEW fs, OverPrefix(fs, leaves)
    PROVE  LET merged == MergeFrontier(fs, Node(0, Len(leaves) - 1, leaves[Len(leaves)]))
               last == merged.frontiers[Len(merged.frontiers)]
           IN /\ IsFrontier(merged.frontiers, leaves) /\ Len(merged.frontiers) > 0
              /\ last = LastNode(leaves, last.level)
              /\ merged.nodes = {LastNode(leaves, l) : l \in 0..last.level}
  <1> DEFINE N == Len(leaves)
             n == Len(fs)
             leaf == Node(0, N - 1, leaves[N])
  <1>1. n \in Nat /\ IsList(fs) /\ Staircase(fs) /\ N \in Nat
    BY DEF OverPrefix, Staircase, IsList
  <1>2. N = 1 + (IF n = 0 THEN 0 ELSE NodeEnd(fs[n])) /\ N > 0
    <2>1. n > 0 => NodeEnd(fs[n]) \in Nat
      BY <1>1, NodeSpan DEF Staircase
    <2>2. N = 1 + (IF n = 0 THEN 0 ELSE NodeEnd(fs[n]))
      BY DEF OverPrefix
    <2> QED
      BY <1>1, <2>1, <2>2
  <1>3. PICK merge : IsMerge(merge, fs, leaf)
    <2> HIDE DEF leaf
    <2> QED
      BY <1>1, MergeFrontierDef
  <1>4. Merging(merge[0], fs, leaves) /\ merge[0].kept = n
    <2>1. Pow2[0] = 1 /\ N - 1 \in Nat
      <3>1. Pow2[0] = 1
        BY Pow2Step
      <3> HIDE DEF N
      <3>2. N \in Nat /\ N > 0
        BY <1>1, <1>2
      <3> QED
        BY <3>1, <3>2
    <2>2. LastNode(leaves, 0) = Node(0, N - 1, RootOver(leaves, N - 1, 1)) /\ IsNode(LastNode(leaves, 0))
      <3>1. (N - 1) * Pow2[0] = N - 1 /\ N - (N - 1) = 1
        BY <1>1, <2>1
      <3>2. /\ LastNode(leaves, 0) = Node(0, N - 1, RootOver(leaves, (N - 1) * Pow2[0], N - (N - 1) * Pow2[0]))
            /\ IsNode(LastNode(leaves, 0))
        <4>1. (N - 1) * Pow2[0] < N /\ N <= (N - 1) * Pow2[0] + Pow2[0] /\ N = Len(leaves) /\ 0 \in Nat
          BY <1>1, <2>1, <3>1
        <4> HIDE DEF N
        <4> QED
          BY <1>1, <2>1, <4>1, LastNodeIs
      <3> QED
        BY <3>1, <3>2
    <2>3. RootOver(leaves, N - 1, 1) = leaves[N]
      <3>1. N - 1 \in 0..(N - 1) /\ (N - 1) + 1 = N
        BY <1>1, <2>1
      <3> HIDE DEF N
      <3> QED
        BY <1>1, <3>1, RootOverOne DEF N
    <2>4. leaf = LastNode(leaves, 0) /\ IsNode(leaf) /\ leaf.level = 0 /\ leaf.index = N - 1
      BY <2>2, <2>3 DEF Node
    <2>5. NodeStart(leaf) = N - 1 /\ NodeEnd(leaf) = N
      BY <1>1, <2>1, <2>4 DEF NodeStart, NodeEnd
    <2>6. n > 0 => 0 <= fs[n].level /\ NodeEnd(fs[n]) \in Nat
      BY <1>1, NodeSpan DEF Staircase
    <2>7. merge[0].kept = n /\ merge[0].node = leaf /\ merge[0].nodes = {leaf}
      BY <1>3 DEF IsMerge
    <2>8. {leaf} = {LastNode(leaves, l) : l \in 0..0}
      BY <2>4
    <2>9. NodeStart(leaf) = IF n = 0 THEN 0 ELSE NodeEnd(fs[n])
      BY <1>1, <1>2, <2>5, <2>6
    <2> HIDE DEF leaf
    <2> QED
      BY <1>1, <2>4, <2>5, <2>6, <2>7, <2>8, <2>9 DEF Merging
  <1> DEFINE T == {i \in Nat : i <= n => /\ Merging(merge[i], fs, leaves)
                                         /\ merge[i].kept <= n - i \/ Merged(merge[i], fs)}
  <1>5. 0 \in T
    BY <1>1, <1>4
  <1>6. ASSUME NEW i \in Nat, i \in T
        PROVE  i + 1 \in T
    <2> SUFFICES ASSUME i + 1 <= n
                 PROVE  /\ Merging(merge[i + 1], fs, leaves)
                        /\ merge[i + 1].kept <= n - (i + 1) \/ Merged(merge[i + 1], fs)
      OBVIOUS
    <2>1. /\ Merging(merge[i], fs, leaves)
          /\ merge[i].kept <= n - i \/ Merged(merge[i], fs)
      BY <1>1, <1>6
    <2>2. merge[i + 1] = MergeStep(fs, merge[i])
      <3>1. i + 1 \in 1..n /\ (i + 1) - 1 = i
        BY <1>1
      <3> QED
        BY <1>3, <3>1 DEF IsMerge
    <2>3. /\ Merging(MergeStep(fs, merge[i]), fs, leaves)
          /\ MergeStep(fs, merge[i]).kept = merge[i].kept - 1 \/ (Merged(merge[i], fs) /\ MergeStep(fs, merge[i]) = merge[i])
      BY <1>1, <2>1, MergeStepKeeps
    <2>4. merge[i].kept \in Nat
      BY <1>1, <2>1 DEF Merging
    <2>5. CASE merge[i + 1].kept = merge[i].kept - 1
      <3>1. CASE merge[i].kept <= n - i
        BY <1>1, <2>2, <2>3, <2>4, <2>5, <3>1
      <3>2. CASE Merged(merge[i], fs)
        <4>1. merge[i + 1] = merge[i]
          <5>1. ~(merge[i].kept > 0 /\ fs[merge[i].kept].level = merge[i].node.level)
            <6>1. merge[i].node.level \in Nat
              BY <2>1 DEF Merging, IsNode
            <6> QED
              BY <3>2, <6>1 DEF Merged
          <5> QED
            BY <2>2, <5>1 DEF MergeStep
        <4> QED
          BY <2>4, <2>5, <4>1
      <3> QED
        BY <2>1, <3>1, <3>2
    <2>6. CASE Merged(merge[i], fs) /\ merge[i + 1] = merge[i]
      BY <2>1, <2>6
    <2> QED
      BY <2>2, <2>3, <2>5, <2>6
  <1> DEFINE m == merge[n]
  <1>7. Merging(m, fs, leaves) /\ Merged(m, fs)
    <2>1. n \in T
      <3> HIDE DEF T
      <3> QED
        BY <1>1, <1>5, <1>6, NatInduct
    <2>2. Merging(m, fs, leaves) /\ (m.kept <= n - n \/ Merged(m, fs))
      BY <1>1, <2>1
    <2>3. m.kept \in Nat /\ n - n = 0
      BY <1>1, <2>2 DEF Merging
    <2> QED
      BY <2>2, <2>3 DEF Merged
  <1> DEFINE node == m.node
             base == SubSeq(fs, 1, m.kept)
             new == Append(base, node)
             k == m.kept
  <1>8. k \in 0..n /\ IsNode(node) /\ node = LastNode(leaves, node.level) /\ NodeEnd(node) = N
        /\ NodeStart(node) = (IF k = 0 THEN 0 ELSE NodeEnd(fs[k]))
        /\ (k > 0 => node.level < fs[k].level)
        /\ m.nodes = {LastNode(leaves, l) : l \in 0..node.level}
    BY <1>1, <1>7 DEF Merging, Merged
  <1>9. MergeFrontier(fs, leaf).frontiers = new /\ MergeFrontier(fs, leaf).nodes = m.nodes
    <2> DEFINE f == Append(SubSeq(fs, 1, merge[n].kept), merge[n].node)
               v == merge[n].nodes
    <2>1. MergeFrontier(fs, leaf) = [frontiers |-> f, nodes |-> v]
      BY <1>3 DEF IsMerge
    <2>2. f = new /\ v = m.nodes
      OBVIOUS
    <2> HIDE DEF f, v, new, m, leaf
    <2> QED
      BY <2>1, <2>2
  <1> HIDE DEF m, node, k
  <1>10. IsList(base) /\ Len(base) = k /\ \A i \in 1..k : base[i] = fs[i]
    BY <1>1, <1>8, SubSeqIs DEF k
  <1> HIDE DEF base
  <1>11. IsList(new) /\ Len(new) = k + 1 /\ (\A i \in 1..k : new[i] = fs[i]) /\ new[k + 1] = node
    BY <1>10, AppendIs
  <1> HIDE DEF new
  <1>12. Staircase(new)
    <2> SUFFICES ASSUME NEW i \in 1..(k + 1)
                 PROVE  /\ IsNode(new[i])
                        /\ NodeStart(new[i]) = IF i = 1 THEN 0 ELSE NodeEnd(new[i - 1])
                        /\ i > 1 => new[i].level < new[i - 1].level
      BY <1>11 DEF Staircase
    <2>1. CASE i = k + 1
      <3>1. i = 1 <=> k = 0
        BY <1>8, <2>1
      <3>2. k > 0 => i - 1 = k /\ new[i - 1] = fs[k]
        BY <1>8, <1>11, <2>1
      <3> QED
        BY <1>1, <1>8, <1>11, <2>1, <3>1, <3>2
    <2>2. CASE i # k + 1
      <3>1. i \in 1..k /\ i \in 1..n /\ (i > 1 => i - 1 \in 1..k)
        BY <1>1, <1>8, <2>2
      <3>2. new[i] = fs[i] /\ (i > 1 => new[i - 1] = fs[i - 1])
        BY <1>11, <3>1
      <3>3. /\ IsNode(fs[i])
            /\ NodeStart(fs[i]) = IF i = 1 THEN 0 ELSE NodeEnd(fs[i - 1])
            /\ i > 1 => fs[i].level < fs[i - 1].level
        BY <1>1, <3>1 DEF Staircase
      <3>4. i # 1 => i > 1
        BY <3>1
      <3> QED
        BY <3>2, <3>3, <3>4
    <2> QED
      BY <2>1, <2>2
  <1>13. ASSUME NEW i \in 1..(k + 1)
         PROVE  new[i].hash = RootOver(leaves, NodeStart(new[i]), Pow2[new[i].level])
    <2>1. CASE i = k + 1
      <3>1. node.hash = RootOver(leaves, NodeStart(node), N - NodeStart(node))
        BY <1>8, LastNodeHash
      <3>2. N - NodeStart(node) = Pow2[node.level]
        BY <1>8, NodeSpan
      <3> QED
        BY <1>11, <2>1, <3>1, <3>2
    <2>2. CASE i # k + 1
      <3>1. i \in 1..k /\ i \in 1..n
        BY <1>1, <1>8, <2>2
      <3> QED
        BY <1>11, <3>1 DEF OverPrefix
    <2> QED
      BY <2>1, <2>2
  <1>14. k + 1 > 0 /\ k + 1 # 0
    BY <1>1, <1>8
  <1>15. IsFrontier(new, leaves)
    BY <1>8, <1>11, <1>12, <1>13, <1>14 DEF IsFrontier
  <1> QED
    BY <1>8, <1>9, <1>11, <1>14, <1>15

-----------------------------------------------------------------------------
(* materializeRootPath *)

IsRootPath(path, fs, nodes) ==
    /\ path[0] = [root |-> fs[Len(fs)], nodes |-> nodes]
    /\ \A n \in 1..(Len(fs) - 1) : path[n] = PairStep(fs[Len(fs) - n], path[n - 1])
    /\ MaterializeRootPath(fs, nodes) = path[Len(fs) - 1]

LEMMA MaterializeRootPathDef ==
    ASSUME NEW fs, Len(fs) \in Nat, Len(fs) > 0, NEW nodes
    PROVE  \E path : IsRootPath(path, fs, nodes)
  <1> DEFINE last == Len(fs)
             top == last - 1
             start == [root |-> fs[last], nodes |-> nodes]
             Step(below, i) == PairStep(fs[last - i], below)
             Is(f, k) == f = [i \in 0..k |-> IF i = 0 THEN start ELSE Step(f[i - 1], i)]
             T == {k \in Nat : \E f : Is(f, k)}
  <1>0. top \in Nat
    OBVIOUS
  <1> HIDE DEF start, Step, top, last
  <1>1. 0 \in T
    <2> DEFINE g == [i \in 0..0 |-> start]
    <2>1. Is(g, 0)
      OBVIOUS
    <2> HIDE DEF Is, g
    <2> QED
      BY <2>1
  <1>2. ASSUME NEW k \in Nat, k \in T
        PROVE  k + 1 \in T
    <2>1. PICK f : Is(f, k)
      BY <1>2
    <2> DEFINE g == [i \in 0..(k + 1) |-> IF i = k + 1 THEN Step(f[k], k + 1) ELSE f[i]]
    <2>2. ASSUME NEW i \in 0..(k + 1)
          PROVE  g[i] = IF i = 0 THEN start ELSE Step(g[i - 1], i)
      <3>1. CASE i = k + 1
        BY <3>1
      <3>2. CASE i # k + 1
        <4>1. i \in 0..k /\ (i # 0 => i - 1 \in 0..(k + 1) /\ i - 1 # k + 1)
          BY <3>2
        <4>2. f[i] = IF i = 0 THEN start ELSE Step(f[i - 1], i)
          BY <2>1, <4>1
        <4>3. g[i] = f[i] /\ (i # 0 => g[i - 1] = f[i - 1])
          BY <3>2, <4>1
        <4> HIDE DEF g
        <4> QED
          BY <4>2, <4>3
      <3> QED
        BY <3>1, <3>2
    <2>3. Is(g, k + 1)
      BY <2>2
    <2> HIDE DEF g, Is
    <2> QED
      BY <2>3
  <1>3. \E f : Is(f, top)
    <2> HIDE DEF T
    <2>1. top \in T
      BY <1>0, <1>1, <1>2, NatInduct
    <2> QED
      BY <2>1 DEF T
  <1> DEFINE path == CHOOSE f : Is(f, top)
  <1>4. Is(path, top)
    BY <1>3
  <1>5. MaterializeRootPath(fs, nodes) = path[top]
    BY DEF MaterializeRootPath, start, Step, top, last
  <1> HIDE DEF path
  <1>6. path[0] = start /\ \A i \in 1..top : path[i] = Step(path[i - 1], i)
    BY <1>0, <1>4
  <1>7. IsRootPath(path, fs, nodes)
    BY <1>5, <1>6 DEF start, Step, top, last, IsRootPath
  <1> QED
    BY <1>7

\* A node that covers the last leaves, promoted to a level where it still is the last.
LEMMA PromotedIs ==
    ASSUME NEW leaves, Len(leaves) \in Nat, NEW node, IsNode(node), node = LastNode(leaves, node.level),
           NodeStart(node) < Len(leaves), Len(leaves) <= NodeEnd(node),
           NEW l \in Nat, node.level <= l, NEW q \in Nat, q * Pow2[l] = NodeStart(node)
    PROVE  Node(l, node.index \div Pow2[l - node.level], node.hash) = LastNode(leaves, l)
  <1> DEFINE n == Len(leaves)
             k == node.level
             p == Pow2[l]
             s == NodeStart(node)
             x == node.index
  <1>1. k \in Nat /\ s \in Nat /\ NodeEnd(node) = s + Pow2[k] /\ n \in Nat /\ s < n
    BY NodeSpan
  <1>2. p \in Nat /\ Pow2[k] \in Nat /\ Pow2[k] <= p
    BY <1>1, Pow2LE, Pow2Step
  <1>3. n <= s + p
    BY <1>1, <1>2
  <1>4. node.hash = RootOver(leaves, s, n - s) /\ x = Ancestor(n - 1, k)
    BY LastNodeHash
  <1>5. LastNode(leaves, l) = Node(l, q, RootOver(leaves, s, n - s)) /\ Ancestor(n - 1, l) = q
    <2>1. q * Pow2[l] < Len(leaves) /\ Len(leaves) <= q * Pow2[l] + Pow2[l]
      BY <1>1, <1>3
    <2>2. n - 1 \in Nat /\ q * Pow2[l] <= n - 1 /\ n - 1 < q * Pow2[l] + Pow2[l]
      BY <1>1, <1>2, <1>3
    <2> HIDE DEF s
    <2>3. Ancestor(n - 1, l) = q
      <3> HIDE DEF n
      <3> QED
        BY <2>2, AncestorIs
    <2>4. LastNode(leaves, l) = Node(l, q, RootOver(leaves, q * Pow2[l], n - q * Pow2[l]))
      BY <2>1, LastNodeIs
    <2> QED
      BY <2>3, <2>4 DEF s
  <1>6. x \div Pow2[l - k] = q
    <2>1. n - 1 \in Nat /\ l - k \in Nat /\ k + (l - k) = l
      BY <1>1
    <2> HIDE DEF n, k, x
    <2>2. Ancestor(Ancestor(n - 1, k), l - k) = q
      BY <1>1, <1>5, <2>1, AncestorAdd
    <2> QED
      BY <1>4, <2>2 DEF Ancestor
  <1> QED
    BY <1>4, <1>5, <1>6

\* Between two rounds of materializeRootPath: the root over the leaves from the
\* frontier's node i on, as the ancestor of the last leaf, and the path up to it.
Materializing(path, i, fs, leaves) ==
    /\ IsNode(path.root) /\ path.root = LastNode(leaves, path.root.level)
    /\ NodeStart(path.root) = NodeStart(fs[i])
    /\ Len(leaves) <= NodeEnd(path.root)
    /\ path.root.level > 0 => Pow2[path.root.level - 1] < Len(leaves) - NodeStart(path.root)
    /\ i > 1 => path.root.level <= fs[i - 1].level
    /\ path.nodes = {LastNode(leaves, l) : l \in 0..path.root.level}

LEMMA PairStepKeeps ==
    ASSUME NEW leaves, Len(leaves) \in Nat, NEW fs, IsFrontier(fs, leaves), NEW i \in 2..Len(fs),
           NEW path, Materializing(path, i, fs, leaves)
    PROVE  Materializing(PairStep(fs[i - 1], path), i - 1, fs, leaves)
  <1> DEFINE left == fs[i - 1]
             right == path.root
             n == Len(leaves)
             k == left.level
             promoted == {Node(l, right.index \div Pow2[l - right.level], right.hash) :
                             l \in (right.level + 1)..left.level}
             up == Node(left.level + 1, left.index \div 2, HashPair(left.hash, right.hash))
  <1>1. /\ Staircase(fs) /\ Len(fs) \in Nat /\ i - 1 \in 1..Len(fs) /\ i \in 1..Len(fs) /\ Len(fs) \in 1..Len(fs)
        /\ i > 1 /\ i # 1
    BY DEF IsFrontier, Staircase, IsList
  <1>2. IsNode(left) /\ IsNode(fs[i]) /\ IsNode(right) /\ left.hash = RootOver(leaves, NodeStart(left), Pow2[left.level])
    BY <1>1 DEF IsFrontier, Staircase, Materializing
  <1>3. k \in Nat /\ right.level \in Nat /\ right.level <= k /\ n \in Nat
    BY <1>1, <1>2 DEF Materializing, IsNode
  <1>4. NodeStart(right) = NodeEnd(left)
    BY <1>1 DEF Materializing, Staircase
  <1>5. NodeEnd(left) < n
    <2>1. NodeStart(fs[i]) < NodeEnd(fs[i]) /\ NodeEnd(fs[i]) <= NodeEnd(fs[Len(fs)]) /\ NodeEnd(fs[Len(fs)]) = n
      BY <1>1, <1>2, NodeSpan, StaircaseEnds DEF IsFrontier
    <2>2. NodeStart(fs[i]) = NodeEnd(left)
      BY <1>1 DEF Staircase
    <2>3. NodeStart(fs[i]) \in Nat /\ NodeEnd(fs[i]) \in Nat
      BY <1>2, NodeSpan
    <2> QED
      BY <1>3, <2>1, <2>2, <2>3
  <1>6. NodeEnd(right) = NodeEnd(left) + Pow2[right.level] /\ n <= NodeEnd(right)
    BY <1>2, <1>4, NodeSpan DEF Materializing
  <1>7. Pow2[right.level] <= Pow2[k] /\ Pow2[right.level] \in Nat /\ Pow2[k] \in Nat /\ NodeEnd(left) \in Nat
    <2> HIDE DEF left, right, k
    <2> QED
      BY <1>2, <1>3, Pow2LE, Pow2Step, NodeSpan
  <1>8. n <= NodeEnd(left) + Pow2[k]
    BY <1>3, <1>6, <1>7
  <1>9. right.hash = RootOver(leaves, NodeEnd(left), n - NodeEnd(left))
    BY <1>2, <1>4, LastNodeHash DEF Materializing
  <1>10. left.index % 2 = 0
    BY <1>1, StaircaseEven
  <1>11. /\ up = LastNode(leaves, k + 1) /\ IsNode(up)
         /\ NodeStart(up) = NodeStart(left)
         /\ NodeEnd(up) = NodeEnd(left) + Pow2[k]
    <2> HIDE DEF left, right
    <2> QED
      BY <1>2, <1>5, <1>8, <1>9, <1>10, PairUp
  <1>12. up.level = k + 1
    BY DEF Node
  <1>13. promoted = {LastNode(leaves, l) : l \in (right.level + 1)..k}
    <2> SUFFICES ASSUME NEW l \in (right.level + 1)..k
                 PROVE  Node(l, right.index \div Pow2[l - right.level], right.hash) = LastNode(leaves, l)
      OBVIOUS
    <2> DEFINE c == Pow2[k - l]
               x == left.index
               q == (x + 1) * c
    <2>1. l \in Nat /\ l <= k /\ right.level <= l
      BY <1>3
    <2>2. k - l \in Nat /\ Pow2[k] = c * Pow2[l] /\ c \in Nat /\ Pow2[l] \in Nat
      <3>1. k - l \in Nat /\ Pow2[k] = c * Pow2[l]
        <4> HIDE DEF k
        <4> QED
          BY <1>3, <2>1, Pow2Divides
      <3> QED
        BY <2>1, <3>1, Pow2Step
    <2>3. NodeEnd(left) = x * Pow2[k] + Pow2[k] /\ x \in Nat
      BY <1>2 DEF NodeEnd, NodeStart, IsNode
    <2>4. q \in Nat /\ q * Pow2[l] = NodeStart(right)
      <3> DEFINE p == Pow2[l]
      <3>1. p \in Nat /\ NodeEnd(left) = x * (c * p) + c * p
        BY <2>2, <2>3
      <3> HIDE DEF p, c, x
      <3>2. x * (c * p) + c * p = ((x + 1) * c) * p /\ (x + 1) * c \in Nat
        BY <2>2, <2>3, <3>1
      <3> QED
        BY <1>4, <3>1, <3>2 DEF p
    <2> HIDE DEF q
    <2>5. right = LastNode(leaves, right.level) /\ NodeStart(right) < Len(leaves) /\ Len(leaves) <= NodeEnd(right)
      BY <1>4, <1>5, <1>6 DEF Materializing
    <2> HIDE DEF right
    <2> QED
      BY <1>2, <2>1, <2>4, <2>5, PromotedIs
  <1> DEFINE next == [root |-> up, nodes |-> path.nodes \cup promoted \cup {up}]
  <1>14. PairStep(left, path) = next
    BY DEF PairStep
  <1>15. path.nodes \cup promoted \cup {up} = {LastNode(leaves, l) : l \in 0..up.level}
    <2>1. path.nodes = {LastNode(leaves, l) : l \in 0..right.level}
      BY DEF Materializing
    <2> HIDE DEF promoted, up, right, k
    <2>2. 0..up.level = 0..right.level \cup (right.level + 1)..k \cup {k + 1}
      BY <1>3, <1>12
    <2> QED
      BY <1>11, <1>13, <2>1, <2>2
  <1>16. i - 1 > 1 => up.level <= fs[(i - 1) - 1].level
    <2> SUFFICES ASSUME i - 1 > 1
                 PROVE  k + 1 <= fs[(i - 1) - 1].level
      BY <1>12
    <2>1. (i - 1) - 1 \in 1..Len(fs)
      BY <1>1
    <2>2. left.level < fs[(i - 1) - 1].level /\ IsNode(fs[(i - 1) - 1])
      BY <1>1, <2>1 DEF Staircase
    <2>3. fs[(i - 1) - 1].level \in Nat
      BY <2>2 DEF IsNode
    <2> QED
      BY <1>3, <2>2, <2>3
  <1>17. up.level - 1 = k /\ NodeEnd(left) = NodeStart(left) + Pow2[k] /\ NodeStart(left) \in Nat
    <2>1. up.level - 1 = k
      BY <1>3, <1>12
    <2> QED
      BY <1>2, <2>1, NodeSpan
  <1>18. next.root = up /\ next.nodes = path.nodes \cup promoted \cup {up}
    OBVIOUS
  <1>19. Pow2[up.level - 1] < n - NodeStart(up) /\ n <= NodeEnd(up)
    BY <1>3, <1>5, <1>7, <1>8, <1>11, <1>17, SMTT(30)
  <1> HIDE DEF next, up, promoted, left
  <1>20. Materializing(next, i - 1, fs, leaves)
    BY <1>11, <1>12, <1>15, <1>16, <1>18, <1>19 DEF Materializing, left
  <1> QED
    BY <1>14, <1>20 DEF left

LEMMA HeightIs ==
    ASSUME NEW n \in Nat, n > 0, NEW h \in Nat, n <= Pow2[h], h > 0 => Pow2[h - 1] < n
    PROVE  RefHeight(n) = h
  <1>1. n - 1 \in Nat /\ Pow2[h] \in Nat /\ Pow2[0] = 1
    BY Pow2Step
  <1>2. h > 0 => h - 1 \in Nat /\ Pow2[h - 1] \in Nat /\ Pow2[h - 1] > 0 /\ Pow2[h - 1] < n
    <2> SUFFICES ASSUME h > 0
                 PROVE  h - 1 \in Nat /\ Pow2[h - 1] \in Nat /\ Pow2[h - 1] > 0 /\ Pow2[h - 1] < n
      OBVIOUS
    <2>1. h - 1 \in Nat
      OBVIOUS
    <2> QED
      BY <2>1, Pow2Step
  <1>3. HasBits(n - 1, h)
    <2>1. n - 1 < Pow2[h]
      BY <1>1
    <2>2. n - 1 = 0 => h = 0
      BY <1>2
    <2>3. n - 1 > 0 => h > 0 /\ Pow2[h - 1] <= n - 1
      <3> SUFFICES ASSUME n - 1 > 0
                   PROVE  h > 0 /\ Pow2[h - 1] <= n - 1
        OBVIOUS
      <3>1. h # 0
        BY <1>1
      <3> QED
        BY <1>2, <3>1
    <2> QED
      BY <2>1, <2>2, <2>3 DEF HasBits
  <1>4. HasBits(n - 1, BitsLen[n - 1])
    BY <1>1, BitsLenHasBits
  <1> DEFINE b == BitsLen[n - 1]
  <1> HIDE DEF b
  <1>5. b = h
    BY <1>1, <1>3, <1>4, HasBitsUnique DEF b
  <1> QED
    BY <1>5, RefHeightIs DEF b

\* materializeRootPath returns the root over all leaves and the path of the last leaf.
LEMMA MaterializeRootPathIs ==
    ASSUME NEW leaves, IsList(leaves), NEW fs, IsFrontier(fs, leaves), Len(fs) > 0,
           fs[Len(fs)] = LastNode(leaves, fs[Len(fs)].level),
           NEW nodes, nodes = {LastNode(leaves, l) : l \in 0..fs[Len(fs)].level}
    PROVE  LET path == MaterializeRootPath(fs, nodes)
           IN /\ path.root.hash = MerkleRoot(leaves)
              /\ path.root.level = RefHeight(Len(leaves))
              /\ path.nodes = {LastNode(leaves, l) : l \in 0..RefHeight(Len(leaves))}
  <1> DEFINE last == Len(fs)
             N == Len(leaves)
  <1>1. last \in Nat /\ N \in Nat /\ Staircase(fs) /\ last \in 1..last /\ IsNode(fs[last])
    BY DEF IsFrontier, Staircase, IsList
  <1>2. PICK path : IsRootPath(path, fs, nodes)
    BY <1>1, MaterializeRootPathDef
  <1>3. Materializing(path[0], last, fs, leaves)
    <2> DEFINE node == fs[last]
               k == node.level
    <2>1. NodeEnd(node) = N
      BY <1>1 DEF IsFrontier
    <2>2. last > 1 => k <= fs[last - 1].level
      <3> SUFFICES ASSUME last > 1
                   PROVE  k <= fs[last - 1].level
        OBVIOUS
      <3>1. last - 1 \in 1..last
        BY <1>1
      <3>2. k < fs[last - 1].level /\ IsNode(fs[last - 1])
        BY <1>1, <3>1 DEF Staircase
      <3>3. k \in Nat /\ fs[last - 1].level \in Nat
        BY <1>1, <3>2 DEF IsNode
      <3> QED
        BY <3>2, <3>3
    <2>3. k > 0 => Pow2[k - 1] < N - NodeStart(node)
      <3> SUFFICES ASSUME k > 0
                   PROVE  Pow2[k - 1] < N - NodeStart(node)
        OBVIOUS
      <3>1. N - NodeStart(node) = Pow2[k] /\ k \in Nat
        BY <1>1, <2>1, NodeSpan
      <3> HIDE DEF k
      <3>2. k - 1 \in Nat /\ (k - 1) + 1 = k
        BY <3>1
      <3>3. Pow2[k] = 2 * Pow2[k - 1] /\ Pow2[k - 1] > 0 /\ Pow2[k - 1] \in Nat
        BY <3>2, Pow2Step
      <3> QED
        BY <3>1, <3>3
    <2>4. path[0].root = node /\ path[0].nodes = nodes
      BY <1>2 DEF IsRootPath
    <2>5. N <= NodeEnd(node)
      BY <1>1, <2>1
    <2> QED
      BY <1>1, <2>2, <2>3, <2>4, <2>5 DEF Materializing
  <1> DEFINE T == {i \in Nat : i < last => Materializing(path[i], last - i, fs, leaves)}
  <1>4. 0 \in T
    BY <1>1, <1>3
  <1>5. ASSUME NEW i \in Nat, i \in T
        PROVE  i + 1 \in T
    <2> SUFFICES ASSUME i + 1 < last
                 PROVE  Materializing(path[i + 1], last - (i + 1), fs, leaves)
      OBVIOUS
    <2>1. last - i \in 2..last /\ (last - i) - 1 = last - (i + 1) /\ i + 1 \in 1..(last - 1) /\ (i + 1) - 1 = i
      BY <1>1
    <2>2. Materializing(path[i], last - i, fs, leaves)
      BY <1>1, <1>5
    <2>3. path[i + 1] = PairStep(fs[last - (i + 1)], path[i])
      BY <1>2, <2>1 DEF IsRootPath
    <2> DEFINE j == last - i
    <2>4. j \in 2..Len(fs) /\ Materializing(path[i], j, fs, leaves) /\ Len(leaves) \in Nat
      BY <1>1, <2>1, <2>2
    <2> HIDE DEF j
    <2>5. Materializing(PairStep(fs[j - 1], path[i]), j - 1, fs, leaves)
      BY <2>4, PairStepKeeps
    <2> QED
      BY <2>1, <2>3, <2>5 DEF j
  <1> DEFINE end == path[last - 1]
             root == end.root
  <1>6. Materializing(end, 1, fs, leaves)
    <2>1. last - 1 \in Nat /\ last - 1 < last /\ last - (last - 1) = 1
      BY <1>1
    <2>2. last - 1 \in T
      <3> HIDE DEF T
      <3> QED
        BY <1>4, <1>5, <2>1, NatInduct
    <2> QED
      BY <2>1, <2>2
  <1>7. NodeStart(root) = 0
    BY <1>1, <1>6 DEF Materializing, Staircase
  <1>8. IsNode(root) /\ root = LastNode(leaves, root.level) /\ N <= NodeEnd(root)
        /\ (root.level > 0 => Pow2[root.level - 1] < N - 0)
        /\ end.nodes = {LastNode(leaves, l) : l \in 0..root.level}
    BY <1>6, <1>7 DEF Materializing
  <1>9. root.hash = MerkleRoot(leaves)
    <2>1. root.hash = RootOver(leaves, 0, N - 0)
      BY <1>7, <1>8, LastNodeHash
    <2>2. N - 0 = N
      BY <1>1
    <2> QED
      BY <2>1, <2>2 DEF MerkleRoot
  <1>10. N > 0
    <2>1. N = NodeEnd(fs[last])
      BY <1>1 DEF IsFrontier
    <2> QED
      BY <1>1, <2>1, NodeSpan
  <1>11. RefHeight(N) = root.level
    <2> DEFINE h == root.level
    <2>1. h \in Nat /\ N <= Pow2[h] /\ (h > 0 => Pow2[h - 1] < N)
      <3>1. h \in Nat /\ NodeEnd(root) = 0 + Pow2[h] /\ Pow2[h] \in Nat
        BY <1>7, <1>8, NodeSpan
      <3>2. NodeEnd(root) = Pow2[h] /\ N - 0 = N
        BY <1>1, <3>1
      <3> QED
        BY <1>8, <3>1, <3>2
    <2> HIDE DEF h
    <2> QED
      BY <1>1, <1>10, <2>1, HeightIs DEF h
  <1>12. MaterializeRootPath(fs, nodes) = end
    BY <1>2 DEF IsRootPath
  <1> HIDE DEF end
  <1> QED
    BY <1>8, <1>9, <1>11, <1>12

-----------------------------------------------------------------------------
(* ShardTree.Append *)

\* The nodes that an append carries: the last leaf and its ancestors.
LastPath(leaves) ==
    {<<l, Ancestor(Len(leaves) - 1, l),
       RootOver(leaves, Ancestor(Len(leaves) - 1, l) * Pow2[l],
                Len(leaves) - Ancestor(Len(leaves) - 1, l) * Pow2[l])>> : l \in 0..RefHeight(Len(leaves))}

\* A shard's tree after an append is the reference tree over all leaves, with a
\* frontier over them; what has to be persisted is the path of the new leaf.
LEMMA ShardAppendIs ==
    ASSUME NEW leaves, IsList(leaves), NEW hash, NEW tree, tree.count = Len(leaves),
           IsFrontier(tree.frontiers, leaves)
    PROVE  LET new == Append(leaves, hash)
               result == ShardAppend(tree, hash)
           IN /\ result.tree.count = Len(new)
              /\ result.tree.height = RefHeight(Len(new))
              /\ result.tree.root = MerkleRoot(new)
              /\ IsFrontier(result.tree.frontiers, new)
              /\ result.nodes = LastPath(new)
  <1> DEFINE new == Append(leaves, hash)
             n == Len(leaves)
             fs == tree.frontiers
  <1>1. n \in Nat /\ IsList(new) /\ Len(new) = n + 1 /\ (\A i \in 1..n : new[i] = leaves[i]) /\ new[n + 1] = hash
    BY AppendIs DEF IsList
  <1> HIDE DEF new
  <1>2. OverPrefix(fs, new)
    <2>1. Staircase(fs) /\ Len(fs) \in Nat /\ n = IF Len(fs) = 0 THEN 0 ELSE NodeEnd(fs[Len(fs)])
      BY DEF IsFrontier, Staircase, IsList
    <2>2. ASSUME NEW i \in 1..Len(fs)
          PROVE  fs[i].hash = RootOver(new, NodeStart(fs[i]), Pow2[fs[i].level])
      <3> DEFINE s == NodeStart(fs[i])
                 p == Pow2[fs[i].level]
      <3>1. IsNode(fs[i]) /\ Len(fs) # 0 /\ Len(fs) \in 1..Len(fs)
        BY <2>1 DEF Staircase
      <3>2. s \in Nat /\ p \in Nat /\ p > 0 /\ NodeEnd(fs[i]) = s + p
        BY <3>1, NodeSpan
      <3>3. s + p <= n
        BY <2>1, <3>1, <3>2, StaircaseEnds
      <3>4. fs[i].hash = RootOver(leaves, s, p)
        BY DEF IsFrontier
      <3> HIDE DEF s, p
      <3>5. p \in 1..n /\ s \in 0..(n - p) /\ n \in 0..n /\ n <= n + 1
        BY <1>1, <3>2, <3>3
      <3>6. \A k \in 1..n : \A j \in 0..(n - k) : RootOver(leaves, j, k) = RootOver(new, j, k)
        <4>1. Len(leaves) \in Nat /\ Len(new) \in Nat /\ Len(leaves) \in 0..Len(leaves) /\ Len(leaves) <= Len(new)
          BY <1>1
        <4>2. \A j \in 1..Len(leaves) : leaves[j] = new[j]
          BY <1>1
        <4> QED
          BY <4>1, <4>2, RootOverPrefix
      <3>7. RootOver(leaves, s, p) = RootOver(new, s, p)
        BY <3>5, <3>6
      <3> QED
        BY <3>4, <3>7 DEF s, p
    <2>3. Len(new) = 1 + n
      BY <1>1
    <2> QED
      BY <2>1, <2>2, <2>3 DEF OverPrefix
  <1> DEFINE leaf == Node(0, tree.count, hash)
             merged == MergeFrontier(fs, leaf)
             path == MaterializeRootPath(merged.frontiers, merged.nodes)
  <1>3. leaf = Node(0, Len(new) - 1, new[Len(new)])
    BY <1>1
  <1> DEFINE last == merged.frontiers[Len(merged.frontiers)]
  <1>4. /\ IsFrontier(merged.frontiers, new) /\ Len(merged.frontiers) > 0
        /\ last = LastNode(new, last.level)
        /\ merged.nodes = {LastNode(new, l) : l \in 0..last.level}
    <2> HIDE DEF leaf, fs
    <2>1. merged = MergeFrontier(fs, Node(0, Len(new) - 1, new[Len(new)]))
      BY <1>3
    <2> HIDE DEF merged
    <2> QED
      BY <1>1, <1>2, <2>1, MergeFrontierIs
  <1> HIDE DEF merged
  <1>5. /\ path.root.hash = MerkleRoot(new)
        /\ path.root.level = RefHeight(Len(new))
        /\ path.nodes = {LastNode(new, l) : l \in 0..RefHeight(Len(new))}
    <2>1. IsList(new)
      BY <1>1
    <2> HIDE DEF fs, leaf, path
    <2> DEFINE result == MaterializeRootPath(merged.frontiers, merged.nodes)
    <2>2. /\ result.root.hash = MerkleRoot(new)
          /\ result.root.level = RefHeight(Len(new))
          /\ result.nodes = {LastNode(new, l) : l \in 0..RefHeight(Len(new))}
      <3> DEFINE f == merged.frontiers
                 nodes == merged.nodes
      <3>1. /\ IsFrontier(f, new) /\ Len(f) > 0 /\ f[Len(f)] = LastNode(new, f[Len(f)].level)
            /\ nodes = {LastNode(new, l) : l \in 0..f[Len(f)].level}
        BY <1>4
      <3> HIDE DEF f, nodes, last
      <3>2. LET r == MaterializeRootPath(f, nodes)
            IN /\ r.root.hash = MerkleRoot(new)
               /\ r.root.level = RefHeight(Len(new))
               /\ r.nodes = {LastNode(new, l) : l \in 0..RefHeight(Len(new))}
        BY <2>1, <3>1, MaterializeRootPathIs
      <3> QED
        BY <3>2 DEF f, nodes
    <2> QED
      BY <2>2 DEF path
  <1> HIDE DEF path
  <1> DEFINE nodes == {<<m.level, m.index, m.hash>> : m \in path.nodes}
             grown == [count |-> tree.count + 1, height |-> path.root.level,
                       root |-> path.root.hash, frontiers |-> merged.frontiers]
  <1>6. nodes = LastPath(new)
    <2>1. nodes = {<<LastNode(new, l).level, LastNode(new, l).index, LastNode(new, l).hash>> : l \in 0..RefHeight(Len(new))}
      BY <1>5
    <2>2. \A l : LET a == Ancestor(Len(new) - 1, l)
                 IN <<LastNode(new, l).level, LastNode(new, l).index, LastNode(new, l).hash>> =
                       <<l, a, RootOver(new, a * Pow2[l], Len(new) - a * Pow2[l])>>
      BY DEF LastNode, Node
    <2> QED
      BY <2>1, <2>2 DEF LastPath
  <1> DEFINE result == ShardAppend(tree, hash)
  <1>7. result = [tree |-> grown, nodes |-> nodes]
    BY DEF ShardAppend, path, merged
  <1>8. grown.count = Len(new) /\ grown.height = RefHeight(Len(new)) /\ grown.root = MerkleRoot(new)
        /\ IsFrontier(grown.frontiers, new)
    <2> HIDE DEF last
    <2> QED
      BY <1>1, <1>4, <1>5
  <1> HIDE DEF grown, nodes, result
  <1>9. result.tree = grown /\ result.nodes = nodes
    BY <1>7
  <1> QED
    BY <1>6, <1>8, <1>9 DEF result, new

-----------------------------------------------------------------------------
(* What the tables hold after an update is persisted *)

Key(n) == <<n[1], n[2]>>
IsTable(t) == t = [k \in DOMAIN t |-> t[k]]

\* The last write of a node wins, when an update does not write a node twice.
LEMMA UpsertIs ==
    ASSUME NEW table, NEW nodes, \A m, n \in nodes : Key(m) = Key(n) => m[3] = n[3]
    PROVE  /\ IsTable(Upsert(table, nodes))
           /\ DOMAIN Upsert(table, nodes) = DOMAIN table \cup {Key(n) : n \in nodes}
           /\ \A n \in nodes : Upsert(table, nodes)[Key(n)] = n[3]
           /\ \A k \in DOMAIN table : k \notin {Key(n) : n \in nodes} => Upsert(table, nodes)[k] = table[k]
  <1> DEFINE keys == {Key(n) : n \in nodes}
             Pick(k) == CHOOSE n \in nodes : Key(n) = k
             t == [k \in DOMAIN table \cup keys |-> IF k \in keys THEN Pick(k)[3] ELSE table[k]]
  <1>1. Upsert(table, nodes) = t
    BY DEF Upsert, Key
  <1>2. ASSUME NEW n \in nodes
        PROVE  t[Key(n)] = n[3]
    <2>1. Key(n) \in keys
      OBVIOUS
    <2>2. Pick(Key(n)) \in nodes /\ Key(Pick(Key(n))) = Key(n)
      <3> HIDE DEF Key
      <3> QED
        OBVIOUS
    <2>3. Pick(Key(n))[3] = n[3]
      <3> HIDE DEF Pick
      <3> QED
        BY <2>2
    <2> HIDE DEF Pick, keys
    <2> QED
      BY <2>1, <2>3
  <1>3. \A k \in DOMAIN table : k \notin keys => t[k] = table[k]
    <2> HIDE DEF Pick, keys
    <2> QED
      OBVIOUS
  <1>4. DOMAIN t = DOMAIN table \cup keys /\ IsTable(t)
    <2> HIDE DEF Pick, keys
    <2> QED
      BY DEF IsTable
  <1> HIDE DEF t
  <1> QED
    BY <1>1, <1>2, <1>3, <1>4

RefKeys(n) == {k \in (0..RefHeight(n)) \X (0..(n - 1)) : k[2] * Pow2[k[1]] < n}

LEMMA RefNodesIs ==
    ASSUME NEW leaves
    PROVE  RefNodes(leaves) =
              [k \in RefKeys(Len(leaves)) |->
                 RootOver(leaves, k[2] * Pow2[k[1]], NodeSize(Len(leaves), k[1], k[2]))]
  BY DEF RefNodes, RefKeys, NodeSize

\* One more leaf adds the path of the new leaf to the keys, and takes none away.
LEMMA RefKeysGrow ==
    ASSUME NEW n \in Nat
    PROVE  LET path == {<<l, Ancestor(n, l)>> : l \in 0..RefHeight(n + 1)}
           IN /\ RefKeys(n + 1) = RefKeys(n) \cup path
              /\ \A k \in RefKeys(n + 1) : k \notin path => (k[2] + 1) * Pow2[k[1]] <= n
              /\ RefHeight(n + 1) \in Nat
  <1> DEFINE H == RefHeight(n + 1)
             G == RefHeight(n)
             path == {<<l, Ancestor(n, l)>> : l \in 0..H}
  <1>1. H \in Nat /\ n + 1 <= Pow2[H] /\ (H > 0 => Pow2[H - 1] < n + 1)
    <2>1. n + 1 \in Nat /\ n + 1 > 0 /\ (n + 1) - 1 = n
      OBVIOUS
    <2>2. H = BitsLen[n] /\ H \in Nat
      BY <2>1, RefHeightIs
    <2>3. HasBits(n, H)
      BY <2>2, BitsLenHasBits
    <2>4. H > 0 => n # 0
      BY <2>3 DEF HasBits
    <2>5. Pow2[H] \in Nat /\ (H > 0 => Pow2[H - 1] \in Nat)
      BY <2>2, Pow2Step
    <2> QED
      BY <2>2, <2>3, <2>4, <2>5 DEF HasBits
  <1>2. n > 0 => G \in Nat /\ n <= Pow2[G] /\ (G > 0 => Pow2[G - 1] < n) /\ G <= H
    <2> SUFFICES ASSUME n > 0
                 PROVE  G \in Nat /\ n <= Pow2[G] /\ (G > 0 => Pow2[G - 1] < n) /\ G <= H
      OBVIOUS
    <2>1. n - 1 \in Nat
      OBVIOUS
    <2>2. G = BitsLen[n - 1] /\ G \in Nat
      BY RefHeightIs
    <2>3. HasBits(n - 1, G)
      BY <2>1, <2>2, BitsLenHasBits
    <2>4. G > 0 => n - 1 # 0
      BY <2>3 DEF HasBits
    <2>5. Pow2[G] \in Nat /\ (G > 0 => G - 1 \in Nat /\ Pow2[G - 1] \in Nat)
      BY <2>2, Pow2Step
    <2>6. n <= Pow2[G] /\ (G > 0 => Pow2[G - 1] < n)
      BY <2>1, <2>2, <2>3, <2>4, <2>5 DEF HasBits
    <2> HIDE DEF G, H
    <2>7. G <= H
      <3> SUFFICES ASSUME H < G
                   PROVE  FALSE
        BY <1>1, <2>2
      <3>1. G > 0 /\ H <= G - 1
        BY <1>1, <2>2
      <3>2. Pow2[H] <= Pow2[G - 1] /\ Pow2[H] \in Nat
        BY <1>1, <2>5, <3>1, Pow2LE, Pow2Step
      <3> QED
        BY <1>1, <2>5, <2>6, <3>1, <3>2
    <2> QED
      BY <2>2, <2>6, <2>7
  <1>3. \A l \in 0..H : /\ l \in Nat /\ Pow2[l] \in Nat /\ Pow2[l] > 0 /\ Ancestor(n, l) \in Nat
                        /\ Ancestor(n, l) * Pow2[l] <= n /\ n < Ancestor(n, l) * Pow2[l] + Pow2[l]
                        /\ Ancestor(n, l) \in 0..n
    <2> SUFFICES ASSUME NEW l \in 0..H
                 PROVE  /\ l \in Nat /\ Pow2[l] \in Nat /\ Pow2[l] > 0 /\ Ancestor(n, l) \in Nat
                        /\ Ancestor(n, l) * Pow2[l] <= n /\ n < Ancestor(n, l) * Pow2[l] + Pow2[l]
                        /\ Ancestor(n, l) \in 0..n
      OBVIOUS
    <2>1. l \in Nat /\ Pow2[l] \in Nat /\ Pow2[l] > 0
      BY <1>1, Pow2Step
    <2> DEFINE a == Ancestor(n, l)
               p == Pow2[l]
    <2>2. a \in Nat /\ a * p <= n /\ n < a * p + p
      BY <2>1, DivIs DEF Ancestor
    <2> HIDE DEF a, p
    <2>3. p \in Nat /\ p > 0
      BY <2>1 DEF p
    <2>4. a <= a * p
      <3>1. 1 * a <= p * a /\ p * a = a * p
        BY <2>2, <2>3, MulMono
      <3> QED
        BY <2>2, <3>1
    <2>5. a \in 0..n
      <3>1. a * p \in Nat
        BY <2>2, <2>3
      <3> QED
        BY <2>2, <2>4, <3>1
    <2> QED
      BY <2>1, <2>2, <2>5 DEF a, p
  <1> HIDE DEF H, G
  <1>4. path \subseteq RefKeys(n + 1)
    <2> SUFFICES ASSUME NEW l \in 0..H
                 PROVE  <<l, Ancestor(n, l)>> \in RefKeys(n + 1)
      OBVIOUS
    <2> DEFINE a == Ancestor(n, l)
               s == a * Pow2[l]
    <2>1. a \in 0..((n + 1) - 1) /\ s < n + 1
      <3>1. a \in 0..n /\ s <= n /\ Pow2[l] \in Nat /\ a \in Nat
        BY <1>3
      <3>2. s \in Nat
        <4> HIDE DEF a
        <4> QED
          BY <3>1
      <3> HIDE DEF a, s
      <3> QED
        BY <3>1, <3>2
    <2> QED
      BY <2>1 DEF RefKeys, H
  <1>5. RefKeys(n) \subseteq RefKeys(n + 1)
    <2> SUFFICES ASSUME NEW k \in RefKeys(n)
                 PROVE  k \in RefKeys(n + 1)
      OBVIOUS
    <2>1. k \in (0..G) \X (0..(n - 1)) /\ k[2] * Pow2[k[1]] < n
      BY DEF RefKeys, G
    <2>2. n > 0
      BY <2>1
    <2>3. k \in (0..H) \X (0..((n + 1) - 1))
      BY <1>1, <1>2, <2>1, <2>2
    <2>4. k[2] * Pow2[k[1]] < n + 1
      <3> DEFINE p == Pow2[k[1]]
                 i == k[2]
      <3>1. p \in Nat /\ i \in Nat /\ i * p < n
        BY <1>1, <2>1, <2>3, Pow2Step
      <3> HIDE DEF p, i
      <3>2. i * p \in Nat
        BY <3>1
      <3>3. i * p < n + 1
        BY <3>1, <3>2
      <3> QED
        BY <3>3 DEF p, i
    <2> QED
      BY <2>3, <2>4 DEF RefKeys, H
  <1>6. ASSUME NEW k \in RefKeys(n + 1), k \notin path
        PROVE  k \in RefKeys(n) /\ (k[2] + 1) * Pow2[k[1]] <= n
    <2> DEFINE l == k[1]
               i == k[2]
               p == Pow2[l]
    <2>1. k = <<l, i>> /\ l \in 0..H /\ i \in Nat /\ l \in Nat /\ i * p < n + 1
      BY <1>1 DEF RefKeys, H
    <2>2. p \in Nat /\ p > 0 /\ i # Ancestor(n, l)
      BY <1>3, <1>6, <2>1
    <2> HIDE DEF l, i
    <2>3. i * p + p <= n
      <3> SUFFICES ASSUME n < i * p + p
                   PROVE  FALSE
        <4>1. i * p + p \in Nat
          <5> HIDE DEF p
          <5> QED
            BY <2>1, <2>2
        <4> HIDE DEF p
        <4> QED
          BY <2>1, <2>2, <4>1
      <3>1. i * p <= n
        <4>1. i * p \in Nat
          <5> HIDE DEF p
          <5> QED
            BY <2>1, <2>2
        <4> HIDE DEF p
        <4> QED
          BY <2>1, <4>1
      <3>2. Ancestor(n, l) = i
        BY <2>1, <3>1, AncestorIs
      <3> QED
        BY <2>2, <3>2
    <2>4. (i + 1) * p = i * p + p /\ i * p \in Nat
      <3> HIDE DEF p
      <3> QED
        BY <2>1, <2>2
    <2>5. p <= n /\ n > 0 /\ i * p < n
      <3> HIDE DEF p
      <3> QED
        BY <2>2, <2>3, <2>4
    <2>6. l \in 0..G
      <3> SUFFICES ASSUME G < l
                   PROVE  FALSE
        BY <1>2, <2>1, <2>5
      <3>1. 2 * Pow2[G] <= Pow2[l] /\ Pow2[G] \in Nat
        BY <1>2, <2>1, <2>5, Pow2Mono, Pow2Step
      <3> QED
        BY <1>2, <2>2, <2>5, <3>1
    <2>7. i \in 0..(n - 1)
      <3>1. 1 * i <= p * i /\ p * i = i * p
        <4> HIDE DEF p
        <4> QED
          BY <2>1, <2>2, MulMono
      <3> HIDE DEF p
      <3> QED
        BY <2>1, <2>4, <2>5, <3>1
    <2>8. k \in RefKeys(n)
      <3>1. k[1] = l /\ k[2] = i
        BY DEF l, i
      <3> QED
        BY <2>1, <2>5, <2>6, <2>7, <3>1 DEF RefKeys, G
    <2> QED
      BY <2>3, <2>4, <2>8 DEF l, i, p
  <1>7. RefKeys(n + 1) = RefKeys(n) \cup path
    <2> HIDE DEF path
    <2> QED
      BY <1>4, <1>5, <1>6
  <1> QED
    BY <1>1, <1>6, <1>7 DEF H

\* The path of the new leaf is all that a shard's table lacks.
LEMMA ShardTableIs ==
    ASSUME NEW leaves, IsList(leaves), NEW hash, NEW table,
           DOMAIN table = RefKeys(Len(leaves)),
           \A k \in DOMAIN table : table[k] = RefNodes(leaves)[k]
    PROVE  Upsert(table, LastPath(Append(leaves, hash))) = RefNodes(Append(leaves, hash))
  <1> DEFINE new == Append(leaves, hash)
             n == Len(leaves)
             H == RefHeight(n + 1)
             nodes == LastPath(new)
             path == {<<l, Ancestor(n, l)>> : l \in 0..H}
             Value(l) == RootOver(new, Ancestor(n, l) * Pow2[l], (n + 1) - Ancestor(n, l) * Pow2[l])
             result == Upsert(table, nodes)
             ref == RefNodes(new)
  <1>1. n \in Nat /\ IsList(new) /\ Len(new) = n + 1 /\ \A i \in 1..n : new[i] = leaves[i]
    BY AppendIs DEF IsList
  <1>2. nodes = {<<l, Ancestor(n, l), Value(l)>> : l \in 0..H}
    <2>1. Len(new) - 1 = n
      BY <1>1
    <2> HIDE DEF new, n
    <2> QED
      BY <1>1, <2>1 DEF LastPath
  <1> HIDE DEF new, nodes
  <1>3. /\ RefKeys(n + 1) = RefKeys(n) \cup path
        /\ \A k \in RefKeys(n + 1) : k \notin path => (k[2] + 1) * Pow2[k[1]] <= n
        /\ H \in Nat
    BY <1>1, RefKeysGrow
  <1>4. \A m \in nodes : \E l \in 0..H : m[1] = l /\ Key(m) = <<l, Ancestor(n, l)>> /\ m[3] = Value(l)
    <2> HIDE DEF H, n, Value
    <2> QED
      BY <1>2 DEF Key
  <1> DEFINE keys == {Key(m) : m \in nodes}
  <1>5. keys = path
    <2>1. ASSUME NEW l \in 0..H
          PROVE  <<l, Ancestor(n, l)>> \in keys
      <3> DEFINE m == <<l, Ancestor(n, l), Value(l)>>
      <3> HIDE DEF H, n, Value
      <3>1. m \in nodes
        BY <1>2
      <3>2. Key(m) = <<l, Ancestor(n, l)>>
        BY DEF Key
      <3> QED
        BY <3>1, <3>2
    <2>2. ASSUME NEW m \in nodes
          PROVE  Key(m) \in path
      <3> HIDE DEF H, n, Value
      <3> QED
        BY <1>4
    <2>3. path \subseteq keys
      <3> HIDE DEF keys, H, n
      <3> QED
        BY <2>1
    <2>4. keys \subseteq path
      <3> HIDE DEF path
      <3> QED
        BY <2>2
    <2> QED
      BY <2>3, <2>4
  <1>6. \A m, k \in nodes : Key(m) = Key(k) => m[3] = k[3]
    <2> SUFFICES ASSUME NEW m \in nodes, NEW k \in nodes, Key(m) = Key(k)
                 PROVE  m[3] = k[3]
      OBVIOUS
    <2>1. m[1] = k[1]
      BY DEF Key
    <2> HIDE DEF H, n, Value
    <2> QED
      BY <1>4, <2>1
  <1>7. /\ IsTable(result)
        /\ DOMAIN result = DOMAIN table \cup path
        /\ \A m \in nodes : result[Key(m)] = m[3]
        /\ \A k \in DOMAIN table : k \notin path => result[k] = table[k]
    <2>1. /\ IsTable(result)
          /\ DOMAIN result = DOMAIN table \cup keys
          /\ \A m \in nodes : result[Key(m)] = m[3]
          /\ \A k \in DOMAIN table : k \notin keys => result[k] = table[k]
      BY <1>6, UpsertIs
    <2> HIDE DEF path, keys, result
    <2> QED
      BY <1>5, <2>1
  <1>8. ref = [k \in RefKeys(n + 1) |-> RootOver(new, k[2] * Pow2[k[1]], NodeSize(n + 1, k[1], k[2]))]
    BY <1>1, RefNodesIs
  <1>9. DOMAIN ref = RefKeys(n + 1) /\ DOMAIN result = RefKeys(n + 1)
    BY <1>3, <1>7, <1>8
  <1> HIDE DEF result, ref
  <1>10. ASSUME NEW k \in RefKeys(n + 1)
         PROVE  result[k] = ref[k]
    <2>1. CASE k \in path
      <3>1. PICK l \in 0..H : k = <<l, Ancestor(n, l)>>
        BY <2>1
      <3> DEFINE a == Ancestor(n, l)
                 p == Pow2[l]
                 s == a * p
      <3>2. result[k] = Value(l)
        <4>1. <<l, a, Value(l)>> \in nodes
          <5> HIDE DEF H, Value
          <5> QED
            BY <1>2
        <4>2. Key(<<l, a, Value(l)>>) = k /\ <<l, a, Value(l)>>[3] = Value(l)
          <5> HIDE DEF Value
          <5> QED
            BY <3>1 DEF Key
        <4> HIDE DEF Value
        <4> QED
          BY <1>7, <4>1, <4>2
      <3>3. l \in Nat /\ p \in Nat /\ p > 0
        <4> HIDE DEF H
        <4>1. l \in Nat
          BY <1>3
        <4> QED
          BY <4>1, Pow2Step
      <3>4. a \in Nat /\ s <= n /\ n < s + p
        BY <1>1, <3>3, DivIs DEF Ancestor
      <3> HIDE DEF a, p
      <3>5. (a + 1) * p = s + p /\ s \in Nat
        BY <3>3, <3>4
      <3>6. NodeSize(n + 1, l, a) = (n + 1) - s
        <4>1. ~((a + 1) * p < n + 1)
          <5> HIDE DEF s
          <5> QED
            BY <1>1, <3>3, <3>4, <3>5
        <4> QED
          BY <4>1 DEF NodeSize, p
      <3>7. ref[k] = RootOver(new, s, (n + 1) - s)
        <4>1. k[1] = l /\ k[2] = a
          BY <3>1 DEF a
        <4> QED
          BY <1>8, <3>6, <4>1 DEF p
      <3> QED
        BY <3>2, <3>7 DEF a, p
    <2>2. CASE k \notin path
      <3> DEFINE i == k[2]
                 l == k[1]
                 p == Pow2[l]
                 s == i * p
      <3>1. k \in RefKeys(n) /\ (i + 1) * p <= n
        BY <1>3, <2>2
      <3>2. result[k] = table[k] /\ table[k] = RefNodes(leaves)[k]
        BY <1>7, <2>2, <3>1
      <3>3. i \in Nat /\ l \in Nat /\ p \in Nat /\ p > 0
        <4>1. i \in Nat /\ l \in Nat
          <5> HIDE DEF path
          <5> QED
            BY <1>1, <1>3 DEF RefKeys, H
        <4> QED
          BY <4>1, Pow2Step
      <3>4. RefNodes(leaves)[k] = RootOver(leaves, s, NodeSize(n, l, i))
        BY <3>1, RefNodesIs
      <3>5. ref[k] = RootOver(new, s, NodeSize(n + 1, l, i))
        BY <1>8
      <3> HIDE DEF i, l
      <3>6. (i + 1) * p = s + p /\ s \in Nat /\ s + p <= n
        <4> HIDE DEF p
        <4>1. (i + 1) * p = i * p + p /\ i * p \in Nat
          BY <3>3
        <4> QED
          BY <3>1, <4>1
      <3>7. NodeSize(n, l, i) = p /\ NodeSize(n + 1, l, i) = p
        <4>1. NodeSize(n, l, i) = IF s + p < n THEN p ELSE n - s
          BY <3>6 DEF NodeSize
        <4>2. NodeSize(n + 1, l, i) = IF s + p < n + 1 THEN p ELSE (n + 1) - s
          BY <3>6 DEF NodeSize
        <4> HIDE DEF s, p
        <4> QED
          BY <1>1, <3>3, <3>6, <4>1, <4>2
      <3>8. RootOver(leaves, s, p) = RootOver(new, s, p)
        <4>1. Len(leaves) \in Nat /\ Len(new) \in Nat /\ Len(leaves) \in 0..Len(leaves) /\ Len(leaves) <= Len(new)
          BY <1>1
        <4>2. \A j \in 1..Len(leaves) : leaves[j] = new[j]
          BY <1>1
        <4>3. \A c \in 1..n : \A j \in 0..(n - c) : RootOver(leaves, j, c) = RootOver(new, j, c)
          BY <4>1, <4>2, RootOverPrefix
        <4> HIDE DEF s, p, n
        <4>4. p \in 1..n /\ s \in 0..(n - p)
          BY <1>1, <3>3, <3>6
        <4> QED
          BY <4>3, <4>4
      <3> QED
        BY <3>2, <3>4, <3>5, <3>7, <3>8
    <2> QED
      BY <2>1, <2>2
  <1>11. IsTable(ref)
    BY <1>8 DEF IsTable
  <1>12. result = ref
    BY <1>7, <1>9, <1>10, <1>11 DEF IsTable
  <1> QED
    BY <1>12 DEF result, ref, nodes, new

-----------------------------------------------------------------------------
(* The forest over the leaves of its shards *)

RegionLeavesOf(leaves, r) ==
    [s \in 1..NumShards |->
        LET sh == <<r, s - 1>>
            n == Len(leaves[sh])
        IN <<"SHARD", sh, n, IF n = 0 THEN ZeroHash ELSE MerkleRoot(leaves[sh])>>]

GlobalLeavesOf(leaves) ==
    [r \in 1..NumRegions |-> <<"REGION", r - 1, NumShards, MerkleRoot(RegionLeavesOf(leaves, r - 1))>>]

ShardOver(tree, leaves) ==
    /\ IsList(leaves)
    /\ tree.count = Len(leaves)
    /\ tree.root = IF Len(leaves) = 0 THEN ZeroHash ELSE MerkleRoot(leaves)
    /\ Len(leaves) > 0 => tree.height = RefHeight(Len(leaves))
    /\ IsFrontier(tree.frontiers, leaves)

ForestOver(forest, leaves) ==
    /\ DOMAIN forest.shard = Shards /\ DOMAIN forest.region = Regions
    /\ \A sh \in Shards : ShardOver(forest.shard[sh], leaves[sh])
    /\ \A r \in Regions : forest.region[r] = RegionTree(RegionLeavesOf(leaves, r))
    /\ forest.global = RegionTree(GlobalLeavesOf(leaves))

LEMMA UpperLeaves ==
    ASSUME NEW leaves, NEW r
    PROVE  /\ NumShards \in Nat /\ NumShards > 0 /\ NumRegions \in Nat /\ NumRegions > 0
           /\ IsList(RegionLeavesOf(leaves, r)) /\ Len(RegionLeavesOf(leaves, r)) = NumShards
           /\ IsList(GlobalLeavesOf(leaves)) /\ Len(GlobalLeavesOf(leaves)) = NumRegions
  <1> DEFINE R == RegionLeavesOf(leaves, r)
             G == GlobalLeavesOf(leaves)
  <1>1. NumShards \in Nat /\ NumShards > 0 /\ NumRegions \in Nat /\ NumRegions > 0
    BY SizesAssumption
  <1>2. R = [s \in 1..NumShards |-> R[s]] /\ G = [s \in 1..NumRegions |-> G[s]]
    BY DEF RegionLeavesOf, GlobalLeavesOf
  <1> HIDE DEF R, G
  <1>3. IsList(R) /\ Len(R) = NumShards /\ IsList(G) /\ Len(G) = NumRegions
    BY <1>1, <1>2, ListIs
  <1> QED
    BY <1>1, <1>3 DEF R, G

LEMMA EmptyIs ==
    IsList(<<>>) /\ Len(<<>>) = 0 /\ ShardOver(EmptyShard, <<>>)
  <1>1. <<>> = [i \in 1..0 |-> <<>>[i]] /\ Len(<<>>) = 0
    OBVIOUS
  <1>2. IsList(<<>>)
    BY <1>1 DEF IsList
  <1>3. IsFrontier(<<>>, <<>>)
    BY <1>1, <1>2 DEF IsFrontier, Staircase
  <1> QED
    BY <1>1, <1>2, <1>3 DEF ShardOver, EmptyShard

\* NewHMF is the forest over no leaves.
LEMMA NewHMFIs ==
    ASSUME NEW leaves, \A sh \in Shards : leaves[sh] = <<>>
    PROVE  ForestOver(NewHMF, leaves)
  <1> DEFINE forest == NewHMF
             Row(r) == [s \in 1..NumShards |-> CommitShardRoot(<<r, s - 1>>, EmptyShard)]
  <1>1. /\ NumShards \in Nat /\ NumShards > 0 /\ NumRegions \in Nat /\ NumRegions > 0
    BY SizesAssumption
  <1>2. \A r \in Regions : NewRegion(r) = RegionTree(RegionLeavesOf(leaves, r))
    <2> SUFFICES ASSUME NEW r \in Regions
                 PROVE  Row(r) = RegionLeavesOf(leaves, r)
      BY DEF NewRegion
    <2>1. ASSUME NEW s \in 1..NumShards
          PROVE  LET sh == <<r, s - 1>>
                     n == Len(leaves[sh])
                 IN <<"SHARD", sh, n, IF n = 0 THEN ZeroHash ELSE MerkleRoot(leaves[sh])>> =
                       CommitShardRoot(sh, EmptyShard)
      <3>1. <<r, s - 1>> \in Shards
        BY <1>1 DEF Shards
      <3>2. Len(leaves[<<r, s - 1>>]) = 0
        BY <3>1, EmptyIs
      <3> QED
        BY <3>2 DEF CommitShardRoot, EmptyShard
    <2> QED
      BY <2>1 DEF RegionLeavesOf
  <1>3. \A r \in Regions : CommitRegionRoot(r, NewRegion(r)) =
                              <<"REGION", r, NumShards, MerkleRoot(RegionLeavesOf(leaves, r))>>
    <2> SUFFICES ASSUME NEW r \in Regions
                 PROVE  CommitRegionRoot(r, NewRegion(r)) = <<"REGION", r, NumShards, MerkleRoot(RegionLeavesOf(leaves, r))>>
      OBVIOUS
    <2> DEFINE R == RegionLeavesOf(leaves, r)
    <2>1. IsList(R) /\ Len(R) = NumShards
      BY UpperLeaves
    <2> HIDE DEF R
    <2>2. Root(RegionTree(R)) = MerkleRoot(R) /\ RegionTree(R)[1] = R
      BY <1>1, <2>1, RegionTreeNodes
    <2> QED
      BY <1>2, <2>1, <2>2 DEF CommitRegionRoot, R
  <1>4. forest.global = RegionTree(GlobalLeavesOf(leaves))
    <2> DEFINE A == [r \in 1..NumRegions |-> CommitRegionRoot(r - 1, NewRegion(r - 1))]
    <2>1. ASSUME NEW r \in 1..NumRegions
          PROVE  CommitRegionRoot(r - 1, NewRegion(r - 1)) =
                    <<"REGION", r - 1, NumShards, MerkleRoot(RegionLeavesOf(leaves, r - 1))>>
      <3>1. r - 1 \in Regions
        BY <1>1 DEF Regions
      <3> QED
        BY <1>3, <3>1
    <2>2. A = GlobalLeavesOf(leaves)
      BY <2>1 DEF GlobalLeavesOf
    <2>3. forest.global = GlobalTree(A)
      BY DEF NewHMF
    <2> QED
      BY <2>2, <2>3 DEF GlobalTree
  <1>5. /\ DOMAIN forest.shard = Shards /\ DOMAIN forest.region = Regions
        /\ \A sh \in Shards : forest.shard[sh] = EmptyShard
        /\ \A r \in Regions : forest.region[r] = NewRegion(r)
    BY DEF NewHMF
  <1> QED
    BY <1>2, <1>4, <1>5, EmptyIs DEF ForestOver

\* One leaf of a list is replaced.
Replaces(new, leaves, index, hash) ==
    /\ IsList(leaves) /\ Len(leaves) > 0 /\ index \in 0..(Len(leaves) - 1)
    /\ IsList(new) /\ Len(new) = Len(leaves) /\ new[index + 1] = hash
    /\ \A j \in 1..Len(leaves) : j # index + 1 => new[j] = leaves[j]

\* Setting a leaf of a region or global tree gives the tree over the changed leaves.
LEMMA UpperUpdateIs ==
    ASSUME NEW leaves, NEW index, NEW hash, NEW new, Replaces(new, leaves, index, hash)
    PROVE  LET result == UpdateShardRoot(RegionTree(leaves), index, hash)
           IN /\ result.levels = RegionTree(new)
              /\ CarriesPath(result.nodes, RegionTree(new), index, BitsLen[Len(leaves) - 1])
  <1>0. /\ IsList(leaves) /\ Len(leaves) > 0 /\ index \in 0..(Len(leaves) - 1)
        /\ IsList(new) /\ Len(new) = Len(leaves) /\ new[index + 1] = hash
        /\ \A j \in 1..Len(leaves) : j # index + 1 => new[j] = leaves[j]
    BY DEF Replaces
  <1> USE <1>0
  <1> DEFINE n == Len(leaves)
             height == BitsLen[n - 1]
             other == [leaves EXCEPT ![index + 1] = hash]
  <1>1. n \in Nat /\ n > 0 /\ index + 1 \in 1..n
    BY DEF IsList
  <1>2. height \in Nat
    BY <1>1, RefHeightIs
  <1>5. other = new
    <2> DEFINE i == index + 1
    <2>1. /\ leaves = [j \in 1..n |-> leaves[j]] /\ new = [j \in 1..n |-> new[j]]
          /\ i \in 1..n /\ new[i] = hash /\ \A j \in 1..n : j # i => new[j] = leaves[j]
      BY <1>1 DEF IsList
    <2> HIDE DEF i, n
    <2>2. [leaves EXCEPT ![i] = hash] = [j \in 1..n |-> IF j = i THEN hash ELSE leaves[j]]
      BY <2>1
    <2>3. [j \in 1..n |-> IF j = i THEN hash ELSE leaves[j]] = new
      BY <2>1
    <2> QED
      BY <2>2, <2>3 DEF i
  <1> HIDE DEF other
  <1>6. RegionTree(leaves) = Build(leaves, height) /\ RegionTree(new) = Build(new, height)
    BY DEF RegionTree
  <1> DEFINE h == height
  <1>7. LET tree == Build(new, h)
            result == UpdateShardRoot(Build(leaves, h), index, hash)
        IN result.levels = tree /\ CarriesPath(result.nodes, tree, index, h)
    <2>1. h \in Nat
      BY <1>2
    <2> HIDE DEF h
    <2>2. LET tree == Build([leaves EXCEPT ![index + 1] = hash], h)
              result == UpdateShardRoot(Build(leaves, h), index, hash)
          IN result.levels = tree /\ CarriesPath(result.nodes, tree, index, h)
      <3>1. \A i \in 0..(Len(leaves) - 1) : \A x :
               LET tree == Build([leaves EXCEPT ![i + 1] = x], h)
                   result == UpdateShardRoot(Build(leaves, h), i, x)
               IN result.levels = tree /\ CarriesPath(result.nodes, tree, i, h)
        BY <2>1, UpdateShardRootIs
      <3> QED
        BY <3>1
    <2>3. [leaves EXCEPT ![index + 1] = hash] = new
      BY <1>5 DEF other
    <2> QED
      BY <2>2, <2>3
  <1> QED
    BY <1>6, <1>7

\* The update carries the path of the new leaf of the shard tree, and in the region
\* and the global tree the path of the changed leaf with the siblings beside it.
UpdateOver(update, sh, leaves) ==
    /\ update.sh = sh
    /\ update.tree.count = Len(leaves[sh]) /\ update.index = Len(leaves[sh]) - 1
    /\ update.shardNodes = LastPath(leaves[sh])
    /\ CarriesPath(update.regionNodes, RegionTree(RegionLeavesOf(leaves, sh[1])), sh[2], BitsLen[NumShards - 1])
    /\ CarriesPath(update.globalNodes, RegionTree(GlobalLeavesOf(leaves)), sh[1], BitsLen[NumRegions - 1])
    /\ update.globalRoot = <<"GLOBAL", -1, NumRegions, MerkleRoot(GlobalLeavesOf(leaves))>>

\* AppendSealedSegment gives the forest over the leaves with the new segment's
\* commitment, whichever shard it is for and however many came before.
LEMMA AppendSegmentIs ==
    ASSUME NEW forest, NEW leaves, ForestOver(forest, leaves), NEW sh \in Shards,
           NEW segment, NEW count, NEW raw, NEW more,
           more[sh] = Append(leaves[sh], CommitSegmentRoot(sh, segment, count, raw)),
           \A s \in Shards : s # sh => more[s] = leaves[s]
    PROVE  LET result == AppendSegment(forest, sh, segment, count, raw)
           IN /\ ForestOver(result.forest, more)
              /\ UpdateOver(result.update, sh, more)
  <1> DEFINE hash == CommitSegmentRoot(sh, segment, count, raw)
             shard == ShardAppend(forest.shard[sh], hash)
             r == sh[1]
             x == sh[2]
             shardRoot == CommitShardRoot(sh, shard.tree)
             region == UpdateShardRoot(forest.region[r], x, shardRoot)
             regionRoot == CommitRegionRoot(r, region.levels)
             global == UpdateRegionRoot(forest.global, r, regionRoot)
             R == RegionLeavesOf(leaves, r)
             R2 == RegionLeavesOf(more, r)
             G == GlobalLeavesOf(leaves)
             G2 == GlobalLeavesOf(more)
  <1>0. sh = <<r, x>> /\ r \in Regions /\ x \in 0..(NumShards - 1) /\ r \in 0..(NumRegions - 1)
        /\ NumShards \in Nat /\ NumShards > 0 /\ NumRegions \in Nat /\ NumRegions > 0
    BY SizesAssumption DEF Shards, Regions
  <1>1. ShardOver(forest.shard[sh], leaves[sh]) /\ forest.region[r] = RegionTree(R) /\ forest.global = RegionTree(G)
    BY <1>0 DEF ForestOver
  <1>2. /\ shard.tree.count = Len(more[sh]) /\ shard.tree.height = RefHeight(Len(more[sh]))
        /\ shard.tree.root = MerkleRoot(more[sh]) /\ IsFrontier(shard.tree.frontiers, more[sh])
        /\ shard.nodes = LastPath(more[sh])
    <2> HIDE DEF hash
    <2>1. IsList(leaves[sh]) /\ forest.shard[sh].count = Len(leaves[sh]) /\ IsFrontier(forest.shard[sh].frontiers, leaves[sh])
      BY <1>1 DEF ShardOver
    <2>2. more[sh] = Append(leaves[sh], hash)
      BY DEF hash
    <2> QED
      BY <2>1, <2>2, ShardAppendIs
  <1>3. IsList(more[sh]) /\ Len(more[sh]) = Len(leaves[sh]) + 1 /\ Len(leaves[sh]) \in Nat
    BY <1>1, AppendIs DEF ShardOver, IsList
  <1>4. ShardOver(shard.tree, more[sh])
    BY <1>2, <1>3 DEF ShardOver
  <1> HIDE DEF hash, shard
  <1>5. shardRoot = <<"SHARD", sh, Len(more[sh]), MerkleRoot(more[sh])>>
    BY <1>2 DEF CommitShardRoot
  <1>6. R2[x + 1] = shardRoot /\ \A j \in 1..NumShards : j # x + 1 => R2[j] = R[j]
    <2>1. ASSUME NEW s \in 0..(NumShards - 1)
          PROVE  /\ R[s + 1] = <<"SHARD", <<r, s>>, Len(leaves[<<r, s>>]),
                                 IF Len(leaves[<<r, s>>]) = 0 THEN ZeroHash ELSE MerkleRoot(leaves[<<r, s>>])>>
                 /\ R2[s + 1] = <<"SHARD", <<r, s>>, Len(more[<<r, s>>]),
                                  IF Len(more[<<r, s>>]) = 0 THEN ZeroHash ELSE MerkleRoot(more[<<r, s>>])>>
      <3>1. s + 1 \in 1..NumShards /\ (s + 1) - 1 = s
        BY <1>0
      <3> QED
        BY <3>1 DEF RegionLeavesOf
    <2> HIDE DEF R, R2
    <2>2. R2[x + 1] = shardRoot
      <3>1. Len(more[sh]) # 0
        BY <1>3
      <3> HIDE DEF r, x, shardRoot
      <3> QED
        BY <1>0, <1>5, <2>1, <3>1
    <2>3. ASSUME NEW j \in 1..NumShards, j # x + 1
          PROVE  R2[j] = R[j]
      <3> DEFINE s == j - 1
      <3>1. s \in 0..(NumShards - 1) /\ s + 1 = j /\ s # x
        BY <1>0, <2>3
      <3> HIDE DEF s, r, x
      <3>2. <<r, s>> \in Shards /\ <<r, s>> # sh
        BY <1>0, <3>1 DEF Shards
      <3>3. more[<<r, s>>] = leaves[<<r, s>>]
        BY <3>2
      <3>4. R2[s + 1] = R[s + 1]
        BY <2>1, <3>1, <3>3
      <3> QED
        BY <3>1, <3>4
    <2> QED
      BY <2>2, <2>3
  <1>7. IsList(R) /\ Len(R) = NumShards /\ IsList(R2) /\ Len(R2) = NumShards
        /\ IsList(G) /\ Len(G) = NumRegions /\ IsList(G2) /\ Len(G2) = NumRegions
    BY UpperLeaves
  <1>8. region.levels = RegionTree(R2) /\ CarriesPath(region.nodes, RegionTree(R2), x, BitsLen[NumShards - 1])
    <2>1. region = UpdateShardRoot(RegionTree(R), x, shardRoot)
      BY <1>1
    <2> HIDE DEF R, R2, shardRoot, r, x, region
    <2>2. Replaces(R2, R, x, shardRoot)
      BY <1>0, <1>6, <1>7 DEF Replaces
    <2>3. /\ UpdateShardRoot(RegionTree(R), x, shardRoot).levels = RegionTree(R2)
          /\ CarriesPath(UpdateShardRoot(RegionTree(R), x, shardRoot).nodes, RegionTree(R2), x, BitsLen[Len(R) - 1])
      BY <2>2, UpperUpdateIs
    <2> QED
      BY <1>7, <2>1, <2>3
  <1>9. \A q \in Regions : q # r => RegionLeavesOf(more, q) = RegionLeavesOf(leaves, q)
    <2> SUFFICES ASSUME NEW q \in Regions, q # r
                 PROVE  RegionLeavesOf(more, q) = RegionLeavesOf(leaves, q)
      OBVIOUS
    <2>1. ASSUME NEW s \in 1..NumShards
          PROVE  more[<<q, s - 1>>] = leaves[<<q, s - 1>>]
      <3>1. <<q, s - 1>> \in Shards /\ <<q, s - 1>> # sh
        <4> HIDE DEF r, x
        <4> QED
          BY <1>0 DEF Shards
      <3> QED
        BY <3>1
    <2> QED
      BY <2>1 DEF RegionLeavesOf
  <1>10. regionRoot = <<"REGION", r, NumShards, MerkleRoot(R2)>>
    <2> HIDE DEF R2
    <2>1. Root(RegionTree(R2)) = MerkleRoot(R2) /\ RegionTree(R2)[1] = R2
      BY <1>0, <1>7, RegionTreeNodes
    <2> HIDE DEF region, r
    <2> QED
      BY <1>7, <1>8, <2>1 DEF CommitRegionRoot
  <1>11. G2[r + 1] = regionRoot /\ \A j \in 1..NumRegions : j # r + 1 => G2[j] = G[j]
    <2>1. \A q \in 1..NumRegions :
             /\ G[q] = <<"REGION", q - 1, NumShards, MerkleRoot(RegionLeavesOf(leaves, q - 1))>>
             /\ G2[q] = <<"REGION", q - 1, NumShards, MerkleRoot(RegionLeavesOf(more, q - 1))>>
      BY DEF GlobalLeavesOf
    <2> HIDE DEF G, G2
    <2>2. G2[r + 1] = regionRoot
      <3>1. r + 1 \in 1..NumRegions /\ (r + 1) - 1 = r
        <4> HIDE DEF r
        <4> QED
          BY <1>0
      <3> HIDE DEF regionRoot
      <3> QED
        BY <1>10, <2>1, <3>1
    <2>3. ASSUME NEW j \in 1..NumRegions, j # r + 1
          PROVE  G2[j] = G[j]
      <3>1. j - 1 \in Regions /\ j - 1 # r
        <4> HIDE DEF r
        <4> QED
          BY <1>0, <2>3 DEF Regions
      <3> QED
        BY <1>9, <2>1, <3>1
    <2> QED
      BY <2>2, <2>3
  <1>12. global.levels = RegionTree(G2) /\ CarriesPath(global.nodes, RegionTree(G2), r, BitsLen[NumRegions - 1])
    <2>1. global = UpdateShardRoot(RegionTree(G), r, regionRoot)
      BY <1>1 DEF UpdateRegionRoot
    <2> HIDE DEF G, G2, regionRoot, r, x, global
    <2>2. Replaces(G2, G, r, regionRoot)
      BY <1>0, <1>7, <1>11 DEF Replaces
    <2>3. /\ UpdateShardRoot(RegionTree(G), r, regionRoot).levels = RegionTree(G2)
          /\ CarriesPath(UpdateShardRoot(RegionTree(G), r, regionRoot).nodes, RegionTree(G2), r, BitsLen[Len(G) - 1])
      BY <2>2, UpperUpdateIs
    <2> QED
      BY <1>7, <2>1, <2>3
  <1> HIDE DEF region, global
  <1> DEFINE grown == [shard  |-> [forest.shard EXCEPT ![sh] = shard.tree],
                       region |-> [forest.region EXCEPT ![r] = region.levels],
                       global |-> global.levels]
             update == [sh |-> sh, segment |-> segment, leaves |-> count, segmentRoot |-> raw,
                        index |-> forest.shard[sh].count, tree |-> shard.tree,
                        shardRoot |-> shardRoot, shardNodes |-> shard.nodes,
                        regionRoot |-> regionRoot, regionNodes |-> region.nodes,
                        globalRoot |-> CommitGlobalRoot(global.levels), globalNodes |-> global.nodes]
             result == AppendSegment(forest, sh, segment, count, raw)
  <1>13. result = [forest |-> grown, update |-> update]
    BY DEF AppendSegment, hash, shard, region, global
  <1>14. result.forest = grown /\ result.update = update
    <2> HIDE DEF grown, update, result
    <2> QED
      BY <1>13
  <1>15. ForestOver(grown, more)
    <2>1. DOMAIN grown.shard = Shards /\ DOMAIN grown.region = Regions
      BY DEF ForestOver
    <2>2. ASSUME NEW s \in Shards
          PROVE  ShardOver(grown.shard[s], more[s])
      <3>1. grown.shard[s] = IF s = sh THEN shard.tree ELSE forest.shard[s]
        BY DEF ForestOver
      <3>2. CASE s = sh
        BY <1>4, <3>1, <3>2
      <3>3. CASE s # sh
        BY <3>1, <3>3 DEF ForestOver
      <3> QED
        BY <3>2, <3>3
    <2>3. ASSUME NEW q \in Regions
          PROVE  grown.region[q] = RegionTree(RegionLeavesOf(more, q))
      <3>1. grown.region[q] = IF q = r THEN region.levels ELSE forest.region[q]
        BY DEF ForestOver
      <3>2. CASE q = r
        BY <1>8, <3>1, <3>2
      <3>3. CASE q # r
        <4> HIDE DEF grown
        <4> QED
          BY <1>9, <3>1, <3>3 DEF ForestOver
      <3> QED
        BY <3>2, <3>3
    <2>4. grown.global = RegionTree(G2)
      BY <1>12
    <2> HIDE DEF grown
    <2> QED
      BY <2>1, <2>2, <2>3, <2>4 DEF ForestOver
  <1>16. CommitGlobalRoot(global.levels) = <<"GLOBAL", -1, NumRegions, MerkleRoot(G2)>>
    <2> HIDE DEF G2
    <2>1. Root(RegionTree(G2)) = MerkleRoot(G2) /\ RegionTree(G2)[1] = G2
      BY <1>0, <1>7, RegionTreeNodes
    <2> QED
      BY <1>7, <1>12, <2>1 DEF CommitGlobalRoot
  <1>17. UpdateOver(update, sh, more)
    <2>1. /\ update.sh = sh /\ update.tree = shard.tree /\ update.index = forest.shard[sh].count
          /\ update.shardNodes = shard.nodes /\ update.regionNodes = region.nodes /\ update.globalNodes = global.nodes
          /\ update.globalRoot = CommitGlobalRoot(global.levels)
      OBVIOUS
    <2> HIDE DEF update
    <2>2. update.index = Len(more[sh]) - 1
      BY <1>1, <1>3, <2>1 DEF ShardOver
    <2> QED
      BY <1>2, <1>8, <1>12, <1>16, <2>1, <2>2 DEF UpdateOver
  <1> QED
    BY <1>14, <1>15, <1>17
=============================================================================
