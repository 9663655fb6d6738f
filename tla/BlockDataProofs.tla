-------------------------- MODULE BlockDataProofs ---------------------------
(***************************************************************************)
(* What the pool computes of a block's data, for every number and every    *)
(* kind of transactions: the merkle trees and the txids, as the node       *)
(* defines them.  The definitions are recursive, the proofs go by          *)
(* induction over the natural numbers, which here is the fact that a set   *)
(* of numbers has a least element.                                         *)
(***************************************************************************)
EXTENDS MerkleTree, NodeRules, WellFoundedInduction, FiniteSetTheorems, SequenceTheorems, TLAPS

LEMMA NatHasLeast ==
    ASSUME NEW S, S \subseteq Nat, S # {}
    PROVE  \E n \in S : \A m \in S : n <= m
<1>1. PICK n \in S : \A m \in S : <<m, n>> \notin OpToRel(<, Nat)
  BY WFMin, NatLessThanWellFounded, Zenon
<1>2. \A m \in S : ~(m < n)
  BY <1>1, Zenon DEF OpToRel
<1> QED
  BY <1>2

(* Induction over a set of numbers instead of a predicate.                 *)
LEMMA Induction ==
    ASSUME NEW S, 0 \in S, \A n \in Nat : n \in S => n + 1 \in S
    PROVE  Nat \subseteq S
<1> SUFFICES ASSUME Nat \ S # {}
             PROVE  FALSE
  OBVIOUS
<1>1. PICK n \in Nat \ S : \A m \in Nat \ S : n <= m
  BY NatHasLeast
<1>2. n # 0 /\ n - 1 \in Nat /\ n - 1 \in S
  BY <1>1
<1> QED
  BY <1>1, <1>2

(* The same up to a bound.                                                 *)
LEMMA BoundedInduction ==
    ASSUME NEW n \in Nat, NEW S, 0 \in S, \A i \in 0 .. n - 1 : i \in S => i + 1 \in S
    PROVE  0 .. n \subseteq S
<1> DEFINE U == {i \in Nat : i <= n => i \in S}
<1>1. 0 \in U
  OBVIOUS
<1>2. ASSUME NEW i \in Nat, i \in U
      PROVE  i + 1 \in U
  <2>1. CASE i + 1 <= n
    BY <1>2, <2>1
  <2>2. CASE i + 1 > n
    BY <2>2
  <2> QED
    BY <2>1, <2>2
<1>3. Nat \subseteq U
  <2> HIDE DEF U
  <2> QED
    BY <1>1, <1>2, Induction
<1> QED
  BY <1>3

-----------------------------------------------------------------------------
(* Sequences of anything.                                                  *)
IsSeq(s) == Len(s) \in Nat /\ s = [i \in 1 .. Len(s) |-> s[i]]

LEMMA SeqOfItsElements ==
    ASSUME NEW s, IsSeq(s)
    PROVE  s \in Seq({s[i] : i \in 1 .. Len(s)})
  BY DEF IsSeq

LEMMA TypedIsSeq ==
    ASSUME NEW T, NEW s \in Seq(T)
    PROVE  IsSeq(s)
  BY DEF IsSeq

LEMMA FunctionIsSeq ==
    ASSUME NEW f, NEW n \in Nat, f = [i \in 1 .. n |-> f[i]]
    PROVE  IsSeq(f) /\ Len(f) = n
  BY DEF IsSeq

LEMMA TailOf ==
    ASSUME NEW s, IsSeq(s), Len(s) > 0
    PROVE  Tail(s) = [i \in 1 .. Len(s) - 1 |-> s[i + 1]]
<1> DEFINE T == {s[i] : i \in 1 .. Len(s)}
<1>1. s \in Seq(T) /\ s # << >>
  BY SeqOfItsElements
<1> HIDE DEF T
<1>2. /\ Tail(s) \in Seq(T) /\ Len(Tail(s)) = Len(s) - 1
      /\ \A i \in 1 .. Len(s) - 1 : Tail(s)[i] = s[i + 1]
  BY <1>1, HeadTailProperties
<1> DEFINE t == Tail(s)
<1> HIDE DEF t
<1>3. t = [i \in 1 .. Len(t) |-> t[i]]
  BY <1>2, TypedIsSeq DEF t, IsSeq
<1>4. Len(t) = Len(s) - 1
  BY <1>2 DEF t
<1>5. t = [i \in 1 .. Len(s) - 1 |-> t[i]]
  BY <1>3, <1>4
<1>6. \A i \in 1 .. Len(s) - 1 : t[i] = s[i + 1]
  BY <1>2 DEF t
<1>7. t = [i \in 1 .. Len(s) - 1 |-> s[i + 1]]
  BY <1>5, <1>6
<1> QED
  BY <1>7 DEF t

LEMMA EmptyHasNoLength ==
    ASSUME NEW s, IsSeq(s)
    PROVE  s = << >> <=> Len(s) = 0
  BY SeqOfItsElements

LEMMA FunctionIsEmpty ==
    ASSUME NEW f, NEW n \in Nat, f = [i \in 1 .. n |-> f[i]]
    PROVE  f = << >> <=> n = 0
  BY FunctionIsSeq, EmptyHasNoLength

LEMMA PairedLevel ==
    ASSUME NEW s, Len(s) \in Nat
    PROVE  /\ IsSeq(Paired(s)) /\ Len(Paired(s)) = (Len(s) + 1) \div 2
           /\ \A i \in 1 .. (Len(s) + 1) \div 2 :
                Paired(s)[i] = Sha256d(<<s[2 * i - 1], IF 2 * i <= Len(s) THEN s[2 * i] ELSE s[2 * i - 1]>>)
<1> DEFINE n == (Len(s) + 1) \div 2
           p == Paired(s)
<1>1. n \in Nat
  OBVIOUS
<1>2. p = [i \in 1 .. n |-> Sha256d(<<s[2 * i - 1], IF 2 * i <= Len(s) THEN s[2 * i] ELSE s[2 * i - 1]>>)]
  BY DEF Paired
<1> HIDE DEF n, p
<1>3. p = [i \in 1 .. n |-> p[i]]
  BY <1>2
<1>4. IsSeq(p) /\ Len(p) = n
  BY <1>1, <1>3, FunctionIsSeq
<1> QED
  BY <1>2, <1>4 DEF n, p

-----------------------------------------------------------------------------
(* The parts of the node's definition of the root.                         *)
TreeSize(leaves) ==
    LET size[l \in 0 .. Len(leaves)] ==
            IF l = 0 THEN Len(leaves) ELSE (size[l - 1] + 1) \div 2
    IN  size

TreeNode(leaves) ==
    LET node[l \in 0 .. Len(leaves)] ==
            [i \in 0 .. TreeSize(leaves)[l] - 1 |->
                IF l = 0 THEN leaves[i + 1]
                ELSE LET right == IF 2 * i + 1 < TreeSize(leaves)[l - 1] THEN 2 * i + 1 ELSE 2 * i
                     IN  Sha256d(<<node[l - 1][2 * i], node[l - 1][right]>>)]
    IN  node

TreeHeight(leaves) ==
    CHOOSE l \in 0 .. Len(leaves) :
        TreeSize(leaves)[l] = 1 /\ \A k \in 0 .. l - 1 : TreeSize(leaves)[k] # 1

LEMMA RootOfTree == \A leaves : RootOf(leaves) = TreeNode(leaves)[TreeHeight(leaves)][0]
  BY DEF RootOf, TreeSize, TreeNode, TreeHeight

(* The levels halve until one node is left.                                *)
LEMMA TreeSizeUnfolds ==
    ASSUME NEW leaves, Len(leaves) \in Nat
    PROVE  TreeSize(leaves) = [l \in 0 .. Len(leaves) |->
                IF l = 0 THEN Len(leaves) ELSE (TreeSize(leaves)[l - 1] + 1) \div 2]
<1> DEFINE n == Len(leaves)
           Levels(m, f) == f = [l \in 0 .. m |-> IF l = 0 THEN n ELSE (f[l - 1] + 1) \div 2]
           S == {m \in Nat : \E f : Levels(m, f)}
<1>1. 0 \in S
  <2>1. Levels(0, [l \in 0 .. 0 |-> n])
    OBVIOUS
  <2> QED
    BY <2>1
<1>2. ASSUME NEW m \in Nat, m \in S
      PROVE  m + 1 \in S
  <2>1. PICK f : Levels(m, f)
    BY <1>2
  <2> DEFINE g == [l \in 0 .. m + 1 |-> IF l = m + 1 THEN (f[m] + 1) \div 2 ELSE f[l]]
  <2>2. \A l \in 0 .. m + 1 : g[l] = IF l = 0 THEN n ELSE (g[l - 1] + 1) \div 2
    <3>1. g[0] = n
      BY <2>1
    <3>2. \A l \in 1 .. m : g[l] = (g[l - 1] + 1) \div 2
      BY <2>1
    <3>3. g[m + 1] = (g[m] + 1) \div 2
      OBVIOUS
    <3> HIDE DEF g
    <3> QED
      BY <3>1, <3>2, <3>3
  <2>3. g = [l \in 0 .. m + 1 |-> g[l]]
    OBVIOUS
  <2> HIDE DEF g
  <2>4. Levels(m + 1, g)
    BY <2>2, <2>3
  <2> QED
    BY <2>4
<1>3. n \in S
  <2> HIDE DEF S
  <2> QED
    BY <1>1, <1>2, Induction DEF n
<1> QED
  BY <1>3 DEF TreeSize

LEMMA TreeNodeUnfolds ==
    ASSUME NEW leaves, Len(leaves) \in Nat
    PROVE  TreeNode(leaves) = [l \in 0 .. Len(leaves) |->
            [i \in 0 .. TreeSize(leaves)[l] - 1 |->
                IF l = 0 THEN leaves[i + 1]
                ELSE LET right == IF 2 * i + 1 < TreeSize(leaves)[l - 1] THEN 2 * i + 1 ELSE 2 * i
                     IN  Sha256d(<<TreeNode(leaves)[l - 1][2 * i], TreeNode(leaves)[l - 1][right]>>)]]
<1> DEFINE n == Len(leaves)
           Size(l) == TreeSize(leaves)[l]
           Right(l, i) == IF 2 * i + 1 < Size(l - 1) THEN 2 * i + 1 ELSE 2 * i
           Above(level, l) == [i \in 0 .. Size(l) - 1 |-> Sha256d(<<level[2 * i], level[Right(l, i)]>>)]
           Bottom == [i \in 0 .. Size(0) - 1 |-> leaves[i + 1]]
           Levels(m, f) == f = [l \in 0 .. m |-> IF l = 0 THEN Bottom ELSE Above(f[l - 1], l)]
           Written(m, f) == f = [l \in 0 .. m |-> [i \in 0 .. Size(l) - 1 |->
                                    IF l = 0 THEN leaves[i + 1]
                                    ELSE Sha256d(<<f[l - 1][2 * i], f[l - 1][Right(l, i)]>>)]]
           S == {m \in Nat : \E f : Levels(m, f)}
<1>1. 0 \in S
  <2> HIDE DEF Bottom, Above
  <2>1. Levels(0, [l \in 0 .. 0 |-> Bottom])
    OBVIOUS
  <2> QED
    BY <2>1
<1>2. ASSUME NEW m \in Nat, m \in S
      PROVE  m + 1 \in S
  <2> HIDE DEF Bottom, Above
  <2>1. PICK f : Levels(m, f)
    BY <1>2
  <2> DEFINE g == [l \in 0 .. m + 1 |-> IF l = m + 1 THEN Above(f[m], m + 1) ELSE f[l]]
  <2>2. \A l \in 0 .. m + 1 : g[l] = IF l = 0 THEN Bottom ELSE Above(g[l - 1], l)
    <3>1. g[0] = Bottom
      BY <2>1
    <3>2. \A l \in 1 .. m : g[l] = Above(g[l - 1], l)
      BY <2>1
    <3>3. g[m + 1] = Above(g[m], m + 1)
      OBVIOUS
    <3> HIDE DEF g
    <3> QED
      BY <3>1, <3>2, <3>3
  <2>3. g = [l \in 0 .. m + 1 |-> g[l]]
    OBVIOUS
  <2> HIDE DEF g
  <2>4. Levels(m + 1, g)
    BY <2>2, <2>3
  <2> QED
    BY <2>4
<1>3. n \in S
  <2> HIDE DEF S
  <2> QED
    BY <1>1, <1>2, Induction DEF n
<1>4. PICK f : Levels(n, f)
  BY <1>3
<1>5. Written(n, f)
  <2>1. \A l \in 0 .. n : f[l] = [i \in 0 .. Size(l) - 1 |->
                                    IF l = 0 THEN leaves[i + 1]
                                    ELSE Sha256d(<<f[l - 1][2 * i], f[l - 1][Right(l, i)]>>)]
    BY <1>4
  <2>2. f = [l \in 0 .. n |-> f[l]]
    BY <1>4
  <2> QED
    BY <2>1, <2>2
<1> QED
  BY <1>5 DEF TreeNode

(* A level above one of more than one node is smaller and not empty.       *)
LEMMA TreeSizes ==
    ASSUME NEW leaves, Len(leaves) \in Nat \ {0}
    PROVE  /\ TreeSize(leaves)[0] = Len(leaves)
           /\ \A l \in 1 .. Len(leaves) : TreeSize(leaves)[l] = (TreeSize(leaves)[l - 1] + 1) \div 2
           /\ \A l \in 0 .. Len(leaves) :
                /\ TreeSize(leaves)[l] \in Nat \ {0}
                /\ TreeSize(leaves)[l] > 1 => TreeSize(leaves)[l] <= Len(leaves) - l
<1> DEFINE n == Len(leaves)
           size == TreeSize(leaves)
           S == {l \in 0 .. n : size[l] \in Nat \ {0} /\ (size[l] > 1 => size[l] <= n - l)}
<1>1. size[0] = n /\ \A l \in 1 .. n : size[l] = (size[l - 1] + 1) \div 2
  BY TreeSizeUnfolds
<1> HIDE DEF size
<1>2. 0 \in S
  BY <1>1
<1>3. ASSUME NEW l \in 0 .. n - 1, l \in S
      PROVE  l + 1 \in S
  <2>1. size[l + 1] = (size[l] + 1) \div 2
    BY <1>1
  <2> QED
    BY <1>3, <2>1
<1>4. 0 .. n \subseteq S
  <2> HIDE DEF S
  <2> QED
    BY <1>2, <1>3, BoundedInduction DEF n
<1> QED
  BY <1>1, <1>4 DEF size

(* The height is the first level of one node, and no level is deeper.      *)
LEMMA TreeHeightIsFirst ==
    ASSUME NEW leaves, Len(leaves) \in Nat \ {0}
    PROVE  /\ TreeHeight(leaves) \in 0 .. Len(leaves) - 1
           /\ TreeSize(leaves)[TreeHeight(leaves)] = 1
           /\ \A l \in 0 .. TreeHeight(leaves) - 1 : TreeSize(leaves)[l] > 1
<1> DEFINE n == Len(leaves)
           size == TreeSize(leaves)
           Single == {l \in 0 .. n - 1 : size[l] = 1}
<1> HIDE DEF size
<1>1. \A l \in 0 .. n : size[l] \in Nat \ {0} /\ (size[l] > 1 => size[l] <= n - l)
  BY TreeSizes DEF size
<1>2. n - 1 \in Single
  BY <1>1
<1>3. PICK h \in Single : \A l \in Single : h <= l
  <2> HIDE DEF Single
  <2>1. Single \subseteq Nat
    BY DEF Single
  <2> QED
    BY <1>2, <2>1, NatHasLeast
<1>4. h \in 0 .. n /\ size[h] = 1 /\ \A k \in 0 .. h - 1 : size[k] # 1
  BY <1>3
<1> DEFINE t == TreeHeight(leaves)
<1>5. t \in 0 .. n /\ size[t] = 1 /\ \A k \in 0 .. t - 1 : size[k] # 1
  BY <1>4 DEF TreeHeight, size
<1> HIDE DEF t
<1>6. t <= h
  BY <1>3, <1>4, <1>5
<1> QED
  BY <1>1, <1>3, <1>5, <1>6 DEF t, size

(* Two of the nodes on a level make the node above them.                   *)
LEMMA TreeNodes ==
    ASSUME NEW leaves, Len(leaves) \in Nat \ {0}
    PROVE  /\ \A i \in 0 .. Len(leaves) - 1 : TreeNode(leaves)[0][i] = leaves[i + 1]
           /\ \A l \in 1 .. Len(leaves) : \A i \in 0 .. TreeSize(leaves)[l] - 1 :
                TreeNode(leaves)[l][i] =
                    Sha256d(<<TreeNode(leaves)[l - 1][2 * i],
                              TreeNode(leaves)[l - 1][IF 2 * i + 1 < TreeSize(leaves)[l - 1]
                                                      THEN 2 * i + 1 ELSE 2 * i]>>)
<1> DEFINE n == Len(leaves)
           node == TreeNode(leaves)
           size == TreeSize(leaves)
           Row(l) == [i \in 0 .. size[l] - 1 |->
                IF l = 0 THEN leaves[i + 1]
                ELSE LET right == IF 2 * i + 1 < size[l - 1] THEN 2 * i + 1 ELSE 2 * i
                     IN  Sha256d(<<node[l - 1][2 * i], node[l - 1][right]>>)]
<1>1. node = [l \in 0 .. n |-> Row(l)]
  BY TreeNodeUnfolds
<1>2. size[0] = n
  BY TreeSizes
<1> HIDE DEF node, size
<1>3. \A i \in 0 .. n - 1 : node[0][i] = leaves[i + 1]
  <2>1. node[0] = Row(0)
    <3> HIDE DEF Row
    <3> QED
      BY <1>1
  <2> QED
    BY <1>2, <2>1
<1>4. ASSUME NEW l \in 1 .. n, NEW i \in 0 .. size[l] - 1
      PROVE  node[l][i] = Sha256d(<<node[l - 1][2 * i],
                                    node[l - 1][IF 2 * i + 1 < size[l - 1] THEN 2 * i + 1 ELSE 2 * i]>>)
  <2>1. node[l] = Row(l)
    <3> HIDE DEF Row
    <3> QED
      BY <1>1
  <2> QED
    BY <2>1
<1> QED
  BY <1>3, <1>4 DEF node, size

-----------------------------------------------------------------------------
LEMMA Prepended ==
    ASSUME NEW x, NEW s, IsSeq(s)
    PROVE  /\ IsSeq(<<x>> \o s) /\ Len(<<x>> \o s) = Len(s) + 1
           /\ (<<x>> \o s)[1] = x
           /\ \A i \in 1 .. Len(s) : (<<x>> \o s)[i + 1] = s[i]
<1> DEFINE T == {x} \cup {s[i] : i \in 1 .. Len(s)}
<1>1. s \in Seq(T) /\ <<x>> \in Seq(T)
  BY SeqOfItsElements DEF IsSeq
<1> HIDE DEF T
<1>2. /\ <<x>> \o s \in Seq(T) /\ Len(<<x>> \o s) = Len(s) + 1
      /\ (<<x>> \o s)[1] = x
      /\ \A i \in 1 .. Len(s) : (<<x>> \o s)[i + 1] = s[i]
  BY <1>1
<1> QED
  BY <1>2, TypedIsSeq

(* The levels CalculateMerkleBranch goes through.                          *)
BranchLevel(leaves) ==
    LET level[i \in 0 .. Len(leaves)] ==
            IF i = 0 THEN leaves
            ELSE IF level[i - 1] = << >> THEN << >> ELSE Paired(Tail(level[i - 1]))
    IN  level

LEMMA BranchLevelUnfolds ==
    ASSUME NEW leaves, Len(leaves) \in Nat
    PROVE  BranchLevel(leaves) = [i \in 0 .. Len(leaves) |->
                IF i = 0 THEN leaves
                ELSE IF BranchLevel(leaves)[i - 1] = << >> THEN << >>
                ELSE Paired(Tail(BranchLevel(leaves)[i - 1]))]
<1> DEFINE n == Len(leaves)
           Above(level) == IF level = << >> THEN << >> ELSE Paired(Tail(level))
           Levels(m, f) == f = [l \in 0 .. m |-> IF l = 0 THEN leaves ELSE Above(f[l - 1])]
           S == {m \in Nat : \E f : Levels(m, f)}
<1>1. 0 \in S
  <2> HIDE DEF Above
  <2>1. Levels(0, [l \in 0 .. 0 |-> leaves])
    OBVIOUS
  <2> QED
    BY <2>1
<1>2. ASSUME NEW m \in Nat, m \in S
      PROVE  m + 1 \in S
  <2> HIDE DEF Above
  <2>1. PICK f : Levels(m, f)
    BY <1>2
  <2> DEFINE g == [l \in 0 .. m + 1 |-> IF l = m + 1 THEN Above(f[m]) ELSE f[l]]
  <2>2. \A l \in 0 .. m + 1 : g[l] = IF l = 0 THEN leaves ELSE Above(g[l - 1])
    <3>1. g[0] = leaves
      BY <2>1
    <3>2. \A l \in 1 .. m : g[l] = Above(g[l - 1])
      BY <2>1
    <3>3. g[m + 1] = Above(g[m])
      OBVIOUS
    <3> HIDE DEF g
    <3> QED
      BY <3>1, <3>2, <3>3
  <2>3. g = [l \in 0 .. m + 1 |-> g[l]]
    OBVIOUS
  <2> HIDE DEF g
  <2>4. Levels(m + 1, g)
    BY <2>2, <2>3
  <2> QED
    BY <2>4
<1>3. n \in S
  <2> HIDE DEF S
  <2> QED
    BY <1>1, <1>2, Induction DEF n
<1> QED
  BY <1>3, Zenon DEF BranchLevel

(* They are the levels of the tree without the path from the coinbase.     *)
LEMMA BranchLevelsAreTheTree ==
    ASSUME NEW x, NEW leaves, IsSeq(leaves)
    PROVE  LET full == <<x>> \o leaves IN
           \A l \in 0 .. TreeHeight(full) :
                BranchLevel(leaves)[l] =
                    [i \in 1 .. TreeSize(full)[l] - 1 |-> TreeNode(full)[l][i]]
<1> DEFINE full == <<x>> \o leaves
           n == Len(leaves)
           size == TreeSize(full)
           node == TreeNode(full)
           h == TreeHeight(full)
           level == BranchLevel(leaves)
           Rest(l) == [i \in 1 .. size[l] - 1 |-> node[l][i]]
           S == {l \in 0 .. h : level[l] = Rest(l)}
<1>1. n \in Nat /\ Len(full) = n + 1 /\ \A i \in 1 .. n : full[i + 1] = leaves[i]
  BY Prepended DEF IsSeq
<1> HIDE DEF full
<1>2. h \in 0 .. n /\ \A l \in 0 .. h - 1 : size[l] > 1
  BY <1>1, TreeHeightIsFirst
<1>3. /\ size[0] = n + 1
      /\ \A l \in 1 .. n + 1 : size[l] = (size[l - 1] + 1) \div 2
      /\ \A l \in 0 .. n + 1 : size[l] \in Nat \ {0}
  BY <1>1, TreeSizes
<1>4. /\ \A i \in 0 .. n : node[0][i] = full[i + 1]
      /\ \A l \in 1 .. n + 1 : \A i \in 0 .. size[l] - 1 :
            node[l][i] = Sha256d(<<node[l - 1][2 * i],
                                   node[l - 1][IF 2 * i + 1 < size[l - 1] THEN 2 * i + 1 ELSE 2 * i]>>)
  BY <1>1, TreeNodes
<1>5. level = [i \in 0 .. n |->
                IF i = 0 THEN leaves
                ELSE IF level[i - 1] = << >> THEN << >> ELSE Paired(Tail(level[i - 1]))]
  BY <1>1, BranchLevelUnfolds
<1> HIDE DEF size, node, h, level
<1>6. 0 \in S
  <2>1. level[0] = leaves
    BY <1>1, <1>5
  <2>2. \A i \in 1 .. n : node[0][i] = leaves[i]
    BY <1>1, <1>4
  <2>3. leaves = [i \in 1 .. n |-> leaves[i]]
    BY DEF IsSeq
  <2>4. leaves = [i \in 1 .. n |-> node[0][i]]
    BY <2>2, <2>3
  <2>5. size[0] - 1 = n
    BY <1>1, <1>3
  <2>6. level[0] = Rest(0)
    BY <2>1, <2>4, <2>5
  <2> QED
    BY <1>2, <2>6
<1>7. ASSUME NEW l \in 0 .. h - 1, l \in S
      PROVE  l + 1 \in S
  <2> DEFINE s == level[l]
             m == size[l] - 1
  <2>1. m \in Nat \ {0} /\ size[l + 1] = (m + 2) \div 2
    <3>1. l \in 0 .. n + 1 /\ l + 1 \in 1 .. n + 1 /\ (l + 1) - 1 = l
      BY <1>1, <1>2
    <3>2. size[l] \in Nat /\ size[l] > 1
      BY <1>2, <1>3, <3>1
    <3>3. size[l + 1] = (size[l] + 1) \div 2
      BY <1>3, <3>1
    <3> QED
      BY <3>2, <3>3
  <2>2. s = [i \in 1 .. m |-> node[l][i]]
    BY <1>7
  <2>3. level[l + 1] = IF s = << >> THEN << >> ELSE Paired(Tail(s))
    BY <1>2, <1>5
  <2> HIDE DEF s, m
  <2>4. IsSeq(s) /\ Len(s) = m
    <3>1. s = [i \in 1 .. m |-> s[i]]
      BY <2>2
    <3> QED
      BY <2>1, <3>1, FunctionIsSeq
  <2>5. s # << >> /\ level[l + 1] = Paired(Tail(s))
    BY <2>1, <2>3, <2>4, EmptyHasNoLength
  <2> DEFINE t == Tail(s)
             p == Paired(t)
  <2>6. t = [i \in 1 .. m - 1 |-> s[i + 1]]
    BY <2>1, <2>4, TailOf
  <2> HIDE DEF t
  <2>7. IsSeq(t) /\ Len(t) = m - 1
    <3>1. t = [i \in 1 .. m - 1 |-> t[i]]
      BY <2>6
    <3> QED
      BY <2>1, <3>1, FunctionIsSeq
  <2>8. \A i \in 1 .. m - 1 : t[i] = node[l][i + 1]
    BY <2>1, <2>2, <2>6
  <2>9. /\ IsSeq(p) /\ Len(p) = m \div 2
        /\ \A i \in 1 .. m \div 2 :
             p[i] = Sha256d(<<t[2 * i - 1], IF 2 * i <= m - 1 THEN t[2 * i] ELSE t[2 * i - 1]>>)
    BY <2>1, <2>7, PairedLevel
  <2> HIDE DEF p
  <2>10. ASSUME NEW i \in 1 .. m \div 2
         PROVE  p[i] = node[l + 1][i]
    <3>1. p[i] = Sha256d(<<node[l][2 * i], IF 2 * i <= m - 1 THEN node[l][2 * i + 1] ELSE node[l][2 * i]>>)
      <4>1. 2 * i - 1 \in 1 .. m - 1 /\ t[2 * i - 1] = node[l][2 * i]
        BY <2>1, <2>8
      <4>2. 2 * i <= m - 1 => t[2 * i] = node[l][2 * i + 1]
        BY <2>1, <2>8
      <4> QED
        BY <2>9, <4>1, <4>2
    <3>2. node[l + 1][i] = Sha256d(<<node[l][2 * i], node[l][IF 2 * i + 1 < m + 1 THEN 2 * i + 1 ELSE 2 * i]>>)
      <4>1. l + 1 \in 1 .. n + 1 /\ i \in 0 .. size[l + 1] - 1 /\ size[l] = m + 1
        BY <1>1, <1>2, <1>3, <2>1 DEF m
      <4> QED
        BY <1>4, <4>1
    <3> QED
      BY <2>1, <3>1, <3>2
  <2>11. p = [i \in 1 .. m \div 2 |-> node[l + 1][i]]
    <3>1. p = [i \in 1 .. m \div 2 |-> p[i]]
      BY <2>9 DEF IsSeq
    <3> QED
      BY <2>10, <3>1
  <2>12. size[l + 1] - 1 = m \div 2
    BY <2>1
  <2>13. level[l + 1] = Rest(l + 1)
    BY <2>5, <2>11, <2>12 DEF t, p
  <2> QED
    BY <1>2, <2>13
<1>8. 0 .. h \subseteq S
  <2> HIDE DEF S
  <2> QED
    BY <1>2, <1>6, <1>7, BoundedInduction
<1> QED
  BY <1>8 DEF full, size, node, h, level

LEMMA BranchHasHeight ==
    ASSUME NEW x, NEW leaves, IsSeq(leaves)
    PROVE  LET h == TreeHeight(<<x>> \o leaves) IN
           /\ h \in 0 .. Len(leaves)
           /\ \A i \in 0 .. Len(leaves) : BranchLevel(leaves)[i] # << >> <=> i < h
           /\ \A i \in 0 .. h - 1 :
                BranchLevel(leaves)[i][1] = TreeNode(<<x>> \o leaves)[i][1]
<1> DEFINE full == <<x>> \o leaves
           n == Len(leaves)
           size == TreeSize(full)
           node == TreeNode(full)
           h == TreeHeight(full)
           level == BranchLevel(leaves)
<1>1. \A l \in 0 .. h : level[l] = [i \in 1 .. size[l] - 1 |-> node[l][i]]
  BY BranchLevelsAreTheTree
<1>2. n \in Nat /\ Len(full) = n + 1
  BY Prepended DEF IsSeq
<1> HIDE DEF full
<1>3. h \in 0 .. n /\ size[h] = 1 /\ \A l \in 0 .. h - 1 : size[l] > 1
  BY <1>2, TreeHeightIsFirst
<1>4. \A l \in 0 .. n : size[l] \in Nat
  BY <1>2, TreeSizes
<1>5. \A l \in 1 .. n : level[l] = IF level[l - 1] = << >> THEN << >> ELSE Paired(Tail(level[l - 1]))
  BY <1>2, BranchLevelUnfolds
<1> HIDE DEF size, node, h, level
<1>6. ASSUME NEW l \in 0 .. h - 1
      PROVE  level[l] # << >> /\ level[l][1] = node[l][1]
  <2>1. size[l] - 1 \in Nat \ {0}
    BY <1>2, <1>3, <1>4
  <2>2. level[l] = [i \in 1 .. size[l] - 1 |-> node[l][i]]
    BY <1>1, <1>3
  <2>3. level[l] = [i \in 1 .. size[l] - 1 |-> level[l][i]]
    BY <2>2
  <2>4. level[l] # << >>
    BY <2>1, <2>3, FunctionIsEmpty
  <2> QED
    BY <2>1, <2>2, <2>4
<1>7. \A l \in h .. n : level[l] = << >>
  <2> DEFINE S == {k \in 0 .. n - h : level[h + k] = << >>}
  <2>1. 0 \in S
    <3>1. level[h] = [i \in 1 .. 0 |-> node[h][i]]
      <4>1. h \in 0 .. h /\ size[h] - 1 = 0
        BY <1>2, <1>3
      <4>2. level[h] = [i \in 1 .. size[h] - 1 |-> node[h][i]]
        BY <1>1, <4>1
      <4> QED
        BY <4>1, <4>2
    <3>2. level[h] = << >>
      BY <3>1
    <3>3. h + 0 = h /\ 0 \in 0 .. n - h
      BY <1>2, <1>3
    <3> QED
      BY <3>2, <3>3
  <2>2. ASSUME NEW k \in 0 .. n - h - 1, k \in S
        PROVE  k + 1 \in S
    <3>1. h + (k + 1) \in 1 .. n /\ (h + (k + 1)) - 1 = h + k
      BY <1>2, <1>3
    <3>2. level[h + k] = << >>
      BY <2>2
    <3>3. level[h + (k + 1)] = << >>
      BY <1>5, <3>1, <3>2
    <3> QED
      BY <1>2, <1>3, <3>3
  <2>3. 0 .. n - h \subseteq S
    <3> HIDE DEF S
    <3>1. n - h \in Nat
      BY <1>2, <1>3
    <3> QED
      BY <2>1, <2>2, <3>1, BoundedInduction
  <2>4. ASSUME NEW l \in h .. n
        PROVE  level[l] = << >>
    <3>1. l - h \in 0 .. n - h /\ h + (l - h) = l
      BY <1>2, <1>3
    <3> QED
      BY <2>3, <3>1
  <2> QED
    BY <2>4
<1>8. \A i \in 0 .. n : level[i] # << >> <=> i < h
  BY <1>2, <1>3, <1>6, <1>7
<1> QED
  BY <1>3, <1>6, <1>8 DEF full, size, node, h, level

-----------------------------------------------------------------------------
(* The hashes CalculateMerkleRoot goes through.                            *)
RootSteps(coinbaseTxid, merkleBranch) ==
    LET hash[i \in 0 .. Len(merkleBranch)] ==
            IF i = 0 THEN coinbaseTxid ELSE Sha256d(<<hash[i - 1], merkleBranch[i]>>)
    IN  hash

LEMMA RootStepsUnfold ==
    ASSUME NEW x, NEW branch, Len(branch) \in Nat
    PROVE  /\ RootSteps(x, branch)[0] = x
           /\ \A i \in 1 .. Len(branch) :
                RootSteps(x, branch)[i] = Sha256d(<<RootSteps(x, branch)[i - 1], branch[i]>>)
<1> DEFINE n == Len(branch)
           Above(hash, l) == Sha256d(<<hash, branch[l]>>)
           Levels(m, f) == f = [l \in 0 .. m |-> IF l = 0 THEN x ELSE Above(f[l - 1], l)]
           S == {m \in Nat : \E f : Levels(m, f)}
<1>1. 0 \in S
  <2> HIDE DEF Above
  <2>1. Levels(0, [l \in 0 .. 0 |-> x])
    OBVIOUS
  <2> QED
    BY <2>1
<1>2. ASSUME NEW m \in Nat, m \in S
      PROVE  m + 1 \in S
  <2> HIDE DEF Above
  <2>1. PICK f : Levels(m, f)
    BY <1>2
  <2> DEFINE g == [l \in 0 .. m + 1 |-> IF l = m + 1 THEN Above(f[m], m + 1) ELSE f[l]]
  <2>2. \A l \in 0 .. m + 1 : g[l] = IF l = 0 THEN x ELSE Above(g[l - 1], l)
    <3>1. g[0] = x
      BY <2>1
    <3>2. \A l \in 1 .. m : g[l] = Above(g[l - 1], l)
      BY <2>1
    <3>3. g[m + 1] = Above(g[m], m + 1)
      OBVIOUS
    <3> HIDE DEF g
    <3> QED
      BY <3>1, <3>2, <3>3
  <2>3. g = [l \in 0 .. m + 1 |-> g[l]]
    OBVIOUS
  <2> HIDE DEF g
  <2>4. Levels(m + 1, g)
    BY <2>2, <2>3
  <2> QED
    BY <2>4
<1>3. n \in S
  <2> HIDE DEF S
  <2> QED
    BY <1>1, <1>2, Induction DEF n
<1> DEFINE hash == RootSteps(x, branch)
<1>4. Levels(n, hash)
  BY <1>3, Zenon DEF RootSteps
<1>5. hash[0] = x /\ \A l \in 1 .. n : hash[l] = Above(hash[l - 1], l)
  <2> HIDE DEF hash, Above
  <2> QED
    BY <1>4
<1> QED
  BY <1>5

(* The root that is computed for a coinbase from the branch the miner got  *)
(* is that of the block's tree: for every number of transactions, whatever *)
(* CalculateMerkleBranch took for their leaves.                            *)
THEOREM BranchLeadsToRoot ==
    ASSUME NEW x, NEW entries, IsSeq(Leaves(entries))
    PROVE  CalculateMerkleRoot(x, CalculateMerkleBranch(entries)) = RootOf(<<x>> \o Leaves(entries))
<1> DEFINE leaves == Leaves(entries)
           full == <<x>> \o leaves
           n == Len(leaves)
           size == TreeSize(full)
           node == TreeNode(full)
           h == TreeHeight(full)
           level == BranchLevel(leaves)
           branch == [i \in 1 .. h |-> level[i - 1][1]]
<1>0. IsSeq(leaves)
  OBVIOUS
<1> HIDE DEF leaves
<1>1. /\ h \in 0 .. n
      /\ \A i \in 0 .. n : level[i] # << >> <=> i < h
      /\ \A i \in 0 .. h - 1 : level[i][1] = node[i][1]
  BY <1>0, BranchHasHeight
<1>2. CalculateMerkleBranch(entries) = branch
  <2>1. CalculateMerkleBranch(entries) =
            [i \in 1 .. Cardinality({j \in 0 .. n : level[j] # << >>}) |-> level[i - 1][1]]
    BY DEF CalculateMerkleBranch, leaves, BranchLevel
  <2> HIDE DEF h, level, n
  <2>2. n \in Nat
    BY <1>0 DEF n, IsSeq
  <2>3. {j \in 0 .. n : level[j] # << >>} = 0 .. h - 1
    BY <1>1, <2>2
  <2>4. Cardinality(0 .. h - 1) = h
    BY <1>1, <2>2, FS_Interval
  <2> QED
    BY <2>1, <2>3, <2>4
<1>3. n \in Nat /\ Len(full) = n + 1 /\ full[1] = x
  BY <1>0, Prepended DEF IsSeq
<1> HIDE DEF full
<1>4. size[h] = 1 /\ \A l \in 0 .. h - 1 : size[l] > 1
  BY <1>3, TreeHeightIsFirst
<1>5. /\ node[0][0] = x
      /\ \A l \in 1 .. h : node[l][0] = Sha256d(<<node[l - 1][0], node[l - 1][1]>>)
  <2>1. \A l \in 0 .. n + 1 : size[l] \in Nat \ {0}
    BY <1>3, TreeSizes
  <2>2. /\ \A i \in 0 .. n : node[0][i] = full[i + 1]
        /\ \A l \in 1 .. n + 1 : \A i \in 0 .. size[l] - 1 :
              node[l][i] = Sha256d(<<node[l - 1][2 * i],
                                     node[l - 1][IF 2 * i + 1 < size[l - 1] THEN 2 * i + 1 ELSE 2 * i]>>)
    <3>1. Len(full) \in Nat \ {0} /\ Len(full) - 1 = n /\ Len(full) = n + 1
      BY <1>3
    <3> HIDE DEF n
    <3> QED
      BY <3>1, TreeNodes
  <2> HIDE DEF size, node, h
  <2>3. ASSUME NEW l \in 1 .. h
        PROVE  node[l][0] = Sha256d(<<node[l - 1][0], node[l - 1][1]>>)
    <3>1. l \in 1 .. n + 1 /\ 0 \in 0 .. size[l] - 1 /\ size[l - 1] > 1 /\ size[l - 1] \in Nat
      BY <1>1, <1>3, <1>4, <2>1
    <3> QED
      BY <2>2, <3>1
  <2> QED
    BY <1>3, <2>2, <2>3
<1> HIDE DEF size, node, h, level
<1>6. /\ Len(branch) = h
      /\ \A i \in 1 .. h : branch[i] = node[i - 1][1]
  BY <1>1, <1>3
<1> DEFINE hash == RootSteps(x, branch)
           S == {i \in 0 .. h : hash[i] = node[i][0]}
<1> HIDE DEF branch
<1>7. hash[0] = x /\ \A i \in 1 .. h : hash[i] = Sha256d(<<hash[i - 1], branch[i]>>)
  <2>1. h \in Nat
    BY <1>1, <1>3
  <2> QED
    BY <1>6, <2>1, RootStepsUnfold
<1> HIDE DEF hash
<1>8. h \in S
  <2>1. 0 \in S
    BY <1>1, <1>3, <1>5, <1>7
  <2>2. ASSUME NEW i \in 0 .. h - 1, i \in S
        PROVE  i + 1 \in S
    <3>1. i + 1 \in 1 .. h /\ (i + 1) - 1 = i /\ i + 1 \in 0 .. h
      BY <1>1, <1>3
    <3>2. hash[i + 1] = Sha256d(<<hash[i], branch[i + 1]>>)
      BY <1>7, <3>1
    <3>3. branch[i + 1] = node[i][1]
      BY <1>6, <3>1
    <3>4. node[i + 1][0] = Sha256d(<<node[i][0], node[i][1]>>)
      BY <1>5, <3>1
    <3> QED
      BY <2>2, <3>1, <3>2, <3>3, <3>4
  <2>3. h \in Nat
    BY <1>1, <1>3
  <2> HIDE DEF S
  <2>4. 0 .. h \subseteq S
    BY <2>1, <2>2, <2>3, BoundedInduction
  <2> QED
    BY <2>3, <2>4
<1>9. CalculateMerkleRoot(x, branch) = hash[h]
  BY <1>6 DEF CalculateMerkleRoot, hash, RootSteps
<1>10. RootOf(full) = node[h][0]
  BY RootOfTree DEF node, h
<1> QED
  BY <1>2, <1>8, <1>9, <1>10 DEF leaves, full

(* The levels MerkleRoot goes through.                                     *)
RootLevel(hashes) ==
    LET level[i \in 0 .. Len(hashes)] ==
            IF i = 0 THEN hashes
            ELSE IF Len(level[i - 1]) > 1 THEN Paired(level[i - 1]) ELSE level[i - 1]
    IN  level

LEMMA RootLevelUnfolds ==
    ASSUME NEW hashes, Len(hashes) \in Nat
    PROVE  /\ RootLevel(hashes)[0] = hashes
           /\ \A i \in 1 .. Len(hashes) :
                RootLevel(hashes)[i] =
                    IF Len(RootLevel(hashes)[i - 1]) > 1
                    THEN Paired(RootLevel(hashes)[i - 1]) ELSE RootLevel(hashes)[i - 1]
<1> DEFINE n == Len(hashes)
           Above(level) == IF Len(level) > 1 THEN Paired(level) ELSE level
           Levels(m, f) == f = [l \in 0 .. m |-> IF l = 0 THEN hashes ELSE Above(f[l - 1])]
           S == {m \in Nat : \E f : Levels(m, f)}
<1>1. 0 \in S
  <2> HIDE DEF Above
  <2>1. Levels(0, [l \in 0 .. 0 |-> hashes])
    OBVIOUS
  <2> QED
    BY <2>1
<1>2. ASSUME NEW m \in Nat, m \in S
      PROVE  m + 1 \in S
  <2> HIDE DEF Above
  <2>1. PICK f : Levels(m, f)
    BY <1>2
  <2> DEFINE g == [l \in 0 .. m + 1 |-> IF l = m + 1 THEN Above(f[m]) ELSE f[l]]
  <2>2. \A l \in 0 .. m + 1 : g[l] = IF l = 0 THEN hashes ELSE Above(g[l - 1])
    <3>1. g[0] = hashes
      BY <2>1
    <3>2. \A l \in 1 .. m : g[l] = Above(g[l - 1])
      BY <2>1
    <3>3. g[m + 1] = Above(g[m])
      OBVIOUS
    <3> HIDE DEF g
    <3> QED
      BY <3>1, <3>2, <3>3
  <2>3. g = [l \in 0 .. m + 1 |-> g[l]]
    OBVIOUS
  <2> HIDE DEF g
  <2>4. Levels(m + 1, g)
    BY <2>2, <2>3
  <2> QED
    BY <2>4
<1>3. n \in S
  <2> HIDE DEF S
  <2> QED
    BY <1>1, <1>2, Induction DEF n
<1> DEFINE level == RootLevel(hashes)
<1>4. Levels(n, level)
  BY <1>3, Zenon DEF RootLevel
<1>5. level[0] = hashes /\ \A l \in 1 .. n : level[l] = Above(level[l - 1])
  <2> HIDE DEF level, Above
  <2> QED
    BY <1>4
<1> QED
  BY <1>5

(* A sequence of the nodes of a level; pairing gives the level above it.   *)
IsLevel(s, leaves, l) ==
    /\ IsSeq(s) /\ Len(s) = TreeSize(leaves)[l]
    /\ \A i \in 1 .. Len(s) : s[i] = TreeNode(leaves)[l][i - 1]

LEMMA PairedIsAbove ==
    ASSUME NEW leaves, Len(leaves) \in Nat \ {0}, NEW l \in 0 .. Len(leaves) - 1,
           NEW s, IsLevel(s, leaves, l)
    PROVE  IsLevel(Paired(s), leaves, l + 1)
<1> DEFINE n == Len(leaves)
           size == TreeSize(leaves)
           node == TreeNode(leaves)
           m == Len(s)
           p == Paired(s)
<1>1. m \in Nat \ {0} /\ size[l + 1] = (m + 1) \div 2 /\ m = size[l]
  <2>1. l \in 0 .. n /\ l + 1 \in 1 .. n /\ (l + 1) - 1 = l
    OBVIOUS
  <2> QED
    BY <2>1, TreeSizes DEF IsLevel
<1>2. \A i \in 0 .. size[l + 1] - 1 :
        node[l + 1][i] = Sha256d(<<node[l][2 * i], node[l][IF 2 * i + 1 < size[l] THEN 2 * i + 1 ELSE 2 * i]>>)
  <2>1. l + 1 \in 1 .. n /\ (l + 1) - 1 = l
    OBVIOUS
  <2> QED
    BY <2>1, TreeNodes
<1>3. \A i \in 1 .. m : s[i] = node[l][i - 1]
  BY DEF IsLevel
<1>4. /\ IsSeq(p) /\ Len(p) = (m + 1) \div 2
      /\ \A i \in 1 .. (m + 1) \div 2 :
           p[i] = Sha256d(<<s[2 * i - 1], IF 2 * i <= m THEN s[2 * i] ELSE s[2 * i - 1]>>)
  BY <1>1, PairedLevel
<1> HIDE DEF size, node, m, p
<1>5. ASSUME NEW i \in 1 .. (m + 1) \div 2
      PROVE  p[i] = node[l + 1][i - 1]
  <2>1. p[i] = Sha256d(<<node[l][2 * i - 2], IF 2 * i <= m THEN node[l][2 * i - 1] ELSE node[l][2 * i - 2]>>)
    <3>1. 2 * i - 1 \in 1 .. m /\ (2 * i - 1) - 1 = 2 * i - 2
      BY <1>1
    <3>2. s[2 * i - 1] = node[l][2 * i - 2]
      BY <1>3, <3>1
    <3>3. 2 * i <= m => s[2 * i] = node[l][2 * i - 1]
      BY <1>1, <1>3
    <3> QED
      BY <1>4, <3>2, <3>3
  <2>2. node[l + 1][i - 1] = Sha256d(<<node[l][2 * i - 2],
                                       node[l][IF 2 * i - 1 < m THEN 2 * i - 1 ELSE 2 * i - 2]>>)
    <3>1. i - 1 \in 0 .. size[l + 1] - 1 /\ 2 * (i - 1) = 2 * i - 2 /\ 2 * (i - 1) + 1 = 2 * i - 1
      BY <1>1
    <3> QED
      BY <1>1, <1>2, <3>1
  <2>3. 2 * i <= m <=> 2 * i - 1 < m
    BY <1>1
  <2> QED
    BY <2>1, <2>2, <2>3
<1> QED
  BY <1>1, <1>4, <1>5 DEF IsLevel, size, node, p

(* MerkleRoot, from which the witness commitment is made, computes the     *)
(* root as the node defines it, for every number of hashes.                *)
THEOREM MerkleRootIsRoot ==
    ASSUME NEW hashes, IsSeq(hashes), hashes # << >>
    PROVE  MerkleRoot(hashes) = RootOf(hashes)
<1> DEFINE n == Len(hashes)
           size == TreeSize(hashes)
           node == TreeNode(hashes)
           h == TreeHeight(hashes)
           level == RootLevel(hashes)
           S == {l \in 0 .. h : IsLevel(level[l], hashes, l)}
<1>1. n \in Nat \ {0}
  BY EmptyHasNoLength DEF IsSeq
<1>2. h \in 0 .. n - 1 /\ size[h] = 1 /\ \A l \in 0 .. h - 1 : size[l] > 1
  BY <1>1, TreeHeightIsFirst
<1>3. level[0] = hashes /\ \A l \in 1 .. n : level[l] = IF Len(level[l - 1]) > 1 THEN Paired(level[l - 1]) ELSE level[l - 1]
  BY <1>1, RootLevelUnfolds
<1>4. IsLevel(hashes, hashes, 0)
  <2>1. size[0] = n /\ \A i \in 0 .. n - 1 : node[0][i] = hashes[i + 1]
    BY <1>1, TreeNodes, TreeSizes
  <2>2. ASSUME NEW i \in 1 .. n
        PROVE  hashes[i] = node[0][i - 1]
    <3>1. i - 1 \in 0 .. n - 1 /\ (i - 1) + 1 = i
      BY <1>1
    <3> HIDE DEF node
    <3> QED
      BY <2>1, <3>1
  <2> QED
    BY <2>1, <2>2 DEF IsLevel
<1>5. ASSUME NEW l, IsLevel(level[l], hashes, l)
      PROVE  Len(level[l]) = size[l]
  BY <1>5 DEF IsLevel
<1> HIDE DEF size, node, h, level
<1>6. 0 .. h \subseteq S
  <2>1. 0 \in S
    BY <1>1, <1>2, <1>3, <1>4
  <2>2. ASSUME NEW l \in 0 .. h - 1, l \in S
        PROVE  l + 1 \in S
    <3>1. l \in 0 .. n - 1 /\ l + 1 \in 1 .. n /\ (l + 1) - 1 = l /\ l + 1 \in 0 .. h /\ size[l] > 1
      BY <1>1, <1>2
    <3>2. IsLevel(level[l], hashes, l)
      BY <2>2
    <3>3. Len(level[l]) > 1
      BY <1>5, <3>1, <3>2
    <3>4. level[l + 1] = Paired(level[l])
      BY <1>3, <3>1, <3>3
    <3>5. IsLevel(level[l + 1], hashes, l + 1)
      BY <1>1, <3>1, <3>2, <3>4, PairedIsAbove
    <3> QED
      BY <3>1, <3>5
  <2>3. h \in Nat
    BY <1>1, <1>2
  <2> HIDE DEF S
  <2> QED
    BY <2>1, <2>2, <2>3, BoundedInduction
<1>7. IsLevel(level[h], hashes, h)
  BY <1>1, <1>2, <1>6
<1>8. level[n] = level[h]
  <2> DEFINE U == {k \in 0 .. n - h : level[h + k] = level[h]}
  <2>0. h \in Nat /\ n - h \in Nat /\ Len(level[h]) = 1
    <3>1. Len(level[h]) = size[h]
      BY <1>5, <1>7
    <3> QED
      BY <1>1, <1>2, <3>1
  <2>1. 0 \in U
    BY <2>0
  <2>2. ASSUME NEW k \in 0 .. n - h - 1, k \in U
        PROVE  k + 1 \in U
    <3> DEFINE j == h + (k + 1)
    <3>1. j \in 1 .. n /\ j - 1 = h + k /\ k + 1 \in 0 .. n - h
      BY <1>1, <2>0
    <3>2. level[h + k] = level[h]
      BY <2>2
    <3> HIDE DEF j
    <3>3. level[j] = IF Len(level[j - 1]) > 1 THEN Paired(level[j - 1]) ELSE level[j - 1]
      BY <1>3, <3>1
    <3>4. level[j - 1] = level[h] /\ ~(Len(level[h]) > 1)
      BY <2>0, <3>1, <3>2
    <3>5. level[j] = level[h]
      BY <3>3, <3>4
    <3> QED
      BY <3>1, <3>5 DEF j
  <2>3. 0 .. n - h \subseteq U
    <3> HIDE DEF U
    <3> QED
      BY <2>0, <2>1, <2>2, BoundedInduction
  <2>4. n - h \in 0 .. n - h /\ h + (n - h) = n
    BY <1>1, <2>0
  <2> QED
    BY <2>3, <2>4
<1>9. level[h][1] = node[h][0]
  BY <1>2, <1>7 DEF IsLevel, size, node
<1>10. MerkleRoot(hashes) = level[n][1]
  BY DEF MerkleRoot, level, RootLevel
<1>11. RootOf(hashes) = node[h][0]
  BY RootOfTree DEF node, h
<1> QED
  BY <1>8, <1>9, <1>10, <1>11

-----------------------------------------------------------------------------
(* Where a string of tokens stands in another.                             *)
At(raw, pos, s) ==
    pos + Len(s) <= Len(raw) + 1 /\ \A i \in 1 .. Len(s) : raw[pos + i - 1] = s[i]

LEMMA Concatenation ==
    ASSUME NEW T, NEW s \in Seq(T), NEW t \in Seq(T)
    PROVE  /\ s \o t \in Seq(T) /\ Len(s \o t) = Len(s) + Len(t)
           /\ \A i \in 1 .. Len(s) : (s \o t)[i] = s[i]
           /\ \A i \in 1 .. Len(t) : (s \o t)[Len(s) + i] = t[i]
  OBVIOUS

LEMMA ConcatLength ==
    ASSUME NEW T, NEW s \in Seq(T), NEW t \in Seq(T)
    PROVE  s \o t \in Seq(T) /\ Len(s \o t) = Len(s) + Len(t) /\ Len(s) \in Nat /\ Len(t) \in Nat
  OBVIOUS

LEMMA AtItself ==
    ASSUME NEW T, NEW s \in Seq(T)
    PROVE  At(s, 1, s)
  BY DEF At

LEMMA AtConcatenation ==
    ASSUME NEW T, NEW raw \in Seq(T), NEW pos \in Nat \ {0}, NEW s \in Seq(T), NEW t \in Seq(T)
    PROVE  At(raw, pos, s \o t) <=> At(raw, pos, s) /\ At(raw, pos + Len(s), t)
<1>1. ASSUME At(raw, pos, s \o t)
      PROVE  At(raw, pos, s)
  BY <1>1, Concatenation DEF At
<1>2. ASSUME At(raw, pos, s \o t)
      PROVE  At(raw, pos + Len(s), t)
  <2>1. ASSUME NEW i \in 1 .. Len(t)
        PROVE  raw[pos + Len(s) + i - 1] = t[i]
    <3>1. Len(s) + i \in 1 .. Len(s \o t)
      BY Concatenation
    <3>2. raw[pos + (Len(s) + i) - 1] = (s \o t)[Len(s) + i]
      BY <1>2, <3>1 DEF At
    <3>3. pos + (Len(s) + i) - 1 = pos + Len(s) + i - 1 /\ (s \o t)[Len(s) + i] = t[i]
      BY Concatenation
    <3> QED
      BY <3>2, <3>3
  <2> QED
    BY <1>2, <2>1, Concatenation DEF At
<1>3. ASSUME At(raw, pos, s), At(raw, pos + Len(s), t)
      PROVE  At(raw, pos, s \o t)
  <2>1. ASSUME NEW i \in 1 .. Len(s \o t)
        PROVE  raw[pos + i - 1] = (s \o t)[i]
    <3>1. CASE i <= Len(s)
      BY <1>3, <3>1, Concatenation DEF At
    <3>2. CASE i > Len(s)
      <4>1. i - Len(s) \in 1 .. Len(t)
        BY <3>2, Concatenation
      <4>2. (s \o t)[Len(s) + (i - Len(s))] = t[i - Len(s)]
        BY <4>1, Concatenation
      <4>3. raw[pos + Len(s) + (i - Len(s)) - 1] = t[i - Len(s)]
        BY <1>3, <4>1 DEF At
      <4> QED
        BY <4>2, <4>3
    <3> QED
      BY <3>1, <3>2
  <2> QED
    BY <1>3, <2>1, Concatenation DEF At
<1> QED
  BY <1>1, <1>2, <1>3

LEMMA SubSeqAt ==
    ASSUME NEW T, NEW raw \in Seq(T), NEW pos \in Nat \ {0}, NEW s \in Seq(T), At(raw, pos, s)
    PROVE  SubSeq(raw, pos, pos + Len(s) - 1) = s
<1> DEFINE u == SubSeq(raw, pos, pos + Len(s) - 1)
<1>1. u \in Seq(T) /\ Len(u) = Len(s)
  BY DEF At
<1>2. \A i \in 1 .. Len(s) : u[i] = s[i]
  BY DEF At
<1> HIDE DEF u
<1>3. u = s
  BY <1>1, <1>2, SeqEqual
<1> QED
  BY <1>3 DEF u

-----------------------------------------------------------------------------
(* Byte strings one after the other, up to each of them.                   *)
JoinSteps(strings) ==
    LET join[i \in 0 .. Len(strings)] == IF i = 0 THEN << >> ELSE join[i - 1] \o strings[i]
    IN  join

LEMMA JoinStepsUnfold ==
    ASSUME NEW strings, Len(strings) \in Nat
    PROVE  /\ JoinSteps(strings)[0] = << >>
           /\ \A i \in 1 .. Len(strings) :
                JoinSteps(strings)[i] = JoinSteps(strings)[i - 1] \o strings[i]
           /\ Joined(strings) = JoinSteps(strings)[Len(strings)]
<1> DEFINE n == Len(strings)
           Above(s, l) == s \o strings[l]
           Levels(m, f) == f = [l \in 0 .. m |-> IF l = 0 THEN << >> ELSE Above(f[l - 1], l)]
           S == {m \in Nat : \E f : Levels(m, f)}
<1>1. 0 \in S
  <2> HIDE DEF Above
  <2>1. Levels(0, [l \in 0 .. 0 |-> << >>])
    OBVIOUS
  <2> QED
    BY <2>1
<1>2. ASSUME NEW m \in Nat, m \in S
      PROVE  m + 1 \in S
  <2> HIDE DEF Above
  <2>1. PICK f : Levels(m, f)
    BY <1>2
  <2> DEFINE g == [l \in 0 .. m + 1 |-> IF l = m + 1 THEN Above(f[m], m + 1) ELSE f[l]]
  <2>2. \A l \in 0 .. m + 1 : g[l] = IF l = 0 THEN << >> ELSE Above(g[l - 1], l)
    <3>1. g[0] = << >>
      BY <2>1
    <3>2. \A l \in 1 .. m : g[l] = Above(g[l - 1], l)
      BY <2>1
    <3>3. g[m + 1] = Above(g[m], m + 1)
      OBVIOUS
    <3> HIDE DEF g
    <3> QED
      BY <3>1, <3>2, <3>3
  <2>3. g = [l \in 0 .. m + 1 |-> g[l]]
    OBVIOUS
  <2> HIDE DEF g
  <2>4. Levels(m + 1, g)
    BY <2>2, <2>3
  <2> QED
    BY <2>4
<1>3. n \in S
  <2> HIDE DEF S
  <2> QED
    BY <1>1, <1>2, Induction DEF n
<1> DEFINE join == JoinSteps(strings)
<1>4. Levels(n, join)
  BY <1>3, Zenon DEF JoinSteps
<1>5. join[0] = << >> /\ \A l \in 1 .. n : join[l] = Above(join[l - 1], l)
  <2> HIDE DEF join, Above
  <2> QED
    BY <1>4
<1>6. Joined(strings) = join[n]
  BY DEF Joined, JoinSteps
<1> QED
  BY <1>5, <1>6

LEMMA JoinStepsType ==
    ASSUME NEW T, NEW strings, Len(strings) \in Nat, \A i \in 1 .. Len(strings) : strings[i] \in Seq(T)
    PROVE  \A i \in 0 .. Len(strings) : JoinSteps(strings)[i] \in Seq(T)
<1> DEFINE n == Len(strings)
           join == JoinSteps(strings)
           S == {i \in 0 .. n : join[i] \in Seq(T)}
<1>1. join[0] = << >> /\ \A i \in 1 .. n : join[i] = join[i - 1] \o strings[i]
  BY JoinStepsUnfold
<1> HIDE DEF join
<1>2. 0 \in S
  <2>1. << >> \in Seq(T)
    OBVIOUS
  <2>2. join[0] \in Seq(T)
    BY <1>1, <2>1
  <2> QED
    BY <2>2
<1>3. ASSUME NEW i \in 0 .. n - 1, i \in S
      PROVE  i + 1 \in S
  <2>1. i + 1 \in 1 .. n /\ (i + 1) - 1 = i
    OBVIOUS
  <2>2. join[i + 1] = join[i] \o strings[i + 1]
    BY <1>1, <2>1
  <2>3. join[i] \in Seq(T) /\ strings[i + 1] \in Seq(T)
    BY <1>3, <2>1
  <2>4. join[i + 1] \in Seq(T)
    BY <2>2, <2>3, ConcatProperties
  <2> QED
    BY <2>1, <2>4
<1>4. 0 .. n \subseteq S
  <2> HIDE DEF S
  <2> QED
    BY <1>2, <1>3, BoundedInduction
<1> QED
  BY <1>4 DEF join

LEMMA JoinedType ==
    ASSUME NEW T, NEW strings, Len(strings) \in Nat, \A i \in 1 .. Len(strings) : strings[i] \in Seq(T)
    PROVE  Joined(strings) \in Seq(T)
<1>1. JoinSteps(strings)[Len(strings)] \in Seq(T)
  BY JoinStepsType
<1> QED
  BY <1>1, JoinStepsUnfold

LEMMA JoinStepsLength ==
    ASSUME NEW T, NEW strings, Len(strings) \in Nat, \A i \in 1 .. Len(strings) : strings[i] \in Seq(T)
    PROVE  /\ Len(JoinSteps(strings)[0]) = 0
           /\ \A i \in 0 .. Len(strings) : Len(JoinSteps(strings)[i]) \in Nat
           /\ \A i \in 1 .. Len(strings) :
                Len(JoinSteps(strings)[i]) = Len(JoinSteps(strings)[i - 1]) + Len(strings[i])
<1> DEFINE n == Len(strings)
           join == JoinSteps(strings)
<1>1. join[0] = << >> /\ \A i \in 1 .. n : join[i] = join[i - 1] \o strings[i]
  BY JoinStepsUnfold
<1>2. \A i \in 0 .. n : join[i] \in Seq(T)
  BY JoinStepsType
<1> HIDE DEF join
<1>3. \A i \in 0 .. n : Len(join[i]) \in Nat
  BY <1>2
<1>4. ASSUME NEW i \in 1 .. n
      PROVE  Len(join[i]) = Len(join[i - 1]) + Len(strings[i])
  <2>1. join[i - 1] \in Seq(T) /\ strings[i] \in Seq(T)
    BY <1>2
  <2>2. Len(join[i - 1] \o strings[i]) = Len(join[i - 1]) + Len(strings[i])
    BY <2>1, ConcatLength
  <2> QED
    BY <1>1, <2>2
<1> QED
  BY <1>1, <1>3, <1>4 DEF join

(* Where the strings stand of which another is made.                       *)
LEMMA JoinedStands ==
    ASSUME NEW T, NEW raw \in Seq(T), NEW pos \in Nat \ {0},
           NEW strings, Len(strings) \in Nat, \A i \in 1 .. Len(strings) : strings[i] \in Seq(T),
           At(raw, pos, Joined(strings))
    PROVE  \A i \in 1 .. Len(strings) :
                At(raw, pos + Len(JoinSteps(strings)[i - 1]), strings[i])
<1> DEFINE n == Len(strings)
           join == JoinSteps(strings)
           S == {k \in 0 .. n : At(raw, pos, join[n - k])}
<1>1. /\ \A i \in 1 .. n : join[i] = join[i - 1] \o strings[i]
      /\ At(raw, pos, join[n])
  BY JoinStepsUnfold
<1>2. \A i \in 0 .. n : join[i] \in Seq(T)
  BY JoinStepsType
<1> HIDE DEF join
<1>3. ASSUME NEW i \in 1 .. n, At(raw, pos, join[i])
      PROVE  At(raw, pos, join[i - 1]) /\ At(raw, pos + Len(join[i - 1]), strings[i])
  <2>1. join[i - 1] \in Seq(T) /\ strings[i] \in Seq(T)
    BY <1>2
  <2> QED
    BY <1>1, <1>3, <2>1, AtConcatenation
<1>4. 0 \in S
  BY <1>1
<1>5. ASSUME NEW k \in 0 .. n - 1, k \in S
      PROVE  k + 1 \in S
  <2>1. n - k \in 1 .. n /\ (n - k) - 1 = n - (k + 1) /\ k + 1 \in 0 .. n
    OBVIOUS
  <2>2. At(raw, pos, join[n - k])
    BY <1>5
  <2>3. At(raw, pos, join[n - (k + 1)])
    BY <1>3, <2>1, <2>2
  <2> QED
    BY <2>1, <2>3
<1>6. 0 .. n \subseteq S
  <2> HIDE DEF S
  <2> QED
    BY <1>4, <1>5, BoundedInduction
<1>7. ASSUME NEW i \in 1 .. n
      PROVE  At(raw, pos + Len(join[i - 1]), strings[i])
  <2>1. n - i \in 0 .. n /\ n - (n - i) = i
    OBVIOUS
  <2>2. At(raw, pos, join[i])
    BY <1>6, <2>1
  <2> QED
    BY <1>3, <2>2
<1> QED
  BY <1>7 DEF join

-----------------------------------------------------------------------------
(* Tokens of which transactions are made.                                  *)
IsTokens(T) ==
    /\ \A n \in Nat : Byte(n) \in T
    /\ \A v \in Int : [amount |-> v] \in T
    /\ {Prefix, Field("version"), Field("sequence"), Field("locktime")} \subseteq T

LEMMA CompactSizeType ==
    ASSUME NEW T, IsTokens(T), NEW n \in Nat
    PROVE  CompactSize(n) \in Seq(T) /\ Len(CompactSize(n)) \in 1 .. 2
<1>1. Byte(n) \in T /\ Prefix \in T
  BY DEF IsTokens
<1> QED
  BY <1>1 DEF CompactSize

LEMMA ByteIsNoPrefix == \A n : Byte(n) # Prefix /\ Byte(n).byte = n
<1> SUFFICES ASSUME NEW n
             PROVE  Byte(n) # Prefix
  BY DEF Byte
<1>1. "byte" \in DOMAIN Byte(n) /\ "byte" \notin DOMAIN Prefix
  BY DEF Byte, Prefix, Field
<1> QED
  BY <1>1

(* readVarInt reads what CompactSize writes.                               *)
LEMMA ReadsCompactSize ==
    ASSUME NEW T, IsTokens(T), NEW raw \in Seq(T), NEW pos \in Nat \ {0}, NEW n \in Nat,
           At(raw, pos, CompactSize(n))
    PROVE  readVarInt(raw, pos) = [value |-> n, next |-> pos + Len(CompactSize(n))]
<1>1. CASE n < CompactLimit
  <2>1. CompactSize(n) = <<Byte(n)>>
    BY <1>1 DEF CompactSize
  <2>2. raw[pos] = Byte(n) /\ pos \in 1 .. Len(raw)
    BY <2>1 DEF At
  <2> QED
    BY <2>1, <2>2, ByteIsNoPrefix DEF readVarInt
<1>2. CASE ~(n < CompactLimit)
  <2>1. CompactSize(n) = <<Prefix, Byte(n)>>
    BY <1>2 DEF CompactSize
  <2>2. raw[pos] = Prefix /\ raw[pos + 1] = Byte(n) /\ pos \in 1 .. Len(raw) - 1
    BY <2>1 DEF At
  <2>3. pos \in 1 .. Len(raw) /\ pos # Len(raw)
    BY <2>2
  <2> QED
    BY <2>1, <2>2, <2>3, ByteIsNoPrefix DEF readVarInt
<1> QED
  BY <1>1, <1>2

(* What SkipItems goes over: fields, a length with that many bytes, and    *)
(* fields again.                                                           *)
IsItem(s, T, before, after) ==
    \E head \in Seq(T), text \in Seq(T), tail \in Seq(T) :
        /\ Len(head) = before /\ Len(tail) = after
        /\ s = head \o VarBytes(text) \o tail

LEMMA VarBytesType ==
    ASSUME NEW T, IsTokens(T), NEW text \in Seq(T)
    PROVE  VarBytes(text) \in Seq(T)
  BY CompactSizeType, ConcatProperties DEF VarBytes

LEMMA ItemType ==
    ASSUME NEW T, IsTokens(T), NEW before, NEW after, NEW s, IsItem(s, T, before, after)
    PROVE  s \in Seq(T)
  BY VarBytesType, ConcatProperties DEF IsItem

LEMMA SkipsItem ==
    ASSUME NEW T, IsTokens(T), NEW raw \in Seq(T), NEW pos \in Nat \ {0},
           NEW before \in Nat, NEW after \in Nat,
           NEW s, IsItem(s, T, before, after), At(raw, pos, s)
    PROVE  LET len == readVarInt(raw, pos + before) IN
           /\ len.next \in Nat \ {0}
           /\ len.next + len.value + after = pos + Len(s)
           /\ pos + Len(s) <= Len(raw) + 1
<1>1. PICK head \in Seq(T), text \in Seq(T), tail \in Seq(T) :
        /\ Len(head) = before /\ Len(tail) = after
        /\ s = head \o VarBytes(text) \o tail
  BY DEF IsItem
<1> DEFINE size == CompactSize(Len(text))
           body == size \o text
           front == head \o body
<1>2. size \in Seq(T) /\ Len(size) \in Nat
  BY CompactSizeType
<1>3. s = front \o tail
  BY <1>1 DEF VarBytes
<1> HIDE DEF size
<1>4. body \in Seq(T) /\ Len(body) = Len(size) + Len(text)
  BY <1>2, ConcatLength
<1> HIDE DEF body
<1>5. front \in Seq(T) /\ Len(front) = before + Len(body)
  BY <1>1, <1>4, ConcatLength
<1> HIDE DEF front
<1>6. Len(s) = Len(front) + after
  BY <1>1, <1>3, <1>5, ConcatLength
<1>7. At(raw, pos, front)
  BY <1>3, <1>5, AtConcatenation
<1>8. At(raw, pos + before, body)
  BY <1>1, <1>4, <1>7, AtConcatenation DEF front
<1>9. pos + before \in Nat \ {0}
  OBVIOUS
<1>10. At(raw, pos + before, size)
  BY <1>2, <1>8, <1>9, AtConcatenation DEF body
<1>11. readVarInt(raw, pos + before) = [value |-> Len(text), next |-> pos + before + Len(size)]
  <2>1. Len(text) \in Nat
    OBVIOUS
  <2> QED
    BY <1>9, <1>10, <2>1, ReadsCompactSize DEF size
<1>12. pos + Len(s) <= Len(raw) + 1
  BY DEF At
<1>13. Len(text) \in Nat
  OBVIOUS
<1> DEFINE len == readVarInt(raw, pos + before)
<1>14. len.value = Len(text) /\ len.next = pos + before + Len(size)
  BY <1>11
<1> HIDE DEF len
<1>15. len.next \in Nat \ {0} /\ len.next + len.value + after = pos + Len(s)
  BY <1>2, <1>4, <1>5, <1>6, <1>13, <1>14
<1> QED
  BY <1>12, <1>15 DEF len

(* The positions SkipItems and SkipStacks go through.                      *)
NextItem(raw, pos, before, after) ==
    LET len == readVarInt(raw, pos + before)
        end == len.next + len.value + after
    IN  IF pos = 0 \/ len.next = 0 \/ end > Len(raw) + 1 THEN 0 ELSE end

ItemSteps(raw, start, count, before, after) ==
    LET skip[i \in 0 .. count] ==
            IF i = 0 THEN start ELSE NextItem(raw, skip[i - 1], before, after)
    IN  skip

LEMMA ItemStepsUnfold ==
    ASSUME NEW raw, NEW start, NEW count \in Nat, NEW before, NEW after
    PROVE  LET skip == ItemSteps(raw, start, count, before, after) IN
           /\ skip[0] = start
           /\ \A i \in 1 .. count : skip[i] = NextItem(raw, skip[i - 1], before, after)
           /\ SkipItems(raw, start, count, before, after) = skip[count]
<1> DEFINE n == count
           Above(x, l) == NextItem(raw, x, before, after)
           Levels(m, f) == f = [l \in 0 .. m |-> IF l = 0 THEN start ELSE Above(f[l - 1], l)]
           S == {m \in Nat : \E f : Levels(m, f)}
<1>1. 0 \in S
  <2> HIDE DEF Above
  <2>1. Levels(0, [l \in 0 .. 0 |-> start])
    OBVIOUS
  <2> QED
    BY <2>1
<1>2. ASSUME NEW m \in Nat, m \in S
      PROVE  m + 1 \in S
  <2> HIDE DEF Above
  <2>1. PICK f : Levels(m, f)
    BY <1>2
  <2> DEFINE g == [l \in 0 .. m + 1 |-> IF l = m + 1 THEN Above(f[m], m + 1) ELSE f[l]]
  <2>2. \A l \in 0 .. m + 1 : g[l] = IF l = 0 THEN start ELSE Above(g[l - 1], l)
    <3>1. g[0] = start
      BY <2>1
    <3>2. \A l \in 1 .. m : g[l] = Above(g[l - 1], l)
      BY <2>1
    <3>3. g[m + 1] = Above(g[m], m + 1)
      OBVIOUS
    <3> HIDE DEF g
    <3> QED
      BY <3>1, <3>2, <3>3
  <2>3. g = [l \in 0 .. m + 1 |-> g[l]]
    OBVIOUS
  <2> HIDE DEF g
  <2>4. Levels(m + 1, g)
    BY <2>2, <2>3
  <2> QED
    BY <2>4
<1>3. n \in S
  <2> HIDE DEF S
  <2> QED
    BY <1>1, <1>2, Induction DEF n
<1> DEFINE steps == ItemSteps(raw, start, count, before, after)
<1>4. Levels(n, steps)
  BY <1>3, Zenon DEF ItemSteps
<1>5. steps[0] = start /\ \A l \in 1 .. n : steps[l] = Above(steps[l - 1], l)
  <2> HIDE DEF steps, Above
  <2> QED
    BY <1>4
<1>6. SkipItems(raw, start, count, before, after) = steps[n]
  BY DEF SkipItems, ItemSteps, NextItem
<1> QED
  BY <1>5, <1>6

StackSteps(raw, start, count) ==
    LET skip[i \in 0 .. count] ==
            IF i = 0 THEN start
            ELSE IF skip[i - 1] = 0 THEN 0 ELSE SkipCounted(raw, skip[i - 1], 0, 0)
    IN  skip

LEMMA StackStepsUnfold ==
    ASSUME NEW raw, NEW start, NEW count \in Nat
    PROVE  LET skip == StackSteps(raw, start, count) IN
           /\ skip[0] = start
           /\ \A i \in 1 .. count :
                skip[i] = IF skip[i - 1] = 0 THEN 0 ELSE SkipCounted(raw, skip[i - 1], 0, 0)
           /\ SkipStacks(raw, start, count) = skip[count]
<1> DEFINE n == count
           Above(x, l) == IF x = 0 THEN 0 ELSE SkipCounted(raw, x, 0, 0)
           Levels(m, f) == f = [l \in 0 .. m |-> IF l = 0 THEN start ELSE Above(f[l - 1], l)]
           S == {m \in Nat : \E f : Levels(m, f)}
<1>1. 0 \in S
  <2> HIDE DEF Above
  <2>1. Levels(0, [l \in 0 .. 0 |-> start])
    OBVIOUS
  <2> QED
    BY <2>1
<1>2. ASSUME NEW m \in Nat, m \in S
      PROVE  m + 1 \in S
  <2> HIDE DEF Above
  <2>1. PICK f : Levels(m, f)
    BY <1>2
  <2> DEFINE g == [l \in 0 .. m + 1 |-> IF l = m + 1 THEN Above(f[m], m + 1) ELSE f[l]]
  <2>2. \A l \in 0 .. m + 1 : g[l] = IF l = 0 THEN start ELSE Above(g[l - 1], l)
    <3>1. g[0] = start
      BY <2>1
    <3>2. \A l \in 1 .. m : g[l] = Above(g[l - 1], l)
      BY <2>1
    <3>3. g[m + 1] = Above(g[m], m + 1)
      OBVIOUS
    <3> HIDE DEF g
    <3> QED
      BY <3>1, <3>2, <3>3
  <2>3. g = [l \in 0 .. m + 1 |-> g[l]]
    OBVIOUS
  <2> HIDE DEF g
  <2>4. Levels(m + 1, g)
    BY <2>2, <2>3
  <2> QED
    BY <2>4
<1>3. n \in S
  <2> HIDE DEF S
  <2> QED
    BY <1>1, <1>2, Induction DEF n
<1> DEFINE steps == StackSteps(raw, start, count)
<1>4. Levels(n, steps)
  BY <1>3, Zenon DEF StackSteps
<1>5. steps[0] = start /\ \A l \in 1 .. n : steps[l] = Above(steps[l - 1], l)
  <2> HIDE DEF steps, Above
  <2> QED
    BY <1>4
<1>6. SkipStacks(raw, start, count) = steps[n]
  BY DEF SkipStacks, StackSteps
<1> QED
  BY <1>5, <1>6

(* SkipItems goes over as many items as it is told, and ends behind them.  *)
LEMMA SkipsItems ==
    ASSUME NEW T, IsTokens(T), NEW raw \in Seq(T), NEW start \in Nat \ {0},
           NEW before \in Nat, NEW after \in Nat,
           NEW items, Len(items) \in Nat,
           \A i \in 1 .. Len(items) : IsItem(items[i], T, before, after),
           At(raw, start, Joined(items))
    PROVE  SkipItems(raw, start, Len(items), before, after) = start + Len(Joined(items))
<1> DEFINE n == Len(items)
           join == JoinSteps(items)
           skip == ItemSteps(raw, start, n, before, after)
           S == {i \in 0 .. n : skip[i] = start + Len(join[i])}
<1>1. \A i \in 1 .. n : items[i] \in Seq(T)
  BY ItemType
<1>2. /\ join[0] = << >> /\ \A i \in 1 .. n : join[i] = join[i - 1] \o items[i]
      /\ Joined(items) = join[n]
  BY JoinStepsUnfold
<1>3. \A i \in 0 .. n : join[i] \in Seq(T)
  BY <1>1, JoinStepsType
<1>4. \A i \in 1 .. n : At(raw, start + Len(join[i - 1]), items[i])
  BY <1>1, JoinedStands
<1>5. /\ skip[0] = start /\ \A i \in 1 .. n : skip[i] = NextItem(raw, skip[i - 1], before, after)
      /\ SkipItems(raw, start, n, before, after) = skip[n]
  BY ItemStepsUnfold
<1>9. /\ Len(join[0]) = 0 /\ \A i \in 0 .. n : Len(join[i]) \in Nat
      /\ \A i \in 1 .. n : Len(join[i]) = Len(join[i - 1]) + Len(items[i])
  BY <1>1, JoinStepsLength
<1> HIDE DEF join, skip
<1>6. 0 \in S
  <2>1. skip[0] = start /\ Len(join[0]) = 0
    BY <1>5, <1>9
  <2>2. start + 0 = start /\ 0 \in 0 .. n
    OBVIOUS
  <2> QED
    BY <2>1, <2>2
<1>7. ASSUME NEW k \in 0 .. n - 1, k \in S
      PROVE  k + 1 \in S
  <2> DEFINE pos == start + Len(join[k])
             item == items[k + 1]
             len == readVarInt(raw, pos + before)
  <2>1. k + 1 \in 1 .. n /\ (k + 1) - 1 = k /\ k \in 0 .. n
    OBVIOUS
  <2>2. pos \in Nat \ {0} /\ item \in Seq(T)
    BY <1>1, <1>9, <2>1
  <2>3. At(raw, pos, item) /\ IsItem(item, T, before, after)
    BY <1>4, <2>1
  <2>4. skip[k] = pos /\ skip[k + 1] = NextItem(raw, pos, before, after)
    BY <1>5, <1>7, <2>1
  <2>5. Len(join[k + 1]) = Len(join[k]) + Len(item)
    BY <1>9, <2>1
  <2>6. len.next \in Nat \ {0} /\ len.next + len.value + after = pos + Len(item) /\ pos + Len(item) <= Len(raw) + 1
    <3> HIDE DEF pos, item
    <3> QED
      BY <2>2, <2>3, SkipsItem
  <2>7. NextItem(raw, pos, before, after) = pos + Len(item)
    <3> DEFINE end == pos + Len(item)
    <3>0. Len(item) \in Nat /\ Len(raw) \in Nat /\ pos \in Nat
      <4> HIDE DEF pos, item
      <4> QED
        BY <2>2
    <3>1. end \in Nat /\ end <= Len(raw) + 1 /\ Len(raw) \in Nat
      <4> HIDE DEF pos, item
      <4> QED
        BY <2>6, <3>0
    <3>2. pos # 0 /\ len.next # 0 /\ len.next + len.value + after = end
      BY <2>2, <2>6
    <3>3. NextItem(raw, pos, before, after) =
            IF pos = 0 \/ len.next = 0 \/ len.next + len.value + after > Len(raw) + 1
            THEN 0 ELSE len.next + len.value + after
      BY DEF NextItem
    <3> HIDE DEF end, pos, len
    <3>4. NextItem(raw, pos, before, after) = end
      BY <3>1, <3>2, <3>3
    <3> QED
      BY <3>4 DEF end
  <2>8. pos + Len(item) = start + Len(join[k + 1])
    <3>1. Len(item) \in Nat /\ Len(join[k]) \in Nat
      <4> HIDE DEF item
      <4> QED
        BY <1>9, <2>1, <2>2
    <3> HIDE DEF item
    <3> QED
      BY <2>5, <3>1
  <2>9. skip[k + 1] = start + Len(join[k + 1])
    BY <2>4, <2>7, <2>8
  <2> QED
    BY <2>1, <2>9
<1>8. 0 .. n \subseteq S
  <2> HIDE DEF S
  <2> QED
    BY <1>6, <1>7, BoundedInduction
<1> QED
  BY <1>2, <1>5, <1>8

(* A number of items with their count before them, and where they end when *)
(* they stand at start.                                                    *)
AreItems(items, T, before, after) ==
    Len(items) \in Nat /\ \A i \in 1 .. Len(items) : IsItem(items[i], T, before, after)
WithCount(items) == CompactSize(Len(items)) \o Joined(items)
EndOf(items, start) == start + Len(CompactSize(Len(items))) + Len(Joined(items))

LEMMA SkipsCounted ==
    ASSUME NEW T, IsTokens(T), NEW raw \in Seq(T), NEW start \in Nat \ {0},
           NEW before \in Nat, NEW after \in Nat,
           NEW items, AreItems(items, T, before, after), At(raw, start, WithCount(items))
    PROVE  SkipCounted(raw, start, before, after) = EndOf(items, start)
<1> DEFINE n == Len(items)
           size == CompactSize(n)
           count == readVarInt(raw, start)
<1> USE DEF AreItems, WithCount, EndOf
<1>1. size \in Seq(T) /\ Len(size) \in Nat
  BY CompactSizeType
<1>2. Joined(items) \in Seq(T)
  BY ItemType, JoinedType
<1>3. At(raw, start, size) /\ At(raw, start + Len(size), Joined(items))
  BY <1>1, <1>2, AtConcatenation
<1>4. count.value = n /\ count.next = start + Len(size)
  BY <1>3, ReadsCompactSize
<1> HIDE DEF size
<1>5. start + Len(size) \in Nat \ {0}
  BY <1>1
<1>6. SkipItems(raw, start + Len(size), n, before, after) = start + Len(size) + Len(Joined(items))
  BY <1>3, <1>5, SkipsItems
<1>7. SkipCounted(raw, start, before, after) =
        IF count.next = 0 THEN 0 ELSE SkipItems(raw, count.next, count.value, before, after)
  BY DEF SkipCounted
<1> HIDE DEF count
<1> QED
  BY <1>4, <1>5, <1>6, <1>7 DEF size

(* SkipStacks ends behind the last witness stack.                          *)
StackItems(items) == [i \in 1 .. Len(items) |-> VarBytes(items[i])]

LEMMA StackIsCounted ==
    ASSUME NEW T, IsTokens(T), NEW items \in Seq(Seq(T))
    PROVE  /\ Stack(items) = CompactSize(Len(StackItems(items))) \o Joined(StackItems(items))
           /\ Stack(items) \in Seq(T)
           /\ Len(Stack(items)) = Len(CompactSize(Len(StackItems(items)))) + Len(Joined(StackItems(items)))
           /\ Len(StackItems(items)) \in Nat
           /\ \A i \in 1 .. Len(StackItems(items)) : IsItem(StackItems(items)[i], T, 0, 0)
<1> DEFINE strings == StackItems(items)
<1>1. Len(strings) = Len(items) /\ \A i \in 1 .. Len(items) : strings[i] = VarBytes(items[i])
  BY DEF StackItems
<1>2. ASSUME NEW i \in 1 .. Len(items)
      PROVE  IsItem(strings[i], T, 0, 0)
  <2>1. items[i] \in Seq(T) /\ VarBytes(items[i]) \in Seq(T)
    BY VarBytesType
  <2>2. << >> \in Seq(T) /\ Len(<< >>) = 0
    OBVIOUS
  <2>3. << >> \o VarBytes(items[i]) \o << >> = VarBytes(items[i])
    BY <2>1, ConcatEmptySeq
  <2> QED
    BY <1>1, <2>1, <2>2, <2>3 DEF IsItem
<1>3. Stack(items) = CompactSize(Len(strings)) \o Joined(strings)
  BY <1>1 DEF Stack, StackItems
<1> HIDE DEF strings
<1>4. Len(strings) \in Nat
  BY <1>1
<1>5. \A i \in 1 .. Len(strings) : strings[i] \in Seq(T)
  BY <1>1, <1>2, ItemType
<1>6. Joined(strings) \in Seq(T)
  BY <1>4, <1>5, JoinedType
<1>7. CompactSize(Len(strings)) \in Seq(T)
  BY <1>4, CompactSizeType
<1>8. /\ Stack(items) \in Seq(T)
      /\ Len(Stack(items)) = Len(CompactSize(Len(strings))) + Len(Joined(strings))
  BY <1>3, <1>6, <1>7, ConcatLength
<1> QED
  BY <1>1, <1>2, <1>3, <1>4, <1>8 DEF strings

LEMMA SkipsStacks ==
    ASSUME NEW T, IsTokens(T), NEW raw \in Seq(T), NEW start \in Nat \ {0},
           NEW strings, Len(strings) \in Nat,
           \A i \in 1 .. Len(strings) : \E items \in Seq(Seq(T)) : strings[i] = Stack(items),
           At(raw, start, Joined(strings))
    PROVE  SkipStacks(raw, start, Len(strings)) = start + Len(Joined(strings))
<1> DEFINE n == Len(strings)
           join == JoinSteps(strings)
           skip == StackSteps(raw, start, n)
           S == {i \in 0 .. n : skip[i] = start + Len(join[i])}
<1>1. \A i \in 1 .. n : strings[i] \in Seq(T)
  BY StackIsCounted
<1>2. Joined(strings) = join[n]
  BY JoinStepsUnfold
<1>3. \A i \in 1 .. n : At(raw, start + Len(join[i - 1]), strings[i])
  BY <1>1, JoinedStands
<1>4. /\ skip[0] = start
      /\ \A i \in 1 .. n : skip[i] = IF skip[i - 1] = 0 THEN 0 ELSE SkipCounted(raw, skip[i - 1], 0, 0)
      /\ SkipStacks(raw, start, n) = skip[n]
  BY StackStepsUnfold
<1>5. /\ Len(join[0]) = 0 /\ \A i \in 0 .. n : Len(join[i]) \in Nat
      /\ \A i \in 1 .. n : Len(join[i]) = Len(join[i - 1]) + Len(strings[i])
  BY <1>1, JoinStepsLength
<1> HIDE DEF join, skip
<1>6. 0 \in S
  <2>1. skip[0] = start /\ Len(join[0]) = 0
    BY <1>4, <1>5
  <2>2. start + 0 = start /\ 0 \in 0 .. n
    OBVIOUS
  <2> QED
    BY <2>1, <2>2
<1>7. ASSUME NEW k \in 0 .. n - 1, k \in S
      PROVE  k + 1 \in S
  <2> DEFINE pos == start + Len(join[k])
             string == strings[k + 1]
  <2>1. k + 1 \in 1 .. n /\ (k + 1) - 1 = k /\ k \in 0 .. n
    OBVIOUS
  <2>2. pos \in Nat \ {0} /\ Len(join[k]) \in Nat
    BY <1>5, <2>1
  <2>3. PICK items \in Seq(Seq(T)) : string = Stack(items)
    BY <2>1
  <2>4. At(raw, pos, string)
    BY <1>3, <2>1
  <2>5. skip[k + 1] = SkipCounted(raw, pos, 0, 0)
    BY <1>4, <1>7, <2>1, <2>2
  <2> HIDE DEF pos, string
  <2> DEFINE stack == StackItems(items)
             size == CompactSize(Len(stack))
  <2>6. SkipCounted(raw, pos, 0, 0) = pos + Len(size) + Len(Joined(stack))
    <3>1. /\ Len(stack) \in Nat /\ \A i \in 1 .. Len(stack) : IsItem(stack[i], T, 0, 0)
          /\ At(raw, pos, CompactSize(Len(stack)) \o Joined(stack))
      BY <2>3, <2>4, StackIsCounted
    <3> HIDE DEF stack
    <3>2. AreItems(stack, T, 0, 0) /\ At(raw, pos, WithCount(stack))
      BY <3>1, Zenon DEF AreItems, WithCount
    <3>3. 0 \in Nat
      OBVIOUS
    <3>4. SkipCounted(raw, pos, 0, 0) = EndOf(stack, pos)
      BY <2>2, <3>2, <3>3, SkipsCounted
    <3> QED
      BY <3>4, Zenon DEF EndOf
  <2>7. Len(string) = Len(size) + Len(Joined(stack)) /\ Len(size) \in Nat /\ Len(Joined(stack)) \in Nat
    <3>1. /\ Len(stack) \in Nat /\ \A i \in 1 .. Len(stack) : IsItem(stack[i], T, 0, 0)
          /\ Len(string) = Len(size) + Len(Joined(stack))
      BY <2>3, StackIsCounted
    <3> HIDE DEF stack
    <3>2. size \in Seq(T)
      BY <3>1, CompactSizeType
    <3>3. Joined(stack) \in Seq(T)
      BY <3>1, ItemType, JoinedType
    <3> HIDE DEF size
    <3> QED
      BY <3>1, <3>2, <3>3
  <2>8. Len(join[k + 1]) = Len(join[k]) + Len(string)
    BY <1>5, <2>1 DEF string
  <2> HIDE DEF size, stack
  <2>9. skip[k + 1] = start + Len(join[k + 1])
    <3>1. pos + Len(size) + Len(Joined(stack)) = pos + Len(string)
      BY <2>2, <2>7
    <3>2. Len(string) \in Nat
      BY <2>7
    <3>3. pos + Len(string) = start + (Len(join[k]) + Len(string))
      BY <2>2, <3>2 DEF pos
    <3> QED
      BY <2>5, <2>6, <2>8, <3>1, <3>3
  <2> QED
    BY <2>1, <2>9
<1>8. 0 .. n \subseteq S
  <2> HIDE DEF S
  <2> QED
    BY <1>6, <1>7, BoundedInduction
<1> QED
  BY <1>2, <1>4, <1>8

-----------------------------------------------------------------------------
Inputs(tx) ==
    [i \in 1 .. Len(tx.ins) |-> <<tx.ins[i].from>> \o VarBytes(tx.ins[i].script) \o <<Field("sequence")>>]

Outputs(tx) ==
    [i \in 1 .. Len(tx.outs) |-> <<[amount |-> tx.outs[i].value]>> \o VarBytes(tx.outs[i].script)]

Counted(items) == CompactSize(Len(items)) \o Joined(items)

Body(tx) == Counted(Inputs(tx)) \o Counted(Outputs(tx))

LEMMA CountedType ==
    ASSUME NEW T, IsTokens(T), NEW items, Len(items) \in Nat,
           \A i \in 1 .. Len(items) : items[i] \in Seq(T)
    PROVE  /\ Counted(items) \in Seq(T) /\ CompactSize(Len(items)) \in Seq(T)
           /\ Joined(items) \in Seq(T)
           /\ Len(Counted(items)) = Len(CompactSize(Len(items))) + Len(Joined(items))
<1>1. CompactSize(Len(items)) \in Seq(T)
  BY CompactSizeType
<1>2. Joined(items) \in Seq(T)
  BY JoinedType
<1> QED
  BY <1>1, <1>2, ConcatLength DEF Counted

LEMMA InputsAreItems ==
    ASSUME NEW T, IsTokens(T), NEW tx \in Transactions(T)
    PROVE  /\ Len(Inputs(tx)) = Len(tx.ins) /\ Len(tx.ins) \in Nat \ {0}
           /\ \A i \in 1 .. Len(Inputs(tx)) : IsItem(Inputs(tx)[i], T, 1, 1) /\ Inputs(tx)[i] \in Seq(T)
<1>1. tx.ins \in Seq([from : T, script : Seq(T)]) /\ tx.ins # << >>
  BY DEF Transactions
<1>2. Len(tx.ins) \in Nat \ {0}
  BY <1>1
<1>3. Len(Inputs(tx)) = Len(tx.ins)
  BY <1>2 DEF Inputs
<1>4. ASSUME NEW i \in 1 .. Len(tx.ins)
      PROVE  IsItem(Inputs(tx)[i], T, 1, 1)
  <2>1. tx.ins[i] \in [from : T, script : Seq(T)]
    BY <1>1, ElementOfSeq
  <2>2. <<tx.ins[i].from>> \in Seq(T) /\ Len(<<tx.ins[i].from>>) = 1
    BY <2>1
  <2>3. Field("sequence") \in T
    BY DEF IsTokens
  <2>4. <<Field("sequence")>> \in Seq(T) /\ Len(<<Field("sequence")>>) = 1
    BY <2>3
  <2>5. Inputs(tx)[i] = <<tx.ins[i].from>> \o VarBytes(tx.ins[i].script) \o <<Field("sequence")>>
    BY DEF Inputs
  <2>6. tx.ins[i].script \in Seq(T)
    BY <2>1
  <2> QED
    BY <2>2, <2>4, <2>5, <2>6 DEF IsItem
<1> QED
  BY <1>2, <1>3, <1>4, ItemType

LEMMA OutputsAreItems ==
    ASSUME NEW T, IsTokens(T), NEW tx \in Transactions(T)
    PROVE  /\ Len(Outputs(tx)) = Len(tx.outs) /\ Len(tx.outs) \in Nat
           /\ \A i \in 1 .. Len(Outputs(tx)) : IsItem(Outputs(tx)[i], T, 1, 0) /\ Outputs(tx)[i] \in Seq(T)
<1>1. tx.outs \in Seq([value : Int, script : Seq(T)])
  BY DEF Transactions
<1>2. Len(tx.outs) \in Nat
  BY <1>1
<1>3. Len(Outputs(tx)) = Len(tx.outs)
  BY <1>2 DEF Outputs
<1>4. ASSUME NEW i \in 1 .. Len(tx.outs)
      PROVE  IsItem(Outputs(tx)[i], T, 1, 0)
  <2>1. tx.outs[i] \in [value : Int, script : Seq(T)]
    BY <1>1, ElementOfSeq
  <2> DEFINE amount == [amount |-> tx.outs[i].value]
  <2>2. amount \in T
    BY <2>1 DEF IsTokens
  <2>3. tx.outs[i].script \in Seq(T)
    BY <2>1
  <2>4. Outputs(tx)[i] = <<amount>> \o VarBytes(tx.outs[i].script)
    BY DEF Outputs
  <2> HIDE DEF amount
  <2>5. <<amount>> \in Seq(T) /\ Len(<<amount>>) = 1
    BY <2>2
  <2>6. << >> \in Seq(T) /\ Len(<< >>) = 0
    OBVIOUS
  <2>7. <<amount>> \o VarBytes(tx.outs[i].script) \in Seq(T)
    BY <2>3, <2>5, VarBytesType, ConcatLength
  <2>8. Outputs(tx)[i] = <<amount>> \o VarBytes(tx.outs[i].script) \o << >>
    BY <2>4, <2>7, ConcatEmptySeq
  <2> QED
    BY <2>3, <2>5, <2>6, <2>8 DEF IsItem
<1> QED
  BY <1>2, <1>3, <1>4, ItemType

LEMMA BodyType ==
    ASSUME NEW T, IsTokens(T), NEW tx \in Transactions(T)
    PROVE  /\ Counted(Inputs(tx)) \in Seq(T) /\ Counted(Outputs(tx)) \in Seq(T) /\ Body(tx) \in Seq(T)
           /\ Len(Body(tx)) = Len(Counted(Inputs(tx))) + Len(Counted(Outputs(tx)))
<1>1. Counted(Inputs(tx)) \in Seq(T)
  <2>1. Len(Inputs(tx)) \in Nat /\ \A i \in 1 .. Len(Inputs(tx)) : Inputs(tx)[i] \in Seq(T)
    BY InputsAreItems
  <2> QED
    BY <2>1, CountedType
<1>2. Counted(Outputs(tx)) \in Seq(T)
  <2>1. Len(Outputs(tx)) \in Nat /\ \A i \in 1 .. Len(Outputs(tx)) : Outputs(tx)[i] \in Seq(T)
    BY OutputsAreItems
  <2> QED
    BY <2>1, CountedType
<1> QED
  BY <1>1, <1>2, ConcatLength DEF Body

LEMMA AtWhole ==
    ASSUME NEW T, NEW raw \in Seq(T), NEW s \in Seq(T), At(raw, 1, s), Len(raw) = Len(s)
    PROVE  raw = s
<1>1. \A i \in 1 .. Len(s) : raw[i] = s[i]
  <2>1. \A i \in 1 .. Len(s) : raw[1 + i - 1] = s[i] /\ 1 + i - 1 = i
    BY DEF At
  <2> QED
    BY <2>1
<1> QED
  BY <1>1, SeqEqual

LEMMA Empty == \A T : << >> \in Seq(T) /\ Len(<< >>) = 0
  OBVIOUS

LEMMA Single ==
    ASSUME NEW T, NEW t \in T
    PROVE  <<t>> \in Seq(T) /\ Len(<<t>>) = 1 /\ <<t>>[1] = t
  OBVIOUS

LEMMA AtNothing ==
    ASSUME NEW T, NEW raw \in Seq(T), NEW pos \in 1 .. Len(raw) + 1
    PROVE  At(raw, pos, << >>)
  BY DEF At

LEMMA AtSingle ==
    ASSUME NEW T, NEW raw \in Seq(T), NEW pos \in Nat \ {0}, NEW t
    PROVE  At(raw, pos, <<t>>) <=> pos <= Len(raw) /\ raw[pos] = t
<1>1. Len(<<t>>) = 1 /\ <<t>>[1] = t
  OBVIOUS
<1> DEFINE s == <<t>>
<1>2. Len(s) = 1 /\ s[1] = t
  BY <1>1
<1> HIDE DEF s
<1>3. At(raw, pos, s) <=> pos <= Len(raw) /\ raw[pos] = t
  <2>1. pos + 1 - 1 = pos /\ 1 .. Len(s) = {1}
    BY <1>2
  <2> QED
    BY <1>2, <2>1 DEF At
<1> QED
  BY <1>3 DEF s

(* Where the parts of a serialised transaction stand in it.                *)
Stands(raw, tx, T, marker, stacks) ==
    LET start == 2 + Len(marker)
        mid   == start + Len(Counted(Inputs(tx)))
        end   == start + Len(Body(tx))
        last  == end + Len(stacks)
    IN  /\ raw \in Seq(T)
        /\ Len(raw) = last + Len(tx.foreign)
        /\ raw[1] = Field("version")
        /\ At(raw, 2, marker)
        /\ At(raw, start, Counted(Inputs(tx)))
        /\ At(raw, mid, Counted(Outputs(tx)))
        /\ At(raw, start, Body(tx))
        /\ At(raw, end, stacks)
        /\ raw[last] = Field("locktime")
        /\ start \in Nat \ {0} /\ mid \in Nat \ {0} /\ end \in Nat \ {0} /\ last \in Nat \ {0}

LEMMA PartsStand ==
    ASSUME NEW T, IsTokens(T), NEW tx \in Transactions(T),
           NEW marker \in Seq(T), NEW stacks \in Seq(T),
           NEW raw, raw = SerialiseParts(tx, marker, stacks)
    PROVE  Stands(raw, tx, T, marker, stacks)
<1> DEFINE vers == <<Field("version")>>
           lock == <<Field("locktime")>>
           c1 == CompactSize(Len(Inputs(tx)))
           j1 == Joined(Inputs(tx))
           c2 == CompactSize(Len(Outputs(tx)))
           j2 == Joined(Outputs(tx))
           foreign == tx.foreign
<1>1. c1 \in Seq(T) /\ j1 \in Seq(T) /\ Counted(Inputs(tx)) = c1 \o j1
  <2>1. Len(Inputs(tx)) \in Nat /\ \A i \in 1 .. Len(Inputs(tx)) : Inputs(tx)[i] \in Seq(T)
    BY InputsAreItems
  <2> QED
    BY <2>1, CountedType DEF Counted
<1>2. c2 \in Seq(T) /\ j2 \in Seq(T) /\ Counted(Outputs(tx)) = c2 \o j2
  <2>1. Len(Outputs(tx)) \in Nat /\ \A i \in 1 .. Len(Outputs(tx)) : Outputs(tx)[i] \in Seq(T)
    BY OutputsAreItems
  <2> QED
    BY <2>1, CountedType DEF Counted
<1>3. Field("version") \in T /\ Field("locktime") \in T
  BY DEF IsTokens
<1>4. /\ vers \in Seq(T) /\ Len(vers) = 1 /\ vers[1] = Field("version")
      /\ lock \in Seq(T) /\ Len(lock) = 1
  BY <1>3, Single
<1>5. foreign \in Seq(T)
  BY DEF Transactions
<1>6. raw = vers \o marker \o c1 \o j1 \o c2 \o j2 \o stacks \o lock \o foreign
  <2>1. Len(Inputs(tx)) = Len(tx.ins) /\ Len(Outputs(tx)) = Len(tx.outs)
    BY InputsAreItems, OutputsAreItems
  <2> QED
    BY <2>1 DEF SerialiseParts, Inputs, Outputs
<1> DEFINE counted1 == Counted(Inputs(tx))
           counted2 == Counted(Outputs(tx))
           body == Body(tx)
<1>7. body = counted1 \o counted2 /\ counted1 = c1 \o j1 /\ counted2 = c2 \o j2
  BY <1>1, <1>2 DEF Body
<1> HIDE DEF vers, lock, c1, j1, c2, j2, foreign, counted1, counted2, body
<1> DEFINE q1 == vers \o marker
           q2 == q1 \o c1
           q3 == q2 \o j1
           q4 == q3 \o c2
           q5 == q4 \o j2
           q6 == q5 \o stacks
           q7 == q6 \o lock
<1>8. raw = q7 \o foreign
  BY <1>6
<1>11. q1 \in Seq(T) /\ Len(q1) = 1 + Len(marker)
  BY <1>4, ConcatLength
<1> HIDE DEF q1
<1>12. q2 \in Seq(T) /\ Len(q2) = Len(q1) + Len(c1) /\ Len(q1) \in Nat /\ Len(c1) \in Nat
  BY <1>1, <1>11, ConcatLength
<1> HIDE DEF q2
<1>13. q3 \in Seq(T) /\ Len(q3) = Len(q2) + Len(j1) /\ Len(q2) \in Nat /\ Len(j1) \in Nat
  BY <1>1, <1>12, ConcatLength
<1> HIDE DEF q3
<1>14. q4 \in Seq(T) /\ Len(q4) = Len(q3) + Len(c2) /\ Len(q3) \in Nat /\ Len(c2) \in Nat
  BY <1>2, <1>13, ConcatLength
<1> HIDE DEF q4
<1>15. q5 \in Seq(T) /\ Len(q5) = Len(q4) + Len(j2) /\ Len(q4) \in Nat /\ Len(j2) \in Nat
  BY <1>2, <1>14, ConcatLength
<1> HIDE DEF q5
<1>16. q6 \in Seq(T) /\ Len(q6) = Len(q5) + Len(stacks) /\ Len(q5) \in Nat /\ Len(stacks) \in Nat
  BY <1>15, ConcatLength
<1> HIDE DEF q6
<1>17. q7 \in Seq(T) /\ Len(q7) = Len(q6) + 1 /\ Len(q6) \in Nat
  <2>1. q7 \in Seq(T) /\ Len(q7) = Len(q6) + Len(lock) /\ Len(q6) \in Nat
    BY <1>4, <1>16, ConcatLength, Zenon
  <2> HIDE DEF q7
  <2> QED
    BY <1>4, <2>1
<1> HIDE DEF q7
<1>18. raw \in Seq(T) /\ Len(raw) = Len(q7) + Len(foreign)
  BY <1>5, <1>8, <1>17, ConcatLength
<1>19. 1 \in Nat \ {0} /\ Len(marker) \in Nat /\ Len(foreign) \in Nat
  BY <1>5
<1>20. At(raw, 1, q7)
  <2>1. At(raw, 1, q7 \o foreign)
    BY <1>8, <1>18, AtItself
  <2> QED
    BY <1>5, <1>17, <1>18, <1>19, <2>1, AtConcatenation
<1>21. At(raw, 1, q6) /\ At(raw, 1 + Len(q6), lock)
  BY <1>4, <1>16, <1>18, <1>19, <1>20, AtConcatenation DEF q7
<1>22. At(raw, 1, q5) /\ At(raw, 1 + Len(q5), stacks)
  BY <1>15, <1>18, <1>19, <1>21, AtConcatenation DEF q6
<1>23. At(raw, 1, q4) /\ At(raw, 1 + Len(q4), j2)
  BY <1>2, <1>14, <1>18, <1>19, <1>22, AtConcatenation DEF q5
<1>24. At(raw, 1, q3) /\ At(raw, 1 + Len(q3), c2)
  BY <1>2, <1>13, <1>18, <1>19, <1>23, AtConcatenation DEF q4
<1>25. At(raw, 1, q2) /\ At(raw, 1 + Len(q2), j1)
  BY <1>1, <1>12, <1>18, <1>19, <1>24, AtConcatenation DEF q3
<1>26. At(raw, 1, q1) /\ At(raw, 1 + Len(q1), c1)
  BY <1>1, <1>11, <1>18, <1>19, <1>25, AtConcatenation DEF q2
<1>27. At(raw, 1, vers) /\ At(raw, 1 + Len(vers), marker)
  BY <1>4, <1>18, <1>19, <1>26, AtConcatenation DEF q1
<1> DEFINE start == 2 + Len(marker)
           mid   == start + Len(counted1)
           end   == start + Len(body)
           last  == end + Len(stacks)
<1>28. /\ counted1 \in Seq(T) /\ Len(counted1) = Len(c1) + Len(j1)
       /\ counted2 \in Seq(T) /\ Len(counted2) = Len(c2) + Len(j2)
  BY <1>1, <1>2, <1>7, ConcatLength
<1>29. body \in Seq(T) /\ Len(body) = Len(counted1) + Len(counted2)
  BY <1>7, <1>28, ConcatLength
<1>30. /\ Len(counted1) \in Nat /\ Len(counted2) \in Nat
       /\ Len(counted1) = Len(c1) + Len(j1) /\ Len(counted2) = Len(c2) + Len(j2)
       /\ Len(body) = Len(counted1) + Len(counted2)
  BY <1>28, <1>29
<1>31. /\ 1 + Len(q1) = start /\ 1 + Len(q2) = start + Len(c1)
       /\ 1 + Len(q3) = mid /\ 1 + Len(q4) = mid + Len(c2)
       /\ 1 + Len(q5) = end /\ 1 + Len(q6) = last /\ Len(q7) = last
       /\ start \in Nat \ {0} /\ mid \in Nat \ {0} /\ end \in Nat \ {0} /\ last \in Nat \ {0}
  <2> HIDE DEF start, mid, end, last
  <2>1. 1 + Len(q1) = start /\ start \in Nat \ {0}
    BY <1>11, <1>19 DEF start
  <2>2. 1 + Len(q2) = start + Len(c1)
    <3>1. Len(q2) = Len(q1) + Len(c1) /\ Len(q1) \in Nat /\ Len(c1) \in Nat
      BY <1>12, Zenon
    <3> QED
      BY <2>1, <3>1
  <2>3. 1 + Len(q3) = mid /\ mid \in Nat \ {0}
    <3>1. /\ Len(q3) = Len(q2) + Len(j1) /\ Len(q2) \in Nat /\ Len(j1) \in Nat
          /\ Len(c1) \in Nat
      BY <1>12, <1>13, Zenon
    <3>2. mid = start + Len(counted1) /\ Len(counted1) = Len(c1) + Len(j1)
      BY <1>30 DEF mid
    <3> QED
      BY <2>1, <2>2, <3>1, <3>2
  <2>4. 1 + Len(q4) = mid + Len(c2)
    <3>1. Len(q4) = Len(q3) + Len(c2) /\ Len(q3) \in Nat /\ Len(c2) \in Nat
      BY <1>14, Zenon
    <3> QED
      BY <2>3, <3>1
  <2>5. 1 + Len(q5) = end /\ end \in Nat \ {0}
    <3>1. /\ Len(q5) = Len(q4) + Len(j2) /\ Len(q4) \in Nat /\ Len(j2) \in Nat
          /\ Len(c2) \in Nat
      BY <1>14, <1>15, Zenon
    <3>2. 1 + Len(q5) = mid + Len(counted2)
      <4>1. Len(counted2) = Len(c2) + Len(j2)
        BY <1>30
      <4> QED
        BY <2>3, <2>4, <3>1, <4>1
    <3>3. end = mid + Len(counted2) /\ end \in Nat \ {0}
      BY <1>30, <2>1 DEF mid, end
    <3> QED
      BY <3>2, <3>3
  <2>6. 1 + Len(q6) = last /\ last \in Nat \ {0}
    <3>1. Len(q6) = Len(q5) + Len(stacks) /\ Len(q5) \in Nat /\ Len(stacks) \in Nat
      BY <1>16, Zenon
    <3> QED
      BY <2>5, <3>1 DEF last
  <2>7. Len(q7) = last
    <3>1. Len(q7) = Len(q6) + 1 /\ Len(q6) \in Nat
      BY <1>17, Zenon
    <3> QED
      BY <2>6, <3>1
  <2> QED
    BY <2>1, <2>2, <2>3, <2>4, <2>5, <2>6, <2>7
<1> HIDE DEF start, mid, end, last
<1>32. At(raw, start, counted1)
  <2>1. At(raw, start, c1) /\ At(raw, start + Len(c1), j1) /\ start \in Nat \ {0}
    BY <1>25, <1>26, <1>31
  <2> QED
    BY <1>1, <1>7, <1>18, <2>1, AtConcatenation
<1>33. At(raw, mid, counted2)
  <2>1. At(raw, mid, c2) /\ At(raw, mid + Len(c2), j2) /\ mid \in Nat \ {0}
    BY <1>23, <1>24, <1>31
  <2> QED
    BY <1>2, <1>7, <1>18, <2>1, AtConcatenation
<1>34. At(raw, start, body)
  <2>1. start \in Nat \ {0} /\ At(raw, start + Len(counted1), counted2)
    BY <1>31, <1>33 DEF mid
  <2> QED
    BY <1>7, <1>18, <1>28, <1>32, <2>1, AtConcatenation
<1>35. raw[1] = Field("version") /\ At(raw, 2, marker)
  <2>1. 1 + 1 = 2
    OBVIOUS
  <2>2. raw[1] = Field("version")
    BY <1>18, <1>19, <1>27, AtSingle DEF vers
  <2> QED
    BY <1>4, <1>27, <2>1, <2>2
<1>36. raw[last] = Field("locktime")
  <2>1. last \in Nat \ {0} /\ At(raw, last, lock)
    BY <1>21, <1>31
  <2> QED
    BY <1>18, <2>1, AtSingle DEF lock
<1>37. At(raw, end, stacks) /\ Len(raw) = last + Len(foreign)
  BY <1>18, <1>22, <1>31
<1> QED
  BY <1>18, <1>31, <1>32, <1>33, <1>34, <1>35, <1>36, <1>37
     DEF Stands, start, mid, end, last, counted1, counted2, body, foreign

(* What the pool's reader makes of the body, with or without a witness.    *)
LEMMA ReadsBody ==
    ASSUME NEW T, IsTokens(T), NEW tx \in Transactions(T), NEW raw \in Seq(T), NEW start \in Nat \ {0},
           At(raw, start, Counted(Inputs(tx))),
           At(raw, start + Len(Counted(Inputs(tx))), Counted(Outputs(tx)))
    PROVE  LET count == readVarInt(raw, start)
               mid   == start + Len(Counted(Inputs(tx)))
           IN  /\ count.value = Len(tx.ins) /\ count.next # 0
               /\ SkipCounted(raw, start, 1, 1) = mid
               /\ SkipCounted(raw, mid, 1, 0) = start + Len(Body(tx))
<1> DEFINE ins == Inputs(tx)
           outs == Outputs(tx)
<1>1. /\ Len(ins) \in Nat /\ Len(ins) = Len(tx.ins)
      /\ \A i \in 1 .. Len(ins) : IsItem(ins[i], T, 1, 1) /\ ins[i] \in Seq(T)
  BY InputsAreItems
<1>2. /\ Len(outs) \in Nat
      /\ \A i \in 1 .. Len(outs) : IsItem(outs[i], T, 1, 0) /\ outs[i] \in Seq(T)
  BY OutputsAreItems
<1>3. At(raw, start, Counted(ins)) /\ At(raw, start + Len(Counted(ins)), Counted(outs))
  OBVIOUS
<1>4. Len(Body(tx)) = Len(Counted(ins)) + Len(Counted(outs)) /\ Body(tx) \in Seq(T)
  BY BodyType
<1> HIDE DEF ins, outs
<1>5. 1 \in Nat /\ 0 \in Nat
  OBVIOUS
<1>6. /\ Counted(ins) \in Seq(T) /\ CompactSize(Len(ins)) \in Seq(T) /\ Joined(ins) \in Seq(T)
      /\ Len(Counted(ins)) = Len(CompactSize(Len(ins))) + Len(Joined(ins))
  BY <1>1, CountedType
<1>7. /\ Counted(outs) \in Seq(T) /\ CompactSize(Len(outs)) \in Seq(T) /\ Joined(outs) \in Seq(T)
      /\ Len(Counted(outs)) = Len(CompactSize(Len(outs))) + Len(Joined(outs))
  BY <1>2, CountedType
<1>8. SkipCounted(raw, start, 1, 1) = start + Len(CompactSize(Len(ins))) + Len(Joined(ins))
  <2>1. At(raw, start, CompactSize(Len(ins)) \o Joined(ins))
    BY <1>3 DEF Counted
  <2>2. AreItems(ins, T, 1, 1) /\ At(raw, start, WithCount(ins))
    BY <1>1, <2>1, Zenon DEF AreItems, WithCount
  <2>3. SkipCounted(raw, start, 1, 1) = EndOf(ins, start)
    BY <1>5, <2>2, SkipsCounted
  <2> QED
    BY <2>3, Zenon DEF EndOf
<1> DEFINE mid == start + Len(Counted(ins))
<1>9. mid \in Nat \ {0}
  BY <1>6
<1> HIDE DEF mid
<1>10. SkipCounted(raw, mid, 1, 0) = mid + Len(CompactSize(Len(outs))) + Len(Joined(outs))
  <2>1. At(raw, mid, CompactSize(Len(outs)) \o Joined(outs))
    BY <1>3 DEF mid, Counted
  <2>2. AreItems(outs, T, 1, 0) /\ At(raw, mid, WithCount(outs))
    BY <1>2, <2>1, Zenon DEF AreItems, WithCount
  <2>3. SkipCounted(raw, mid, 1, 0) = EndOf(outs, mid)
    BY <1>5, <1>9, <2>2, SkipsCounted
  <2> QED
    BY <2>3, Zenon DEF EndOf
<1>11. readVarInt(raw, start) = [value |-> Len(ins), next |-> start + Len(CompactSize(Len(ins)))]
  <2>1. At(raw, start, CompactSize(Len(ins)))
    BY <1>3, <1>6, AtConcatenation DEF Counted
  <2> QED
    BY <1>1, <2>1, ReadsCompactSize
<1>12. /\ Len(CompactSize(Len(ins))) \in Nat /\ Len(Joined(ins)) \in Nat
       /\ Len(CompactSize(Len(outs))) \in Nat /\ Len(Joined(outs)) \in Nat
  BY <1>6, <1>7
<1>13. start + Len(CompactSize(Len(ins))) + Len(Joined(ins)) = mid
  BY <1>6, <1>12 DEF mid
<1>14. mid + Len(CompactSize(Len(outs))) + Len(Joined(outs)) = start + Len(Body(tx))
  BY <1>4, <1>6, <1>7, <1>12 DEF mid
<1>15. start + Len(CompactSize(Len(ins))) # 0
  BY <1>12
<1> QED
  BY <1>1, <1>8, <1>10, <1>11, <1>13, <1>14, <1>15 DEF mid, ins, outs

LEMMA SkipsBody ==
    ASSUME NEW T, IsTokens(T), NEW tx \in Transactions(T), NEW raw, NEW marker, NEW stacks,
           Stands(raw, tx, T, marker, stacks)
    PROVE  LET start == 2 + Len(marker)
               count == readVarInt(raw, start)
               mid   == SkipCounted(raw, start, 1, 1)
           IN  /\ count.value = Len(tx.ins) /\ count.next # 0 /\ mid # 0
               /\ SkipCounted(raw, mid, 1, 0) = start + Len(Body(tx))
<1> DEFINE start == 2 + Len(marker)
<1>1. /\ raw \in Seq(T) /\ start \in Nat \ {0}
      /\ At(raw, start, Counted(Inputs(tx)))
      /\ At(raw, start + Len(Counted(Inputs(tx))), Counted(Outputs(tx)))
      /\ start + Len(Counted(Inputs(tx))) \in Nat \ {0}
  BY Zenon DEF Stands
<1> HIDE DEF start
<1>2. /\ readVarInt(raw, start).value = Len(tx.ins) /\ readVarInt(raw, start).next # 0
      /\ SkipCounted(raw, start, 1, 1) = start + Len(Counted(Inputs(tx)))
      /\ SkipCounted(raw, start + Len(Counted(Inputs(tx))), 1, 0) = start + Len(Body(tx))
  BY <1>1, ReadsBody
<1>3. start + Len(Counted(Inputs(tx))) # 0
  BY <1>1
<1> QED
  BY <1>2, <1>3 DEF start

(* A serialised transaction is its parts, with a witness and without one.  *)
Marker(tx) == IF tx.stacks = << >> THEN << >> ELSE <<Byte(0), Byte(1)>>
StackStrings(tx) == [i \in 1 .. Len(tx.stacks) |-> Stack(tx.stacks[i])]

LEMMA StackStringsType ==
    ASSUME NEW T, IsTokens(T), NEW tx \in Transactions(T)
    PROVE  /\ Len(tx.stacks) \in Nat /\ Len(StackStrings(tx)) = Len(tx.stacks)
           /\ \A i \in 1 .. Len(StackStrings(tx)) : \E items \in Seq(Seq(T)) : StackStrings(tx)[i] = Stack(items)
           /\ Joined(StackStrings(tx)) \in Seq(T)
<1>1. tx.stacks \in Seq(Seq(Seq(T)))
  BY DEF Transactions
<1>2. Len(tx.stacks) \in Nat
  BY <1>1
<1> DEFINE strings == StackStrings(tx)
<1>3. Len(strings) = Len(tx.stacks) /\ \A i \in 1 .. Len(tx.stacks) : strings[i] = Stack(tx.stacks[i])
  BY <1>2 DEF StackStrings
<1> HIDE DEF strings
<1>4. ASSUME NEW i \in 1 .. Len(tx.stacks)
      PROVE  strings[i] \in Seq(T) /\ \E items \in Seq(Seq(T)) : strings[i] = Stack(items)
  <2>1. tx.stacks[i] \in Seq(Seq(T))
    BY <1>1, ElementOfSeq
  <2>2. Stack(tx.stacks[i]) \in Seq(T)
    BY <2>1, StackIsCounted
  <2> QED
    BY <1>3, <2>1, <2>2
<1>5. Joined(strings) \in Seq(T)
  BY <1>2, <1>3, <1>4, JoinedType
<1> QED
  BY <1>2, <1>3, <1>4, <1>5 DEF strings

LEMMA NothingJoined == ASSUME NEW strings, Len(strings) = 0 PROVE Joined(strings) = << >>
<1>1. Len(strings) \in Nat
  OBVIOUS
<1>2. JoinSteps(strings)[0] = << >> /\ Joined(strings) = JoinSteps(strings)[Len(strings)]
  BY <1>1, JoinStepsUnfold, Zenon
<1> QED
  BY <1>2, Zenon

LEMMA SerialisedStands ==
    ASSUME NEW T, IsTokens(T), NEW tx \in Transactions(T)
    PROVE  /\ Stands(Serialised(tx), tx, T, Marker(tx), Joined(StackStrings(tx)))
           /\ Stands(Stripped(tx), tx, T, << >>, << >>)
           /\ Marker(tx) \in Seq(T) /\ Joined(StackStrings(tx)) \in Seq(T)
           /\ tx.stacks = << >> => Joined(StackStrings(tx)) = << >>
<1>1. Byte(0) \in T /\ Byte(1) \in T
  BY DEF IsTokens
<1>2. Marker(tx) \in Seq(T)
  BY <1>1 DEF Marker
<1>3. Joined(StackStrings(tx)) \in Seq(T)
  BY StackStringsType
<1>4. << >> \in Seq(T)
  OBVIOUS
<1>5. Stands(Stripped(tx), tx, T, << >>, << >>)
  BY <1>4, PartsStand, Zenon DEF Stripped
<1>6. ASSUME tx.stacks = << >>
      PROVE  Joined(StackStrings(tx)) = << >>
  <2>1. Len(StackStrings(tx)) = 0
    BY <1>6, StackStringsType
  <2> QED
    BY <2>1, NothingJoined
<1>7. Serialised(tx) = SerialiseParts(tx, Marker(tx), Joined(StackStrings(tx)))
  <2>1. CASE tx.stacks = << >>
    BY <1>6, <2>1 DEF Serialised, Stripped, Marker
  <2>2. CASE tx.stacks # << >>
    BY <2>2, Zenon DEF Serialised, Marker, StackStrings
  <2> QED
    BY <2>1, <2>2
<1>8. Stands(Serialised(tx), tx, T, Marker(tx), Joined(StackStrings(tx)))
  BY <1>2, <1>3, <1>7, PartsStand, Zenon
<1> QED
  BY <1>2, <1>3, <1>5, <1>6, <1>8

LEMMA CountedLength ==
    ASSUME NEW T, IsTokens(T), NEW items, Len(items) \in Nat,
           \A i \in 1 .. Len(items) : items[i] \in Seq(T)
    PROVE  Len(Counted(items)) \in Nat \ {0}
<1>1. /\ Len(Counted(items)) = Len(CompactSize(Len(items))) + Len(Joined(items))
      /\ Joined(items) \in Seq(T)
  BY CountedType
<1>2. Len(CompactSize(Len(items))) \in 1 .. 2
  BY CompactSizeType
<1>3. Len(Joined(items)) \in Nat
  BY <1>1
<1> DEFINE head == Len(CompactSize(Len(items)))
           rest == Len(Joined(items))
<1>4. Len(Counted(items)) = head + rest /\ head \in 1 .. 2 /\ rest \in Nat
  BY <1>1, <1>2, <1>3
<1> HIDE DEF head, rest
<1> QED
  BY <1>4

LEMMA BodyLength ==
    ASSUME NEW T, IsTokens(T), NEW tx \in Transactions(T)
    PROVE  Len(Body(tx)) \in Nat /\ Len(Body(tx)) >= 2
<1>1. Len(Body(tx)) = Len(Counted(Inputs(tx))) + Len(Counted(Outputs(tx)))
  BY BodyType
<1>2. Len(Counted(Inputs(tx))) \in Nat \ {0}
  <2>1. Len(Inputs(tx)) \in Nat /\ \A i \in 1 .. Len(Inputs(tx)) : Inputs(tx)[i] \in Seq(T)
    BY InputsAreItems
  <2> QED
    BY <2>1, CountedLength
<1>3. Len(Counted(Outputs(tx))) \in Nat \ {0}
  <2>1. Len(Outputs(tx)) \in Nat /\ \A i \in 1 .. Len(Outputs(tx)) : Outputs(tx)[i] \in Seq(T)
    BY OutputsAreItems
  <2> QED
    BY <2>1, CountedLength
<1> QED
  BY <1>1, <1>2, <1>3

(* A transaction of at least one input is not taken for one with a witness *)
(* when it has none, and its marker is seen when it has one.               *)
LEMMA MarkedIsWitness ==
    ASSUME NEW T, IsTokens(T), NEW tx \in Transactions(T)
    PROVE  /\ Serialised(tx) \in Seq(T) /\ Len(Serialised(tx)) >= 4
           /\ Marked(Serialised(tx)) <=> tx.stacks # << >>
<1> DEFINE raw == Serialised(tx)
           marker == Marker(tx)
           stacks == Joined(StackStrings(tx))
<1>1. Stands(raw, tx, T, marker, stacks) /\ marker \in Seq(T) /\ stacks \in Seq(T)
  BY SerialisedStands
<1> HIDE DEF raw, stacks
<1>2. /\ raw \in Seq(T) /\ At(raw, 2, marker) /\ At(raw, 2 + Len(marker), Counted(Inputs(tx)))
      /\ Len(raw) = 2 + Len(marker) + Len(Body(tx)) + Len(stacks) + Len(tx.foreign)
  BY <1>1, Zenon DEF Stands
<1>3. Len(raw) >= 4
  <2>1. Len(marker) \in Nat /\ Len(stacks) \in Nat
    BY <1>1
  <2>2. Len(tx.foreign) \in Nat
    <3>1. tx.foreign \in Seq(T)
      BY DEF Transactions
    <3> QED
      BY <3>1
  <2>3. Len(Body(tx)) \in Nat /\ Len(Body(tx)) >= 2
    BY BodyLength
  <2> DEFINE m == Len(marker)
             s == Len(stacks)
             f == Len(tx.foreign)
             b == Len(Body(tx))
  <2>4. /\ m \in Nat /\ s \in Nat /\ f \in Nat /\ b \in Nat /\ b >= 2
        /\ Len(raw) = 2 + m + b + s + f
    BY <1>2, <2>1, <2>2, <2>3
  <2> HIDE DEF m, s, f, b
  <2> QED
    BY <2>4
<1>4. CASE tx.stacks = << >>
  <2> DEFINE size == CompactSize(Len(Inputs(tx)))
  <2>1. At(raw, 2, Counted(Inputs(tx)))
    <3>1. Len(marker) = 0
      BY <1>4 DEF Marker
    <3>2. 2 + 0 = 2
      OBVIOUS
    <3> HIDE DEF marker
    <3> QED
      BY <1>2, <3>1, <3>2
  <2>2. Len(Inputs(tx)) \in Nat \ {0} /\ \A i \in 1 .. Len(Inputs(tx)) : Inputs(tx)[i] \in Seq(T)
    BY InputsAreItems
  <2>3. /\ size \in Seq(T) /\ Joined(Inputs(tx)) \in Seq(T)
        /\ Counted(Inputs(tx)) = size \o Joined(Inputs(tx))
    BY <2>2, CountedType DEF Counted
  <2>4. 2 \in Nat \ {0}
    OBVIOUS
  <2> HIDE DEF size
  <2>5. At(raw, 2, size)
    BY <1>2, <2>1, <2>3, <2>4, AtConcatenation
  <2>6. CASE Len(Inputs(tx)) < CompactLimit
    <3>1. size = <<Byte(Len(Inputs(tx)))>>
      BY <2>6 DEF CompactSize, size
    <3>2. raw[2] = Byte(Len(Inputs(tx)))
      BY <1>2, <2>4, <2>5, <3>1, AtSingle
    <3>3. raw[2] # Byte(0)
      BY <2>2, <3>2, ByteIsNoPrefix
    <3> QED
      BY <1>2, <1>3, <1>4, <3>3 DEF Marked, raw
  <2>7. CASE ~(Len(Inputs(tx)) < CompactLimit)
    <3>1. size = <<Prefix, Byte(Len(Inputs(tx)))>>
      BY <2>7 DEF CompactSize, size
    <3>2. raw[2] = Prefix
      BY <2>5, <3>1 DEF At
    <3>3. raw[2] # Byte(0)
      BY <3>2, ByteIsNoPrefix
    <3> QED
      BY <1>2, <1>3, <1>4, <3>3 DEF Marked, raw
  <2> QED
    BY <2>6, <2>7
<1>5. CASE tx.stacks # << >>
  <2>1. Len(marker) = 2 /\ marker[1] = Byte(0) /\ marker[2] = Byte(1)
    BY <1>5 DEF Marker
  <2> HIDE DEF marker
  <2>2. raw[2] = Byte(0) /\ raw[3] = Byte(1)
    <3>1. \A i \in 1 .. 2 : raw[2 + i - 1] = marker[i]
      BY <1>2, <2>1 DEF At
    <3>2. 2 + 1 - 1 = 2 /\ 2 + 2 - 1 = 3 /\ 1 \in 1 .. 2 /\ 2 \in 1 .. 2
      OBVIOUS
    <3>3. raw[2 + 1 - 1] = marker[1] /\ raw[2 + 2 - 1] = marker[2]
      BY <3>1, <3>2, Zenon
    <3> QED
      BY <2>1, <3>2, <3>3
  <2>3. Byte(1) # Byte(0)
    BY ByteIsNoPrefix
  <2> QED
    BY <1>2, <1>3, <1>5, <2>2, <2>3 DEF Marked, raw
<1> QED
  BY <1>4, <1>5

(* For every transaction the node serialises, of any number of inputs,     *)
(* outputs and witness items and any script lengths, txIDFromData          *)
(* (pool/witness.go) gives the txid, which covers no witness, when nothing *)
(* follows the locktime.                                                   *)
THEOREM TxidIsRead ==
    ASSUME NEW T, IsTokens(T), NEW tx \in Transactions(T), tx.foreign = << >>
    PROVE  TxidFromData(Serialised(tx)) = {Txid(tx)}
<1> DEFINE raw == Serialised(tx)
           marker == Marker(tx)
           strings == StackStrings(tx)
           stacks == Joined(strings)
           start == 2 + Len(marker)
           end == start + Len(Body(tx))
           last == end + Len(stacks)
           count == readVarInt(raw, start)
           mid == SkipCounted(raw, start, 1, 1)
           segwit == Marked(raw)
<1>1. Stands(raw, tx, T, marker, stacks) /\ marker \in Seq(T) /\ stacks \in Seq(T)
  BY SerialisedStands
<1>2. raw \in Seq(T) /\ Len(raw) >= 4 /\ (segwit <=> tx.stacks # << >>)
  BY MarkedIsWitness
<1>3. start = IF segwit THEN 4 ELSE 2
  BY <1>2 DEF Marker
<1> HIDE DEF raw, marker, strings
<1>4. /\ Len(raw) = last + Len(tx.foreign) /\ raw[1] = Field("version") /\ raw[last] = Field("locktime")
      /\ At(raw, start, Body(tx)) /\ At(raw, end, stacks)
      /\ start \in Nat \ {0} /\ end \in Nat \ {0} /\ last \in Nat \ {0}
  BY <1>1, Zenon DEF Stands
<1>5. Len(raw) = last
  <2>1. Len(tx.foreign) = 0
    OBVIOUS
  <2> HIDE DEF last
  <2> QED
    BY <1>4, <2>1
<1>6. /\ count.value = Len(tx.ins) /\ count.next # 0 /\ mid # 0
      /\ SkipCounted(raw, mid, 1, 0) = end
  BY <1>1, SkipsBody
<1>7. ASSUME segwit
      PROVE  SkipStacks(raw, end, count.value) = Len(raw)
  <2>1. Len(strings) = Len(tx.ins)
    <3>1. Len(strings) = Len(tx.stacks)
      BY StackStringsType DEF strings
    <3>2. tx.stacks = << >> \/ Len(tx.stacks) = Len(tx.ins)
      BY DEF Transactions
    <3> QED
      BY <1>2, <1>7, <3>1, <3>2
  <2>2. /\ Len(strings) \in Nat
        /\ \A i \in 1 .. Len(strings) : \E items \in Seq(Seq(T)) : strings[i] = Stack(items)
    BY StackStringsType DEF strings
  <2> HIDE DEF end
  <2>3. SkipStacks(raw, end, Len(strings)) = end + Len(stacks)
    BY <1>2, <1>4, <2>2, SkipsStacks
  <2> HIDE DEF count
  <2> QED
    BY <1>5, <1>6, <2>1, <2>3
<1> DEFINE bodyEnd == SkipCounted(raw, mid, 1, 0)
           hashed == <<raw[1]>> \o SubSeq(raw, start, bodyEnd - 1) \o <<raw[Len(raw)]>>
<1>8. TxidFromData(raw) = {Sha256d(hashed)}
  <2>1. TxidFromData(raw) =
            IF \/ count.next = 0 \/ mid = 0 \/ bodyEnd = 0
               \/ segwit /\ SkipStacks(raw, bodyEnd, count.value) # Len(raw)
            THEN {} ELSE {Sha256d(hashed)}
    <3>1. ~(Len(raw) < 4)
      BY <1>2
    <3> HIDE DEF segwit
    <3> QED
      BY <1>3, <3>1, Zenon DEF TxidFromData, segwit
  <2>2. bodyEnd = end /\ end # 0
    BY <1>4, <1>6
  <2> HIDE DEF hashed, bodyEnd, count, mid, end, segwit
  <2> QED
    BY <1>6, <1>7, <2>1, <2>2
<1>9. hashed = Stripped(tx)
  <2> DEFINE stripped == Stripped(tx)
             vers == <<Field("version")>>
             lock == <<Field("locktime")>>
  <2>1. SubSeq(raw, start, bodyEnd - 1) = Body(tx)
    <3>1. bodyEnd = start + Len(Body(tx)) /\ Body(tx) \in Seq(T)
      BY <1>6, BodyType
    <3> HIDE DEF start, bodyEnd
    <3> QED
      BY <1>2, <1>4, <3>1, SubSeqAt
  <2>2. hashed = vers \o Body(tx) \o lock
    BY <1>4, <1>5, <2>1
  <2>3. Stands(stripped, tx, T, << >>, << >>)
    BY SerialisedStands
  <2> HIDE DEF stripped
  <2>4. /\ stripped \in Seq(T)
        /\ Len(stripped) = 2 + Len(<< >>) + Len(Body(tx)) + Len(<< >>) + Len(tx.foreign)
        /\ stripped[1] = Field("version")
        /\ At(stripped, 2 + Len(<< >>), Body(tx))
        /\ stripped[2 + Len(<< >>) + Len(Body(tx)) + Len(<< >>)] = Field("locktime")
    BY <2>3, Zenon DEF Stands
  <2>5. Len(<< >>) = 0 /\ Len(tx.foreign) = 0 /\ Len(Body(tx)) \in Nat /\ Body(tx) \in Seq(T)
    BY BodyType, BodyLength
  <2>6. /\ Len(stripped) = 2 + Len(Body(tx)) /\ At(stripped, 2, Body(tx))
        /\ stripped[2 + Len(Body(tx))] = Field("locktime")
    <3>1. 2 + 0 = 2 /\ 2 + Len(Body(tx)) + 0 = 2 + Len(Body(tx))
      BY <2>5
    <3> QED
      BY <2>4, <2>5, <3>1
  <2>7. Field("version") \in T /\ Field("locktime") \in T
    BY DEF IsTokens
  <2>8. vers \in Seq(T) /\ lock \in Seq(T) /\ Len(vers) = 1 /\ Len(lock) = 1
    BY <2>7, Single
  <2>9. 1 \in Nat \ {0} /\ 1 + 1 = 2 /\ 2 + Len(Body(tx)) \in Nat \ {0}
    BY <2>5
  <2>10. At(stripped, 1, vers)
    BY <2>4, <2>5, <2>6, <2>9, AtSingle
  <2>11. At(stripped, 2 + Len(Body(tx)), lock)
    BY <2>4, <2>5, <2>6, <2>9, AtSingle
  <2> HIDE DEF vers, lock
  <2>12. At(stripped, 1, vers \o Body(tx))
    BY <2>4, <2>5, <2>6, <2>8, <2>9, <2>10, AtConcatenation
  <2>13. vers \o Body(tx) \in Seq(T) /\ Len(vers \o Body(tx)) = 1 + Len(Body(tx))
    BY <2>5, <2>8, ConcatLength
  <2> DEFINE front == vers \o Body(tx)
  <2>14. 1 + Len(front) = 2 + Len(Body(tx))
    BY <2>5, <2>13
  <2> HIDE DEF front
  <2>15. At(stripped, 1, front \o lock)
    <3>1. front \in Seq(T) /\ At(stripped, 1, front) /\ At(stripped, 1 + Len(front), lock)
      BY <2>11, <2>12, <2>13, <2>14 DEF front
    <3> QED
      BY <2>4, <2>8, <2>9, <3>1, AtConcatenation
  <2>16. front \o lock \in Seq(T) /\ Len(front \o lock) = Len(front) + Len(lock)
    BY <2>8, <2>13, ConcatLength DEF front
  <2>17. Len(front \o lock) = Len(stripped)
    BY <2>5, <2>6, <2>8, <2>14, <2>16
  <2>18. stripped = front \o lock
    BY <2>4, <2>15, <2>16, <2>17, AtWhole
  <2> QED
    BY <2>2, <2>18 DEF front, stripped
<1> QED
  BY <1>8, <1>9 DEF Txid, raw
=============================================================================
