-------------------------- MODULE PoolMerkleProofs --------------------------
(* The frontier, the mirror, the proofs and the sealed witnesses agree with *)
(* the full tree, for every depth, history, set of leaves and lag.         *)
EXTENDS PoolMerkle, ArithmeticProofs, SequenceTheorems

-----------------------------------------------------------------------------
(* The recursions over the levels, in one family: what each starts with    *)
(* and how it goes on, so that one induction shows that they exist.        *)

Start(kind, p, q) ==
    CASE kind = "pow" -> 1
      [] kind = "above" -> p
      [] kind = "zeros" -> Zero
      [] kind = "path" -> p[1]
      [] kind = "layers" -> p
      [] kind = "new" -> NewLeaves(q, p.nextIndex)
      [] kind = "tree" -> Padded(p)
      [] kind = "subtree" -> p

Continue(kind, p, q, l, x) ==
    CASE kind = "pow" -> 2 * x
      [] kind = "above" -> x \div 2
      [] kind = "zeros" -> hash2(x, x)
      [] kind = "path" -> IF q[l - 1] = 0 THEN hash2(x, p[2][l - 1])
                          ELSE hash2(p[2][l - 1], x)
      [] kind = "layers" -> NextLayer(x, l - 1)
      [] kind = "new" -> NewNodes(x, l, Len(q), p)
      [] kind = "tree" -> Parents(x)
      [] kind = "subtree" -> x[q[TREE_DEPTH - l] + 1]

Recursion(f, kind, p, q, n) ==
    /\ DOMAIN f = 0 .. n
    /\ f = [l \in DOMAIN f |-> f[l]]
    /\ f[0] = Start(kind, p, q)
    /\ \A l \in 1 .. n : f[l] = Continue(kind, p, q, l, f[l - 1])

\* Every member of the family has the function its equations describe.
LEMMA RecursionExists ==
    ASSUME NEW kind, NEW p, NEW q, NEW n \in Nat
    PROVE  \E f : Recursion(f, kind, p, q, n)
<1> DEFINE T == {m \in 0 .. n : \E f : Recursion(f, kind, p, q, m)}
<1>1. 0 \in T
  <2> DEFINE f == [l \in 0 .. 0 |-> Start(kind, p, q)]
  <2>1. Recursion(f, kind, p, q, 0)
    BY DEF Recursion
  <2> QED
    BY <2>1
<1>2. ASSUME NEW m \in 0 .. n - 1, m \in T PROVE m + 1 \in T
  <2>1. PICK f : Recursion(f, kind, p, q, m)
    BY <1>2
  <2> DEFINE g == [l \in 0 .. m + 1 |->
                     IF l <= m THEN f[l] ELSE Continue(kind, p, q, l, f[l - 1])]
  <2>2. g[0] = Start(kind, p, q)
    BY <2>1 DEF Recursion
  <2>3. ASSUME NEW l \in 1 .. m + 1
        PROVE  g[l] = Continue(kind, p, q, l, g[l - 1])
    <3>1. l - 1 \in 0 .. m + 1 /\ l - 1 <= m /\ l \in 0 .. m + 1
      OBVIOUS
    <3>2. g[l - 1] = f[l - 1]
      BY <3>1
    <3>3. l <= m => l \in 1 .. m
      OBVIOUS
    <3>4. l <= m => f[l] = Continue(kind, p, q, l, f[l - 1])
      BY <2>1, <3>3 DEF Recursion
    <3>5. g[l] = IF l <= m THEN f[l] ELSE Continue(kind, p, q, l, f[l - 1])
      BY <3>1
    <3> HIDE DEF g
    <3> QED
      BY <3>2, <3>4, <3>5
  <2>4. DOMAIN g = 0 .. m + 1 /\ g = [l \in DOMAIN g |-> g[l]]
    OBVIOUS
  <2> HIDE DEF g
  <2>5. Recursion(g, kind, p, q, m + 1)
    BY <2>2, <2>3, <2>4 DEF Recursion
  <2>6. m + 1 \in 0 .. n
    OBVIOUS
  <2> QED
    BY <2>5, <2>6
<1>3. n \in T
  <2> HIDE DEF T
  <2>1. \A k \in 0 .. n - 1 : k \in T => k + 1 \in T
    BY <1>2
  <2>2. \A k \in 0 .. n : k \in T
    BY <1>1, <2>1, UpTo
  <2> QED
    BY <2>2
<1> QED
  BY <1>3

\* Powers of two.
LEMMA Pow2Steps ==
    /\ Pow2[0] = 1
    /\ \A l \in 1 .. TREE_DEPTH : Pow2[l] = 2 * Pow2[l - 1]
<1> DEFINE Is(f) ==
             f = [l \in 0 .. TREE_DEPTH |-> IF l = 0 THEN 1
                                            ELSE 2 * f[l - 1]]
<1>1. \E f : Is(f)
  <2>1. PICK f : Recursion(f, "pow", 0, 0, TREE_DEPTH)
    BY RecursionExists, DepthAssumption
  <2>2. Is(f)
    BY <2>1 DEF Recursion, Start, Continue
  <2> QED
    BY <2>2
<1>2. Pow2 = CHOOSE f : Is(f)
  BY DEF Pow2
<1>3. Is(Pow2)
  <2> HIDE DEF Is
  <2> QED
    BY <1>1, <1>2
<1>4. \A l \in 0 .. TREE_DEPTH :
        Pow2[l] = IF l = 0 THEN 1
                      ELSE 2 * Pow2[l - 1]
  BY <1>3
<1> QED
  BY <1>4, DepthAssumption

\* Shifts.
LEMMA AboveSteps ==
    ASSUME NEW idx
    PROVE  /\ Above(idx)[0] = idx
           /\ \A l \in 1 .. TREE_DEPTH : Above(idx)[l] = Above(idx)[l - 1] \div 2
<1> DEFINE Is(f) ==
             f = [l \in 0 .. TREE_DEPTH |-> IF l = 0 THEN idx
                                            ELSE f[l - 1] \div 2]
<1>1. \E f : Is(f)
  <2>1. PICK f : Recursion(f, "above", idx, 0, TREE_DEPTH)
    BY RecursionExists, DepthAssumption
  <2>2. Is(f)
    BY <2>1 DEF Recursion, Start, Continue
  <2> QED
    BY <2>2
<1>2. Above(idx) = CHOOSE f : Is(f)
  BY DEF Above
<1>3. Is(Above(idx))
  <2> HIDE DEF Is
  <2> QED
    BY <1>1, <1>2
<1>4. \A l \in 0 .. TREE_DEPTH :
        Above(idx)[l] = IF l = 0 THEN idx
                      ELSE Above(idx)[l - 1] \div 2
  BY <1>3
<1> QED
  BY <1>4, DepthAssumption

\* The empty subtrees.
LEMMA ZerosSteps ==
    /\ zeros[0] = Zero
    /\ \A l \in 1 .. TREE_DEPTH : zeros[l] = hash2(zeros[l - 1], zeros[l - 1])
<1> DEFINE Is(f) ==
             f = [l \in 0 .. TREE_DEPTH |-> IF l = 0 THEN Zero
                                            ELSE hash2(f[l - 1], f[l - 1])]
<1>1. \E f : Is(f)
  <2>1. PICK f : Recursion(f, "zeros", 0, 0, TREE_DEPTH)
    BY RecursionExists, DepthAssumption
  <2>2. Is(f)
    BY <2>1 DEF Recursion, Start, Continue
  <2> QED
    BY <2>2
<1>2. zeros = CHOOSE f : Is(f)
  BY DEF zeros
<1>3. Is(zeros)
  <2> HIDE DEF Is
  <2> QED
    BY <1>1, <1>2
<1>4. \A l \in 0 .. TREE_DEPTH :
        zeros[l] = IF l = 0 THEN Zero
                      ELSE hash2(zeros[l - 1], zeros[l - 1])
  BY <1>3
<1> QED
  BY <1>4, DepthAssumption

\* The fold of a path.
LEMMA PathSteps ==
    ASSUME NEW leaf, NEW siblings, NEW bits
    PROVE  /\ Path(leaf, siblings, bits)[0] = leaf
           /\ \A l \in 1 .. TREE_DEPTH :
                Path(leaf, siblings, bits)[l] =
                  IF bits[l - 1] = 0
                  THEN hash2(Path(leaf, siblings, bits)[l - 1], siblings[l - 1])
                  ELSE hash2(siblings[l - 1], Path(leaf, siblings, bits)[l - 1])
<1> DEFINE Is(f) ==
             f = [l \in 0 .. TREE_DEPTH |-> IF l = 0 THEN leaf
                                            ELSE IF bits[l - 1] = 0 THEN hash2(f[l - 1], siblings[l - 1])
                                            ELSE hash2(siblings[l - 1], f[l - 1])]
<1>1. \E f : Is(f)
  <2>1. PICK f : Recursion(f, "path", <<leaf, siblings>>, bits, TREE_DEPTH)
    BY RecursionExists, DepthAssumption
  <2>2. Is(f)
    BY <2>1 DEF Recursion, Start, Continue
  <2> QED
    BY <2>2
<1>2. Path(leaf, siblings, bits) = CHOOSE f : Is(f)
  BY DEF Path
<1>3. Is(Path(leaf, siblings, bits))
  <2> HIDE DEF Is
  <2> QED
    BY <1>1, <1>2
<1>4. \A l \in 0 .. TREE_DEPTH :
        Path(leaf, siblings, bits)[l] = IF l = 0 THEN leaf
                      ELSE IF bits[l - 1] = 0 THEN hash2(Path(leaf, siblings, bits)[l - 1], siblings[l - 1])
                                            ELSE hash2(siblings[l - 1], Path(leaf, siblings, bits)[l - 1])
  BY <1>3
<1> QED
  BY <1>4, DepthAssumption

\* The layers of the mirror.
LEMMA LayersSteps ==
    ASSUME NEW ls
    PROVE  /\ Layers(ls)[0] = ls
           /\ \A l \in 1 .. TREE_DEPTH : Layers(ls)[l] = NextLayer(Layers(ls)[l - 1], l - 1)
<1> DEFINE Is(f) ==
             f = [l \in 0 .. TREE_DEPTH |-> IF l = 0 THEN ls
                                            ELSE NextLayer(f[l - 1], l - 1)]
<1>1. \E f : Is(f)
  <2>1. PICK f : Recursion(f, "layers", ls, 0, TREE_DEPTH)
    BY RecursionExists, DepthAssumption
  <2>2. Is(f)
    BY <2>1 DEF Recursion, Start, Continue
  <2> QED
    BY <2>2
<1>2. Layers(ls) = CHOOSE f : Is(f)
  BY DEF Layers
<1>3. Is(Layers(ls))
  <2> HIDE DEF Is
  <2> QED
    BY <1>1, <1>2
<1>4. \A l \in 0 .. TREE_DEPTH :
        Layers(ls)[l] = IF l = 0 THEN ls
                      ELSE NextLayer(Layers(ls)[l - 1], l - 1)
  BY <1>3
<1> QED
  BY <1>4, DepthAssumption

\* The full tree.
LEMMA TreeSteps ==
    ASSUME NEW ls
    PROVE  /\ ReferenceTree(ls)[0] = Padded(ls)
           /\ \A l \in 1 .. TREE_DEPTH : ReferenceTree(ls)[l] = Parents(ReferenceTree(ls)[l - 1])
<1> DEFINE Is(f) ==
             f = [l \in 0 .. TREE_DEPTH |-> IF l = 0 THEN Padded(ls)
                                            ELSE Parents(f[l - 1])]
<1>1. \E f : Is(f)
  <2>1. PICK f : Recursion(f, "tree", ls, 0, TREE_DEPTH)
    BY RecursionExists, DepthAssumption
  <2>2. Is(f)
    BY <2>1 DEF Recursion, Start, Continue
  <2> QED
    BY <2>2
<1>2. ReferenceTree(ls) = CHOOSE f : Is(f)
  BY DEF ReferenceTree
<1>3. Is(ReferenceTree(ls))
  <2> HIDE DEF Is
  <2> QED
    BY <1>1, <1>2
<1>4. \A l \in 0 .. TREE_DEPTH :
        ReferenceTree(ls)[l] = IF l = 0 THEN Padded(ls)
                      ELSE Parents(ReferenceTree(ls)[l - 1])
  BY <1>3
<1> QED
  BY <1>4, DepthAssumption

\* The way down from a root.
LEMMA SubtreeSteps ==
    ASSUME NEW r, NEW bits
    PROVE  /\ Subtree(r, bits)[0] = r
           /\ \A l \in 1 .. TREE_DEPTH :
                Subtree(r, bits)[l] = Subtree(r, bits)[l - 1][bits[TREE_DEPTH - l] + 1]
<1> DEFINE Is(f) ==
             f = [l \in 0 .. TREE_DEPTH |-> IF l = 0 THEN r
                                            ELSE f[l - 1][bits[TREE_DEPTH - l] + 1]]
<1>1. \E f : Is(f)
  <2>1. PICK f : Recursion(f, "subtree", r, bits, TREE_DEPTH)
    BY RecursionExists, DepthAssumption
  <2>2. Is(f)
    BY <2>1 DEF Recursion, Start, Continue
  <2> QED
    BY <2>2
<1>2. Subtree(r, bits) = CHOOSE f : Is(f)
  BY DEF Subtree
<1>3. Is(Subtree(r, bits))
  <2> HIDE DEF Is
  <2> QED
    BY <1>1, <1>2
<1>4. \A l \in 0 .. TREE_DEPTH :
        Subtree(r, bits)[l] = IF l = 0 THEN r
                      ELSE Subtree(r, bits)[l - 1][bits[TREE_DEPTH - l] + 1]
  BY <1>3
<1> QED
  BY <1>4, DepthAssumption

\* The nodes above leaves that are not in yet.
LEMMA NewLayersSteps ==
    ASSUME NEW state, NEW ls
    PROVE  /\ NewLayers(state, ls)[0] = NewLeaves(ls, state.nextIndex)
           /\ \A l \in 1 .. TREE_DEPTH :
                NewLayers(state, ls)[l] =
                  NewNodes(NewLayers(state, ls)[l - 1], l, Len(ls), state)
<1> DEFINE Is(f) ==
             f = [l \in 0 .. TREE_DEPTH |-> IF l = 0 THEN NewLeaves(ls, state.nextIndex)
                                            ELSE NewNodes(f[l - 1], l, Len(ls), state)]
<1>1. \E f : Is(f)
  <2>1. PICK f : Recursion(f, "new", state, ls, TREE_DEPTH)
    BY RecursionExists, DepthAssumption
  <2>2. Is(f)
    BY <2>1 DEF Recursion, Start, Continue
  <2> QED
    BY <2>2
<1>2. NewLayers(state, ls) = CHOOSE f : Is(f)
  BY DEF NewLayers
<1>3. Is(NewLayers(state, ls))
  <2> HIDE DEF Is
  <2> QED
    BY <1>1, <1>2
<1>4. \A l \in 0 .. TREE_DEPTH :
        NewLayers(state, ls)[l] = IF l = 0 THEN NewLeaves(ls, state.nextIndex)
                      ELSE NewNodes(NewLayers(state, ls)[l - 1], l, Len(ls), state)
  BY <1>3
<1> QED
  BY <1>4, DepthAssumption

-----------------------------------------------------------------------------
(* Levels and indices                                                      *)

\* Induction over the levels, for a set instead of a predicate.
LEMMA LevelInduction ==
    ASSUME NEW T, 0 \in T, \A l \in 1 .. TREE_DEPTH : l - 1 \in T => l \in T
    PROVE  \A l \in 0 .. TREE_DEPTH : l \in T
<1>1. ASSUME NEW k \in 0 .. TREE_DEPTH - 1, k \in T PROVE k + 1 \in T
  <2>1. k + 1 \in 1 .. TREE_DEPTH /\ (k + 1) - 1 = k
    BY DepthAssumption
  <2> QED
    BY <1>1, <2>1
<1> QED
  BY <1>1, UpTo, DepthAssumption

LEMMA LevelBelow ==
    \A l \in 1 .. TREE_DEPTH : l - 1 \in 0 .. TREE_DEPTH /\ l - 1 \in Levels /\ l \in 0 .. TREE_DEPTH
BY DepthAssumption DEF Levels

LEMMA Pow2Nat == \A l \in 0 .. TREE_DEPTH : Pow2[l] \in Nat \ {0}
<1> DEFINE T == {l \in 0 .. TREE_DEPTH : Pow2[l] \in Nat \ {0}}
<1>1. 0 \in T
  BY Pow2Steps, DepthAssumption
<1>2. ASSUME NEW l \in 1 .. TREE_DEPTH, l - 1 \in T PROVE l \in T
  BY <1>2, Pow2Steps
<1> HIDE DEF T
<1>3. \A l \in 0 .. TREE_DEPTH : l \in T
  BY <1>1, <1>2, LevelInduction
<1> QED
  BY <1>3 DEF T

LEMMA AboveNat ==
    ASSUME NEW idx \in Nat
    PROVE  \A l \in 0 .. TREE_DEPTH : Above(idx)[l] \in Nat
<1> DEFINE T == {l \in 0 .. TREE_DEPTH : Above(idx)[l] \in Nat}
<1>1. 0 \in T
  BY AboveSteps, DepthAssumption
<1>2. ASSUME NEW l \in 1 .. TREE_DEPTH, l - 1 \in T PROVE l \in T
  BY <1>2, AboveSteps
<1> HIDE DEF T
<1>3. \A l \in 0 .. TREE_DEPTH : l \in T
  BY <1>1, <1>2, LevelInduction
<1> QED
  BY <1>3 DEF T

\* A node is a left or a right child.
LEMMA Halves ==
    ASSUME NEW x \in Nat
    PROVE  /\ x \div 2 \in Nat
           /\ \/ x % 2 = 0 /\ x = 2 * (x \div 2)
              \/ x % 2 = 1 /\ x = 2 * (x \div 2) + 1
OBVIOUS

\* The next leaf is below the same node or below the next one.
LEMMA AboveNext ==
    ASSUME NEW n \in Nat
    PROVE  \A l \in 0 .. TREE_DEPTH :
             \/ Above(n + 1)[l] = Above(n)[l]
             \/ Above(n + 1)[l] = Above(n)[l] + 1
<1> DEFINE T == {l \in 0 .. TREE_DEPTH : \/ Above(n + 1)[l] = Above(n)[l]
                                         \/ Above(n + 1)[l] = Above(n)[l] + 1}
<1>1. 0 \in T
  BY AboveSteps, DepthAssumption
<1>2. ASSUME NEW l \in 1 .. TREE_DEPTH, l - 1 \in T PROVE l \in T
  <2>1. Above(n)[l - 1] \in Nat
    BY AboveNat, LevelBelow
  <2>2. Above(n)[l] = Above(n)[l - 1] \div 2 /\ Above(n + 1)[l] = Above(n + 1)[l - 1] \div 2
    BY AboveSteps
  <2>3. \A x, y \in Nat : y = x \/ y = x + 1 => y \div 2 = x \div 2 \/ y \div 2 = (x \div 2) + 1
    OBVIOUS
  <2> QED
    BY <1>2, <2>1, <2>2, <2>3
<1> HIDE DEF T
<1>3. \A l \in 0 .. TREE_DEPTH : l \in T
  BY <1>1, <1>2, LevelInduction
<1> QED
  BY <1>3 DEF T

LEMMA AboveMonotone ==
    ASSUME NEW m \in Nat, NEW n \in Nat, m <= n
    PROVE  \A l \in 0 .. TREE_DEPTH : Above(m)[l] <= Above(n)[l]
<1> DEFINE T == {l \in 0 .. TREE_DEPTH : Above(m)[l] <= Above(n)[l]}
<1>1. 0 \in T
  BY AboveSteps, DepthAssumption
<1>2. ASSUME NEW l \in 1 .. TREE_DEPTH, l - 1 \in T PROVE l \in T
  <2>1. Above(m)[l - 1] \in Nat /\ Above(n)[l - 1] \in Nat
    BY AboveNat, LevelBelow
  <2>2. Above(n)[l] = Above(n)[l - 1] \div 2 /\ Above(m)[l] = Above(m)[l - 1] \div 2
    BY AboveSteps
  <2>3. \A x, y \in Nat : x <= y => x \div 2 <= y \div 2
    OBVIOUS
  <2> QED
    BY <1>2, <2>1, <2>2, <2>3
<1> HIDE DEF T
<1>3. \A l \in 0 .. TREE_DEPTH : l \in T
  BY <1>1, <1>2, LevelInduction
<1> QED
  BY <1>3 DEF T

\* The tree has one node at the top, two below it, and so on.
LEMMA AboveSmall ==
    ASSUME NEW n \in Nat, n < MAX_LEAVES
    PROVE  /\ \A l \in 0 .. TREE_DEPTH : Above(n)[l] < Pow2[TREE_DEPTH - l]
           /\ Above(n)[TREE_DEPTH] = 0
<1> DEFINE T == {l \in 0 .. TREE_DEPTH : Above(n)[l] < Pow2[TREE_DEPTH - l]}
<1>1. 0 \in T
  BY AboveSteps, DepthAssumption DEF MAX_LEAVES
<1>2. ASSUME NEW l \in 1 .. TREE_DEPTH, l - 1 \in T PROVE l \in T
  <2>1. Above(n)[l - 1] \in Nat /\ Above(n)[l] = Above(n)[l - 1] \div 2
    BY AboveNat, AboveSteps, LevelBelow
  <2>2. TREE_DEPTH - l \in 0 .. TREE_DEPTH /\ TREE_DEPTH - l + 1 \in 1 .. TREE_DEPTH
        /\ TREE_DEPTH - (l - 1) = TREE_DEPTH - l + 1 /\ (TREE_DEPTH - l + 1) - 1 = TREE_DEPTH - l
    BY DepthAssumption
  <2>3. Pow2[TREE_DEPTH - l + 1] = 2 * Pow2[TREE_DEPTH - l]
    BY <2>2, Pow2Steps
  <2>4. Pow2[TREE_DEPTH - l] \in Nat
    BY <2>2, Pow2Nat
  <2>5. \A x, y \in Nat : x < 2 * y => x \div 2 < y
    OBVIOUS
  <2>6. Above(n)[l - 1] < 2 * Pow2[TREE_DEPTH - l]
    BY <1>2, <2>2, <2>3
  <2> QED
    BY <2>1, <2>4, <2>5, <2>6
<1> HIDE DEF T
<1>3. \A l \in 0 .. TREE_DEPTH : l \in T
  BY <1>1, <1>2, LevelInduction
<1>4. Above(n)[TREE_DEPTH] < Pow2[0] /\ Above(n)[TREE_DEPTH] \in Nat
  BY <1>3, AboveNat, DepthAssumption DEF T
<1> QED
  BY <1>3, <1>4, Pow2Steps DEF T

\* The nodes before the one above leaf n are those whose leaves are before n.
LEMMA AboveOld ==
    ASSUME NEW n \in Nat
    PROVE  \A l \in 0 .. TREE_DEPTH : \A j \in Nat :
             (j + 1) * Pow2[l] <= n <=> j + 1 <= Above(n)[l]
<1> DEFINE T == {l \in 0 .. TREE_DEPTH : \A j \in Nat :
                   j * Pow2[l] <= n <=> j <= Above(n)[l]}
<1>1. 0 \in T
  BY AboveSteps, Pow2Steps, DepthAssumption
<1>2. ASSUME NEW l \in 1 .. TREE_DEPTH, l - 1 \in T PROVE l \in T
  <2>1. Above(n)[l - 1] \in Nat /\ Above(n)[l] = Above(n)[l - 1] \div 2
    BY AboveNat, AboveSteps, LevelBelow
  <2>2. Pow2[l] = 2 * Pow2[l - 1] /\ Pow2[l - 1] \in Nat
    BY Pow2Steps, Pow2Nat, LevelBelow
  <2>3. ASSUME NEW j \in Nat
        PROVE  j * Pow2[l] <= n <=> j <= Above(n)[l]
    <3>1. j * (2 * Pow2[l - 1]) = (2 * j) * Pow2[l - 1]
      BY <2>2
    <3>2. (2 * j) * Pow2[l - 1] <= n <=> 2 * j <= Above(n)[l - 1]
      BY <1>2
    <3>3. \A x \in Nat : 2 * j <= x <=> j <= x \div 2
      OBVIOUS
    <3> QED
      BY <2>1, <2>2, <3>1, <3>2, <3>3
  <2> QED
    BY <2>3
<1> HIDE DEF T
<1>3. \A l \in 0 .. TREE_DEPTH : l \in T
  BY <1>1, <1>2, LevelInduction
<1> QED
  BY <1>3 DEF T

-----------------------------------------------------------------------------
(* The full tree                                                           *)

\* A node of the full tree is the hash of the two below it.
LEMMA NodeSteps ==
    ASSUME NEW ls, NEW j \in Nat
    PROVE  /\ ReferenceTree(ls)[0][j] = IF j < Len(ls) THEN ls[j + 1] ELSE Zero
           /\ \A l \in 1 .. TREE_DEPTH :
                ReferenceTree(ls)[l][j] = hash2(ReferenceTree(ls)[l - 1][2 * j],
                                                ReferenceTree(ls)[l - 1][2 * j + 1])
<1>1. ReferenceTree(ls)[0][j] = IF j < Len(ls) THEN ls[j + 1] ELSE Zero
  BY TreeSteps DEF Padded
<1>2. ASSUME NEW l \in 1 .. TREE_DEPTH
      PROVE  ReferenceTree(ls)[l][j] = hash2(ReferenceTree(ls)[l - 1][2 * j],
                                             ReferenceTree(ls)[l - 1][2 * j + 1])
  <2> DEFINE below == ReferenceTree(ls)[l - 1]
  <2>1. ReferenceTree(ls)[l] = Parents(below)
    BY TreeSteps
  <2> HIDE DEF below
  <2>2. Parents(below)[j] = hash2(below[2 * j], below[2 * j + 1])
    BY DEF Parents
  <2> QED
    BY <2>1, <2>2 DEF below
<1> QED
  BY <1>1, <1>2

\* The first n leaves are the same.
Agree(ls, ms, n) ==
    /\ n \in Nat /\ Len(ls) \in Nat /\ Len(ms) \in Nat
    /\ n <= Len(ls) /\ n <= Len(ms)
    /\ \A i \in 1 .. n : ls[i] = ms[i]

\* A node whose leaves are all in does not change when more come in.
LEMMA Stable ==
    ASSUME NEW ls, NEW ms, NEW n, Agree(ls, ms, n)
    PROVE  \A l \in 0 .. TREE_DEPTH : \A j \in Nat :
             j < Above(n)[l] => ReferenceTree(ls)[l][j] = ReferenceTree(ms)[l][j]
<1> DEFINE T == {l \in 0 .. TREE_DEPTH : \A j \in Nat :
                   j < Above(n)[l] => ReferenceTree(ls)[l][j] = ReferenceTree(ms)[l][j]}
<1>0. /\ n \in Nat /\ Len(ls) \in Nat /\ Len(ms) \in Nat
      /\ n <= Len(ls) /\ n <= Len(ms)
      /\ \A i \in 1 .. n : ls[i] = ms[i]
  BY DEF Agree
<1>1. 0 \in T
  <2>1. ASSUME NEW j \in Nat, j < Above(n)[0]
        PROVE  ReferenceTree(ls)[0][j] = ReferenceTree(ms)[0][j]
    <3>1. j < n
      BY <2>1, AboveSteps
    <3>2. j + 1 \in 1 .. n /\ j < Len(ls) /\ j < Len(ms)
      BY <1>0, <3>1
    <3> QED
      BY <1>0, <3>2, NodeSteps
  <2> QED
    BY <2>1, DepthAssumption
<1>2. ASSUME NEW l \in 1 .. TREE_DEPTH, l - 1 \in T PROVE l \in T
  <2>1. ASSUME NEW j \in Nat, j < Above(n)[l]
        PROVE  ReferenceTree(ls)[l][j] = ReferenceTree(ms)[l][j]
    <3>1. Above(n)[l - 1] \in Nat /\ Above(n)[l] = Above(n)[l - 1] \div 2
      BY <1>0, AboveNat, AboveSteps, LevelBelow
    <3>2. \A x \in Nat : j < x \div 2 => 2 * j < x /\ 2 * j + 1 < x
      OBVIOUS
    <3>3. 2 * j < Above(n)[l - 1] /\ 2 * j + 1 < Above(n)[l - 1]
      BY <2>1, <3>1, <3>2
    <3>4. 2 * j \in Nat /\ 2 * j + 1 \in Nat
      OBVIOUS
    <3>5. /\ ReferenceTree(ls)[l - 1][2 * j] = ReferenceTree(ms)[l - 1][2 * j]
          /\ ReferenceTree(ls)[l - 1][2 * j + 1] = ReferenceTree(ms)[l - 1][2 * j + 1]
      BY <1>2, <3>3, <3>4
    <3>6. /\ ReferenceTree(ls)[l][j] = hash2(ReferenceTree(ls)[l - 1][2 * j],
                                              ReferenceTree(ls)[l - 1][2 * j + 1])
          /\ ReferenceTree(ms)[l][j] = hash2(ReferenceTree(ms)[l - 1][2 * j],
                                              ReferenceTree(ms)[l - 1][2 * j + 1])
      BY NodeSteps
    <3> QED
      BY <3>5, <3>6
  <2> QED
    BY <2>1, LevelBelow
<1> HIDE DEF T
<1>3. \A l \in 0 .. TREE_DEPTH : l \in T
  BY <1>1, <1>2, LevelInduction
<1> QED
  BY <1>3 DEF T

\* Beyond the node above the last leaf the tree is empty.
LEMMA EmptyBeyond ==
    ASSUME NEW ls, NEW m \in Nat, Len(ls) \in Nat, Len(ls) <= m + 1
    PROVE  \A l \in 0 .. TREE_DEPTH : \A j \in Nat :
             j > Above(m)[l] => ReferenceTree(ls)[l][j] = zeros[l]
<1> DEFINE T == {l \in 0 .. TREE_DEPTH : \A j \in Nat :
                   j > Above(m)[l] => ReferenceTree(ls)[l][j] = zeros[l]}
<1>1. 0 \in T
  <2>1. ASSUME NEW j \in Nat, j > Above(m)[0]
        PROVE  ReferenceTree(ls)[0][j] = zeros[0]
    <3>1. j > m
      BY <2>1, AboveSteps
    <3>2. ~ (j < Len(ls))
      BY <3>1
    <3> QED
      BY <3>2, NodeSteps, ZerosSteps
  <2> QED
    BY <2>1, DepthAssumption
<1>2. ASSUME NEW l \in 1 .. TREE_DEPTH, l - 1 \in T PROVE l \in T
  <2>1. ASSUME NEW j \in Nat, j > Above(m)[l]
        PROVE  ReferenceTree(ls)[l][j] = zeros[l]
    <3>1. Above(m)[l - 1] \in Nat /\ Above(m)[l] = Above(m)[l - 1] \div 2
      BY AboveNat, AboveSteps, LevelBelow
    <3>2. \A x \in Nat : j > x \div 2 => 2 * j > x /\ 2 * j + 1 > x
      OBVIOUS
    <3>3. 2 * j > Above(m)[l - 1] /\ 2 * j + 1 > Above(m)[l - 1]
      BY <2>1, <3>1, <3>2
    <3>4. 2 * j \in Nat /\ 2 * j + 1 \in Nat
      OBVIOUS
    <3>5. /\ ReferenceTree(ls)[l - 1][2 * j] = zeros[l - 1]
          /\ ReferenceTree(ls)[l - 1][2 * j + 1] = zeros[l - 1]
      BY <1>2, <3>3, <3>4
    <3>6. ReferenceTree(ls)[l][j] = hash2(ReferenceTree(ls)[l - 1][2 * j],
                                           ReferenceTree(ls)[l - 1][2 * j + 1])
      BY NodeSteps
    <3>7. zeros[l] = hash2(zeros[l - 1], zeros[l - 1])
      BY ZerosSteps
    <3> QED
      BY <3>5, <3>6, <3>7
  <2> QED
    BY <2>1, LevelBelow
<1> HIDE DEF T
<1>3. \A l \in 0 .. TREE_DEPTH : l \in T
  BY <1>1, <1>2, LevelInduction
<1> QED
  BY <1>3 DEF T

\* Without leaves each node is the zero of its level.
LEMMA EmptyTree ==
    \A l \in 0 .. TREE_DEPTH : \A j \in Nat : ReferenceTree(<<>>)[l][j] = zeros[l]
<1> DEFINE T == {l \in 0 .. TREE_DEPTH : \A j \in Nat : ReferenceTree(<<>>)[l][j] = zeros[l]}
<1>1. 0 \in T
  <2>1. ASSUME NEW j \in Nat PROVE ReferenceTree(<<>>)[0][j] = Zero
    <3> DEFINE none == <<>>
    <3>1. ~ (j < Len(none))
      OBVIOUS
    <3> HIDE DEF none
    <3>2. ReferenceTree(none)[0][j] = Zero
      BY <3>1, NodeSteps
    <3> QED
      BY <3>2 DEF none
  <2> QED
    BY <2>1, ZerosSteps, DepthAssumption
<1>2. ASSUME NEW l \in 1 .. TREE_DEPTH, l - 1 \in T PROVE l \in T
  <2>1. ASSUME NEW j \in Nat PROVE ReferenceTree(<<>>)[l][j] = zeros[l]
    <3>1. 2 * j \in Nat /\ 2 * j + 1 \in Nat
      OBVIOUS
    <3>2. /\ ReferenceTree(<<>>)[l - 1][2 * j] = zeros[l - 1]
          /\ ReferenceTree(<<>>)[l - 1][2 * j + 1] = zeros[l - 1]
      BY <1>2, <3>1
    <3>3. ReferenceTree(<<>>)[l][j] = hash2(ReferenceTree(<<>>)[l - 1][2 * j],
                                             ReferenceTree(<<>>)[l - 1][2 * j + 1])
      BY NodeSteps
    <3>4. zeros[l] = hash2(zeros[l - 1], zeros[l - 1])
      BY ZerosSteps
    <3> QED
      BY <3>2, <3>3, <3>4
  <2> QED
    BY <2>1, LevelBelow
<1> HIDE DEF T
<1>3. \A l \in 0 .. TREE_DEPTH : l \in T
  BY <1>1, <1>2, LevelInduction
<1> QED
  BY <1>3 DEF T

\* Equal roots are roots of the same leaves, as the hash is free.
LEMMA RootsTell ==
    ASSUME NEW ls, NEW ms, ReferenceRoot(ls) = ReferenceRoot(ms)
    PROVE  \A j \in Nat : j < MAX_LEAVES =>
             ReferenceTree(ls)[0][j] = ReferenceTree(ms)[0][j]
<1> DEFINE T == {d \in 0 .. TREE_DEPTH : \A j \in Nat : j < Pow2[d] =>
                   ReferenceTree(ls)[TREE_DEPTH - d][j] = ReferenceTree(ms)[TREE_DEPTH - d][j]}
<1>1. 0 \in T
  <2>1. \A j \in Nat : j < 1 => j = 0
    OBVIOUS
  <2> QED
    BY <2>1, Pow2Steps, DepthAssumption DEF ReferenceRoot
<1>2. ASSUME NEW d \in 1 .. TREE_DEPTH, d - 1 \in T PROVE d \in T
  <2> DEFINE l == TREE_DEPTH - d + 1
  <2>1. l \in 1 .. TREE_DEPTH /\ TREE_DEPTH - (d - 1) = l /\ l - 1 = TREE_DEPTH - d
    BY DepthAssumption
  <2> HIDE DEF l
  <2>2. Pow2[d] = 2 * Pow2[d - 1] /\ Pow2[d - 1] \in Nat
    BY Pow2Steps, Pow2Nat, LevelBelow
  <2>3. ASSUME NEW j \in Nat, j < Pow2[d]
        PROVE  ReferenceTree(ls)[l - 1][j] = ReferenceTree(ms)[l - 1][j]
    <3>1. PICK k \in Nat : k = j \div 2 /\ (j = 2 * k \/ j = 2 * k + 1)
      BY Halves
    <3>2. k < Pow2[d - 1]
      BY <2>2, <2>3, <3>1
    <3>3. ReferenceTree(ls)[l][k] = ReferenceTree(ms)[l][k]
      BY <1>2, <2>1, <3>2
    <3>4. <<ReferenceTree(ls)[l - 1][2 * k], ReferenceTree(ls)[l - 1][2 * k + 1]>>
            = <<ReferenceTree(ms)[l - 1][2 * k], ReferenceTree(ms)[l - 1][2 * k + 1]>>
      <4>1. ReferenceTree(ls)[l][k] = hash2(ReferenceTree(ls)[l - 1][2 * k],
                                             ReferenceTree(ls)[l - 1][2 * k + 1])
        BY <2>1, NodeSteps
      <4>2. ReferenceTree(ms)[l][k] = hash2(ReferenceTree(ms)[l - 1][2 * k],
                                             ReferenceTree(ms)[l - 1][2 * k + 1])
        BY <2>1, NodeSteps
      <4> QED
        BY <3>3, <4>1, <4>2 DEF hash2
    <3>5. /\ ReferenceTree(ls)[l - 1][2 * k] = ReferenceTree(ms)[l - 1][2 * k]
          /\ ReferenceTree(ls)[l - 1][2 * k + 1] = ReferenceTree(ms)[l - 1][2 * k + 1]
      BY <3>4
    <3> QED
      BY <3>1, <3>5
  <2> QED
    BY <2>1, <2>3, LevelBelow
<1> HIDE DEF T
<1>3. \A d \in 0 .. TREE_DEPTH : d \in T
  BY <1>1, <1>2, LevelInduction
<1>4. TREE_DEPTH \in T /\ TREE_DEPTH - TREE_DEPTH = 0
  BY <1>3, DepthAssumption
<1> QED
  BY <1>4 DEF T, MAX_LEAVES

\* Zero being no commitment, equal roots have as many leaves.
LEMMA SameRootSameLeaves ==
    ASSUME NEW ls \in Seq(Leaves), NEW ms \in Seq(Leaves), Len(ls) <= MAX_LEAVES,
           Len(ms) <= MAX_LEAVES, ReferenceRoot(ls) = ReferenceRoot(ms)
    PROVE  Len(ls) = Len(ms)
<1>1. MAX_LEAVES \in Nat
  BY Pow2Nat, DepthAssumption DEF MAX_LEAVES
<1>2. ASSUME NEW s \in Seq(Leaves), NEW t \in Seq(Leaves), Len(t) <= MAX_LEAVES,
             ReferenceRoot(s) = ReferenceRoot(t), Len(s) < Len(t)
      PROVE  FALSE
  <2> DEFINE n == Len(s)
  <2>1. n \in Nat /\ n < MAX_LEAVES /\ n + 1 \in 1 .. Len(t) /\ ~ (n < Len(s))
    BY <1>1, <1>2
  <2>2. t[n + 1] \in Leaves
    BY <2>1
  <2> HIDE DEF n
  <2>3. ReferenceTree(s)[0][n] = ReferenceTree(t)[0][n]
    BY <1>2, <2>1, RootsTell
  <2>4. ReferenceTree(s)[0][n] = Zero /\ ReferenceTree(t)[0][n] = t[n + 1]
    BY <1>2, <2>1, NodeSteps DEF n
  <2> QED
    BY <2>2, <2>3, <2>4, ZeroAssumption
<1>3. ~ (Len(ls) < Len(ms)) /\ ~ (Len(ms) < Len(ls))
  BY <1>2
<1>4. Len(ls) \in Nat /\ Len(ms) \in Nat
  OBVIOUS
<1> QED
  BY <1>3, <1>4

-----------------------------------------------------------------------------
(* Paths                                                                   *)

Beside(x) == IF x % 2 = 1 THEN x - 1 ELSE x + 1

\* A path of the siblings of the nodes above a leaf folds to those nodes.
LEMMA Folds ==
    ASSUME NEW ls, NEW idx \in Nat, NEW leaf, leaf = ReferenceTree(ls)[0][idx],
           NEW siblings,
           \A l \in Levels : siblings[l] = ReferenceTree(ls)[l][Beside(Above(idx)[l])]
    PROVE  \A l \in 0 .. TREE_DEPTH :
             Path(leaf, siblings, Bits(idx))[l] = ReferenceTree(ls)[l][Above(idx)[l]]
<1> DEFINE cur == Path(leaf, siblings, Bits(idx))
           T == {l \in 0 .. TREE_DEPTH : cur[l] = ReferenceTree(ls)[l][Above(idx)[l]]}
<1>1. 0 \in T
  BY PathSteps, AboveSteps, DepthAssumption
<1>2. ASSUME NEW l \in 1 .. TREE_DEPTH, l - 1 \in T PROVE l \in T
  <2> DEFINE a == Above(idx)[l - 1]
             b == Above(idx)[l]
             t == ReferenceTree(ls)[l - 1]
             s == siblings[l - 1]
  <2>1. a \in Nat /\ b = a \div 2 /\ l - 1 \in Levels /\ l \in 0 .. TREE_DEPTH
    BY AboveNat, AboveSteps, LevelBelow
  <2>2. cur[l - 1] = t[a] /\ s = t[Beside(a)]
    BY <1>2, <2>1
  <2>3. Bits(idx)[l - 1] = a % 2
    BY <2>1 DEF Bits
  <2>4. cur[l] = IF Bits(idx)[l - 1] = 0 THEN hash2(cur[l - 1], s) ELSE hash2(s, cur[l - 1])
    BY PathSteps
  <2>5. /\ b \in Nat
        /\ \/ a % 2 = 0 /\ a = 2 * b
           \/ a % 2 = 1 /\ a = 2 * b + 1
    <3> HIDE DEF a, b
    <3> QED
      BY <2>1, Halves
  <2>6. ReferenceTree(ls)[l][b] = hash2(t[2 * b], t[2 * b + 1])
    BY <2>5, NodeSteps
  <2> HIDE DEF cur, a, b, t, s
  <2>7. CASE a % 2 = 0
    <3>1. Beside(a) = 2 * b + 1 /\ a = 2 * b
      BY <2>5, <2>7 DEF Beside
    <3>2. cur[l] = hash2(t[2 * b], t[2 * b + 1])
      BY <2>2, <2>3, <2>4, <2>7, <3>1
    <3> QED
      BY <2>1, <2>6, <3>2 DEF b
  <2>8. CASE a % 2 = 1
    <3>1. Beside(a) = 2 * b /\ a = 2 * b + 1
      BY <2>5, <2>8 DEF Beside
    <3>2. cur[l] = hash2(t[2 * b], t[2 * b + 1])
      BY <2>2, <2>3, <2>4, <2>8, <3>1
    <3> QED
      BY <2>1, <2>6, <3>2 DEF b
  <2> QED
    BY <2>5, <2>7, <2>8
<1> HIDE DEF T
<1>3. \A l \in 0 .. TREE_DEPTH : l \in T
  BY <1>1, <1>2, LevelInduction
<1> QED
  BY <1>3 DEF T

\* Such a path ends at the root.
LEMMA FoldsToRoot ==
    ASSUME NEW ls, NEW idx \in Nat, idx < MAX_LEAVES, NEW leaf, leaf = ReferenceTree(ls)[0][idx],
           NEW siblings,
           \A l \in Levels : siblings[l] = ReferenceTree(ls)[l][Beside(Above(idx)[l])]
    PROVE  compute_merkle_root(leaf, siblings, Bits(idx)) = ReferenceRoot(ls)
<1>1. \A l \in 0 .. TREE_DEPTH :
        Path(leaf, siblings, Bits(idx))[l] = ReferenceTree(ls)[l][Above(idx)[l]]
  BY Folds
<1>2. TREE_DEPTH \in 0 .. TREE_DEPTH /\ Above(idx)[TREE_DEPTH] = 0
  BY AboveSmall, DepthAssumption
<1> QED
  BY <1>1, <1>2 DEF compute_merkle_root, ReferenceRoot

-----------------------------------------------------------------------------
(* The frontier                                                            *)

\* Where the next leaf is below a right child, the frontier has the left one.
FrontierOf(ls, f) ==
    \A l \in Levels : IsRight(Len(ls), l) =>
        f[l] = ReferenceTree(ls)[l][Above(Len(ls))[l] - 1]

\* The nodes above the new leaf are computed right from the frontier.
LEMMA Climbs ==
    ASSUME NEW ls \in Seq(Leaves), NEW leaf \in Leaves, NEW f, FrontierOf(ls, f)
    PROVE  \A l \in 0 .. TREE_DEPTH :
             Climb(leaf, Len(ls), f)[l]
               = ReferenceTree(Append(ls, leaf))[l][Above(Len(ls))[l]]
<1> DEFINE n == Len(ls)
           ms == Append(ls, leaf)
           siblings == [l \in Levels |-> IF IsRight(n, l) THEN f[l] ELSE zeros[l]]
<1>1. n \in Nat /\ Len(ms) = n + 1 /\ ms[n + 1] = leaf /\ \A i \in 1 .. n : ls[i] = ms[i]
  BY AppendProperties
<1>2. leaf = ReferenceTree(ms)[0][n]
  <2> HIDE DEF n, ms
  <2>1. n < Len(ms)
    BY <1>1
  <2> QED
    BY <1>1, <2>1, NodeSteps
<1>3. ASSUME NEW l \in Levels
      PROVE  siblings[l] = ReferenceTree(ms)[l][Beside(Above(n)[l])]
  <2> DEFINE a == Above(n)[l]
  <2>1. l \in 0 .. TREE_DEPTH /\ a \in Nat
    BY <1>1, AboveNat, DepthAssumption DEF Levels
  <2>2. a % 2 = 1 <=> IsRight(n, l)
    BY DEF IsRight
  <2>3. CASE a % 2 = 1
    <3>1. siblings[l] = ReferenceTree(ls)[l][a - 1]
      BY <2>2, <2>3 DEF FrontierOf
    <3>2. a - 1 \in Nat /\ a - 1 < a /\ Beside(a) = a - 1
      BY <2>1, <2>3 DEF Beside
    <3> HIDE DEF siblings, ms, n
    <3>3. n <= Len(ls) /\ n <= Len(ms) /\ Len(ls) \in Nat /\ Len(ms) \in Nat
      BY <1>1 DEF n
    <3>4. \A k \in 0 .. TREE_DEPTH : \A j \in Nat :
            j < Above(n)[k] => ReferenceTree(ls)[k][j] = ReferenceTree(ms)[k][j]
      <4>1. Agree(ls, ms, n)
        BY <1>1, <3>3 DEF Agree
      <4> QED
        BY <4>1, Stable
    <3> QED
      BY <2>1, <3>1, <3>2, <3>4
  <2>4. CASE a % 2 # 1
    <3>1. siblings[l] = zeros[l]
      BY <2>2, <2>4
    <3>2. a + 1 \in Nat /\ a + 1 > a /\ Beside(a) = a + 1
      BY <2>1, <2>4 DEF Beside
    <3> HIDE DEF siblings, ms, n
    <3>3. Len(ms) <= n + 1 /\ Len(ms) \in Nat
      BY <1>1
    <3>4. ReferenceTree(ms)[l][a + 1] = zeros[l]
      BY <1>1, <2>1, <3>2, <3>3, EmptyBeyond
    <3> QED
      BY <3>1, <3>2, <3>4
  <2> QED
    BY <2>3, <2>4
<1>4. Climb(leaf, n, f) = Path(leaf, siblings, Bits(n))
  BY DEF Climb
<1> HIDE DEF n, ms, siblings
<1>5. \A l \in 0 .. TREE_DEPTH :
        Path(leaf, siblings, Bits(n))[l] = ReferenceTree(ms)[l][Above(n)[l]]
  <2>1. n \in Nat
    BY <1>1
  <2> QED
    BY <2>1, <1>2, <1>3, Folds
<1> QED
  BY <1>4, <1>5 DEF n, ms

\* The root after a leaf is the root of the full tree,
LEMMA RootAppended ==
    ASSUME NEW ls \in Seq(Leaves), NEW leaf \in Leaves, NEW f, FrontierOf(ls, f),
           Len(ls) < MAX_LEAVES
    PROVE  Climb(leaf, Len(ls), f)[TREE_DEPTH] = ReferenceRoot(Append(ls, leaf))
<1>1. TREE_DEPTH \in 0 .. TREE_DEPTH /\ Len(ls) \in Nat
  BY DepthAssumption
<1>2. Above(Len(ls))[TREE_DEPTH] = 0
  BY <1>1, AboveSmall
<1> QED
  BY <1>1, <1>2, Climbs DEF ReferenceRoot

\* and the frontier after it is the frontier of the full tree.
LEMMA Waits ==
    ASSUME NEW ls \in Seq(Leaves), NEW leaf \in Leaves, NEW f, FrontierOf(ls, f)
    PROVE  FrontierOf(Append(ls, leaf), Waiting(leaf, Len(ls), f))
<1> DEFINE n == Len(ls)
           ms == Append(ls, leaf)
           w == Waiting(leaf, n, f)
<1>1. /\ n \in Nat /\ Len(ms) = n + 1 /\ \A i \in 1 .. n : ls[i] = ms[i]
      /\ n <= Len(ls) /\ Len(ls) \in Nat /\ Len(ms) \in Nat /\ n <= Len(ms)
  BY AppendProperties
<1>2. ASSUME NEW l \in Levels, IsRight(n + 1, l)
      PROVE  w[l] = ReferenceTree(ms)[l][Above(n + 1)[l] - 1]
  <2> DEFINE a == Above(n)[l]
             b == Above(n + 1)[l]
  <2>0. l \in 0 .. TREE_DEPTH
    BY DepthAssumption DEF Levels
  <2>1. a \in Nat /\ (b = a \/ b = a + 1)
    <3> HIDE DEF n
    <3> QED
      BY <1>1, <2>0, AboveNat, AboveNext
  <2>2. (a % 2 = 1 <=> IsRight(n, l)) /\ b % 2 = 1
    BY <1>2 DEF IsRight
  <2>3. w[l] = IF IsRight(n, l) THEN f[l] ELSE Climb(leaf, n, f)[l]
    BY DEF Waiting
  <2>4. CASE a % 2 = 1
    <3>1. b = a /\ a - 1 \in Nat /\ a - 1 < a
      BY <2>1, <2>2, <2>4
    <3>2. w[l] = ReferenceTree(ls)[l][a - 1]
      BY <2>2, <2>3, <2>4 DEF FrontierOf
    <3> HIDE DEF n, ms, w
    <3>3. \A k \in 0 .. TREE_DEPTH : \A j \in Nat :
            j < Above(n)[k] => ReferenceTree(ls)[k][j] = ReferenceTree(ms)[k][j]
      <4>1. Agree(ls, ms, n)
        BY <1>1 DEF Agree
      <4> QED
        BY <4>1, Stable
    <3> QED
      BY <2>0, <3>1, <3>2, <3>3
  <2>5. CASE a % 2 # 1
    <3>1. b = a + 1 /\ b - 1 = a
      BY <2>1, <2>2, <2>5
    <3>2. w[l] = ReferenceTree(ms)[l][a]
      BY <2>0, <2>1, <2>2, <2>3, <2>5, Climbs
    <3> QED
      BY <3>1, <3>2
  <2> QED
    BY <2>4, <2>5
<1> QED
  BY <1>1, <1>2 DEF FrontierOf

-----------------------------------------------------------------------------
(* The layers of the mirror                                                *)

\* The first w nodes of a level.
IsLayer(layer, ls, l, w) ==
    /\ layer = [i \in 1 .. w |-> layer[i]] /\ w \in Nat
    /\ \A j \in Nat : j < w => layer[j + 1] = ReferenceTree(ls)[l][j]

LEMMA LayerLength ==
    ASSUME NEW layer, NEW w \in Nat, layer = [i \in 1 .. w |-> layer[i]]
    PROVE  Len(layer) = w
OBVIOUS

\* The mirror's layers are the first nodes of each level, up to the last leaf.
LEMMA LayersOf ==
    ASSUME NEW ls \in Seq(Leaves), NEW m \in Nat, Len(ls) = m + 1
    PROVE  \A l \in 0 .. TREE_DEPTH : IsLayer(Layers(ls)[l], ls, l, Above(m)[l] + 1)
<1> DEFINE T == {l \in 0 .. TREE_DEPTH : IsLayer(Layers(ls)[l], ls, l, Above(m)[l] + 1)}
<1>1. 0 \in T
  <2>1. Layers(ls)[0] = ls /\ Above(m)[0] = m
    BY LayersSteps, AboveSteps
  <2>2. ls = [i \in 1 .. m + 1 |-> ls[i]]
    OBVIOUS
  <2>3. \A j \in Nat : j < m + 1 => ls[j + 1] = ReferenceTree(ls)[0][j]
    BY NodeSteps
  <2>4. IsLayer(ls, ls, 0, m + 1)
    BY <2>2, <2>3 DEF IsLayer
  <2> QED
    BY <2>1, <2>4, DepthAssumption
<1>2. ASSUME NEW l \in 1 .. TREE_DEPTH, l - 1 \in T PROVE l \in T
  <2> DEFINE a == Above(m)[l - 1]
             b == Above(m)[l]
             below == Layers(ls)[l - 1]
             layer == Layers(ls)[l]
             t == ReferenceTree(ls)[l - 1]
  <2>1. a \in Nat /\ b \in Nat /\ b = a \div 2 /\ l - 1 \in 0 .. TREE_DEPTH /\ l \in 0 .. TREE_DEPTH
    BY AboveNat, AboveSteps, LevelBelow
  <2>2. /\ below = [i \in 1 .. a + 1 |-> below[i]]
        /\ \A j \in Nat : j < a + 1 => below[j + 1] = t[j]
    BY <1>2 DEF IsLayer
  <2>3. layer = NextLayer(below, l - 1)
    BY LayersSteps
  <2>4. \A j \in Nat : j > a => t[j] = zeros[l - 1]
    <3>1. Len(ls) <= m + 1 /\ Len(ls) \in Nat
      OBVIOUS
    <3> QED
      BY <2>1, <3>1, EmptyBeyond
  <2> HIDE DEF below, layer, a, t, b
  <2>5. Len(below) = a + 1
    BY <2>1, <2>2, LayerLength
  <2>6. (Len(below) + 1) \div 2 = b + 1
    BY <2>1, <2>5
  <2>7. layer = [i \in 1 .. b + 1 |->
                   hash2(below[2 * i - 1],
                         IF 2 * i <= a + 1 THEN below[2 * i] ELSE zeros[l - 1])]
    BY <2>3, <2>5, <2>6 DEF NextLayer
  <2>8. ASSUME NEW j \in Nat, j < b + 1
        PROVE  layer[j + 1] = ReferenceTree(ls)[l][j]
    <3>1. j + 1 \in 1 .. b + 1 /\ 2 * (j + 1) - 1 = 2 * j + 1 /\ 2 * (j + 1) = (2 * j + 1) + 1
          /\ 2 * j < a + 1 /\ 2 * j \in Nat /\ 2 * j + 1 \in Nat
      BY <2>1, <2>8
    <3>2. layer[j + 1] = hash2(below[2 * (j + 1) - 1],
                               IF 2 * (j + 1) <= a + 1 THEN below[2 * (j + 1)] ELSE zeros[l - 1])
      BY <2>7, <3>1
    <3>3. below[2 * (j + 1) - 1] = t[2 * j]
      BY <2>2, <3>1
    <3>4. CASE 2 * (j + 1) <= a + 1
      <4>1. 2 * j + 1 < a + 1
        BY <2>1, <3>1, <3>4
      <4>2. below[2 * (j + 1)] = t[2 * j + 1]
        BY <2>2, <3>1, <4>1
      <4>3. layer[j + 1] = hash2(t[2 * j], t[2 * j + 1])
        BY <3>2, <3>3, <3>4, <4>2
      <4> QED
        BY <4>3, NodeSteps DEF t
    <3>5. CASE ~ (2 * (j + 1) <= a + 1)
      <4>1. 2 * j + 1 > a
        BY <2>1, <3>1, <3>5
      <4>2. zeros[l - 1] = t[2 * j + 1]
        BY <2>4, <3>1, <4>1
      <4>3. layer[j + 1] = hash2(t[2 * j], t[2 * j + 1])
        BY <3>2, <3>3, <3>5, <4>2
      <4> QED
        BY <4>3, NodeSteps DEF t
    <3> QED
      BY <3>4, <3>5
  <2>9. layer = [i \in 1 .. b + 1 |-> layer[i]]
    BY <2>7
  <2>10. IsLayer(layer, ls, l, b + 1)
    <3> DEFINE w == b + 1
    <3>1. w \in Nat /\ layer = [i \in 1 .. w |-> layer[i]]
      BY <2>1, <2>9
    <3>2. \A j \in Nat : j < w => layer[j + 1] = ReferenceTree(ls)[l][j]
      BY <2>8
    <3> HIDE DEF w
    <3>3. IsLayer(layer, ls, l, w)
      BY <3>1, <3>2 DEF IsLayer
    <3> QED
      BY <3>3 DEF w
  <2> QED
    BY <2>1, <2>10 DEF layer, b
<1> HIDE DEF T
<1>3. \A l \in 0 .. TREE_DEPTH : l \in T
  BY <1>1, <1>2, LevelInduction
<1> QED
  BY <1>3 DEF T

\* The mirror's top layer is the root.
LEMMA TopLayer ==
    ASSUME NEW ls \in Seq(Leaves), NEW m \in Nat, Len(ls) = m + 1, Len(ls) <= MAX_LEAVES
    PROVE  Layers(ls)[TREE_DEPTH] = <<ReferenceRoot(ls)>>
<1> DEFINE layer == Layers(ls)[TREE_DEPTH]
<1>1. Above(m)[TREE_DEPTH] = 0
  <2>1. MAX_LEAVES \in Nat
    BY Pow2Nat, DepthAssumption DEF MAX_LEAVES
  <2>2. m < MAX_LEAVES
    BY <2>1
  <2> QED
    BY <2>2, AboveSmall
<1>2. IsLayer(layer, ls, TREE_DEPTH, 1)
  <2>1. TREE_DEPTH \in 0 .. TREE_DEPTH
    BY DepthAssumption
  <2>2. IsLayer(layer, ls, TREE_DEPTH, Above(m)[TREE_DEPTH] + 1)
    BY <2>1, LayersOf
  <2> QED
    BY <1>1, <2>2
<1> HIDE DEF layer
<1>3. layer = [i \in 1 .. 1 |-> layer[i]] /\ layer[1] = ReferenceRoot(ls)
  <2>1. /\ layer = [i \in 1 .. 1 |-> layer[i]]
        /\ \A j \in Nat : j < 1 => layer[j + 1] = ReferenceTree(ls)[TREE_DEPTH][j]
    BY <1>2 DEF IsLayer
  <2>2. 0 \in Nat /\ 0 < 1 /\ 0 + 1 = 1
    OBVIOUS
  <2>3. layer[1] = ReferenceTree(ls)[TREE_DEPTH][0]
    BY <2>1, <2>2, Zenon
  <2> QED
    BY <2>1, <2>2, <2>3 DEF ReferenceRoot
<1>4. layer = <<ReferenceRoot(ls)>>
  BY <1>3
<1> QED
  BY <1>4 DEF layer

\* Reading a layer at any position, past its end too, reads the full tree.
LEMMA SiblingOf ==
    ASSUME NEW ls \in Seq(Leaves), NEW m \in Nat, Len(ls) = m + 1,
           NEW l \in Levels, NEW j \in Nat
    PROVE  Sibling(Layers(ls)[l], j, l) = ReferenceTree(ls)[l][j]
<1> DEFINE layer == Layers(ls)[l]
           w == Above(m)[l] + 1
<1>1. l \in 0 .. TREE_DEPTH
  BY DepthAssumption DEF Levels
<1>2. IsLayer(layer, ls, l, w) /\ Above(m)[l] \in Nat
  BY <1>1, LayersOf, AboveNat
<1>3. \A k \in Nat : k > Above(m)[l] => ReferenceTree(ls)[l][k] = zeros[l]
  <2>1. Len(ls) <= m + 1 /\ Len(ls) \in Nat
    OBVIOUS
  <2> QED
    BY <1>1, <2>1, EmptyBeyond
<1>4. Len(layer) = w /\ w \in Nat /\ (~ (j < w) => j > Above(m)[l])
  <2>1. w \in Nat /\ layer = [i \in 1 .. w |-> layer[i]]
    BY <1>2 DEF IsLayer
  <2>2. ~ (j < w) => j > Above(m)[l]
    BY <1>2
  <2> HIDE DEF layer, w
  <2> QED
    BY <2>1, <2>2, LayerLength
<1> HIDE DEF layer, w
<1>5. j < w => layer[j + 1] = ReferenceTree(ls)[l][j]
  BY <1>2 DEF IsLayer
<1>6. Sibling(layer, j, l) = IF j < w THEN layer[j + 1] ELSE zeros[l]
  BY <1>4 DEF Sibling
<1> QED
  BY <1>3, <1>4, <1>5, <1>6 DEF layer

-----------------------------------------------------------------------------
(* Leaves that are not in yet                                              *)

\* The sender knows the frontier, and m + 1 leaves that will come next.
Sends(state, ls, new, m) ==
    /\ ls \in Seq(Leaves) /\ new \in Seq(Leaves)
    /\ m \in Nat /\ Len(new) = m + 1
    /\ state.nextIndex = Len(ls) /\ FrontierOf(ls, state.frontier)

\* The nodes of a level above the new leaves.
IsNewLayer(layer, ls, new, m, l) ==
    /\ DOMAIN layer = Above(Len(ls))[l] .. Above(Len(ls) + m)[l]
    /\ \A j \in DOMAIN layer : layer[j] = ReferenceTree(ls \o new)[l][j]

\* The old leaves are the first of the joined ones, the new ones follow.
LEMMA Joined ==
    ASSUME NEW ls \in Seq(Leaves), NEW new \in Seq(Leaves), NEW m \in Nat, Len(new) = m + 1
    PROVE  /\ Len(ls) \in Nat /\ Len(ls \o new) = Len(ls) + m + 1
           /\ Agree(ls, ls \o new, Len(ls))
           /\ \A j \in 1 .. m + 1 : (ls \o new)[Len(ls) + j] = new[j]
           /\ ls \o new \in Seq(Leaves)
<1>1. /\ Len(ls \o new) = Len(ls) + Len(new) /\ ls \o new \in Seq(Leaves)
      /\ \A i \in 1 .. Len(ls) + Len(new) :
           (ls \o new)[i] = IF i <= Len(ls) THEN ls[i] ELSE new[i - Len(ls)]
  BY ConcatProperties
<1>2. Len(ls) \in Nat
  OBVIOUS
<1> DEFINE ms == ls \o new
           n == Len(ls)
<1> HIDE DEF ms, n
<1>3. n \in Nat /\ Len(ms) = n + m + 1 /\ n = Len(ls)
  BY <1>1, <1>2 DEF ms, n
<1>4. \A i \in 1 .. n + m + 1 : ms[i] = IF i <= n THEN ls[i] ELSE new[i - n]
  <2>1. n + m + 1 = Len(ls) + Len(new)
    BY <1>3
  <2> QED
    BY <1>1, <2>1 DEF ms, n
<1>5. Agree(ls, ms, n)
  <2>1. \A i \in 1 .. n : i \in 1 .. n + m + 1 /\ i <= n
    BY <1>3
  <2>2. \A i \in 1 .. n : ls[i] = ms[i]
    BY <1>4, <2>1
  <2> QED
    BY <1>3, <2>2 DEF Agree
<1>6. ASSUME NEW j \in 1 .. m + 1 PROVE ms[n + j] = new[j]
  <2>1. n + j \in 1 .. n + m + 1 /\ ~ (n + j <= n) /\ (n + j) - n = j
    BY <1>3
  <2> QED
    BY <1>4, <2>1
<1> QED
  BY <1>1, <1>3, <1>5, <1>6 DEF ms, n

\* What the sender takes for a node near its leaves is that node of the full
\* tree: a new one, the last complete old one, or an empty one.
LEMMA NodeAtIs ==
    ASSUME NEW state, NEW ls, NEW new, NEW m, Sends(state, ls, new, m),
           NEW l \in Levels, NEW layer, IsNewLayer(layer, ls, new, m, l),
           NEW j \in Nat,
           \/ j >= Above(Len(ls))[l]
           \/ IsRight(Len(ls), l) /\ j = Above(Len(ls))[l] - 1
    PROVE  NodeAt(layer, j, l, state) = ReferenceTree(ls \o new)[l][j]
<1> DEFINE n == Len(ls)
           ms == ls \o new
           a == Above(n)[l]
           b == Above(n + m)[l]
<1>1. l \in 0 .. TREE_DEPTH
  BY DepthAssumption DEF Levels
<1>2. n \in Nat /\ m \in Nat /\ Len(ms) = n + m + 1 /\ Agree(ls, ms, n)
  BY Joined DEF Sends
<1>3. DOMAIN layer = a .. b /\ \A k \in a .. b : layer[k] = ReferenceTree(ms)[l][k]
  BY DEF IsNewLayer
<1>4. state.nextIndex = n /\ (IsRight(n, l) => state.frontier[l] = ReferenceTree(ls)[l][a - 1])
  BY DEF Sends, FrontierOf
<1>5. j >= a \/ (IsRight(n, l) /\ j = a - 1)
  OBVIOUS
<1> HIDE DEF n, ms
<1>6. a \in Nat /\ b \in Nat /\ a <= b
  <2>1. n + m \in Nat /\ n <= n + m
    BY <1>2
  <2> QED
    BY <1>1, <1>2, <2>1, AboveNat, AboveMonotone
<1>7. (j + 1) * Pow2[l] <= state.nextIndex <=> j + 1 <= a
  BY <1>1, <1>2, <1>4, AboveOld
<1> HIDE DEF a, b
<1>8. CASE j \in a .. b
  <2>1. ~ (j + 1 <= a)
    BY <1>6, <1>8
  <2>2. NodeAt(layer, j, l, state) = layer[j]
    BY <1>3, <1>7, <1>8, <2>1 DEF NodeAt
  <2> QED
    BY <1>3, <1>8, <2>2 DEF ms
<1>9. CASE IsRight(n, l) /\ j = a - 1
  <2>1. j + 1 <= a /\ j \notin a .. b /\ j < a
    BY <1>6, <1>9
  <2>2. NodeAt(layer, j, l, state) = state.frontier[l]
    BY <1>3, <1>7, <2>1 DEF NodeAt
  <2>3. ReferenceTree(ls)[l][j] = ReferenceTree(ms)[l][j]
    BY <1>1, <1>2, <2>1, Stable DEF a
  <2> QED
    BY <1>4, <1>9, <2>2, <2>3 DEF ms
<1>10. CASE j > b
  <2>1. ~ (j + 1 <= a) /\ j \notin a .. b
    BY <1>6, <1>10
  <2>2. NodeAt(layer, j, l, state) = zeros[l]
    BY <1>3, <1>7, <2>1 DEF NodeAt
  <2>3. n + m \in Nat /\ Len(ms) \in Nat /\ Len(ms) <= (n + m) + 1
    BY <1>2
  <2>4. ReferenceTree(ms)[l][j] = zeros[l]
    BY <1>1, <1>10, <2>3, EmptyBeyond DEF b
  <2> QED
    BY <2>2, <2>4 DEF ms
<1>11. j \in a .. b \/ j > b \/ (IsRight(n, l) /\ j = a - 1)
  BY <1>5, <1>6
<1> QED
  BY <1>8, <1>9, <1>10, <1>11

\* The sender's nodes above the new leaves are those of the full tree.
LEMMA NewLayersOf ==
    ASSUME NEW state, NEW ls, NEW new, NEW m, Sends(state, ls, new, m)
    PROVE  \A l \in 0 .. TREE_DEPTH : IsNewLayer(NewLayers(state, new)[l], ls, new, m, l)
<1> DEFINE n == Len(ls)
           ms == ls \o new
           T == {l \in 0 .. TREE_DEPTH : IsNewLayer(NewLayers(state, new)[l], ls, new, m, l)}
<1>1. /\ n \in Nat /\ m \in Nat /\ Len(ms) = n + m + 1
      /\ \A j \in 1 .. m + 1 : ms[n + j] = new[j]
      /\ Len(new) = m + 1 /\ state.nextIndex = n
  BY Joined DEF Sends
<1>2. n + Len(new) - 1 = n + m
  BY <1>1
<1>3. 0 \in T
  <2> DEFINE layer == NewLayers(state, new)[0]
  <2>1. layer = NewLeaves(new, n)
    BY <1>1, NewLayersSteps
  <2>2. Above(n)[0] = n /\ Above(n + m)[0] = n + m
    BY AboveSteps
  <2> HIDE DEF layer, n, ms
  <2>3. layer = [k \in n .. n + m |-> new[k - n + 1]]
    BY <1>2, <2>1 DEF NewLeaves
  <2>4. ASSUME NEW k \in n .. n + m
        PROVE  layer[k] = ReferenceTree(ms)[0][k]
    <3>1. k \in Nat /\ k < Len(ms) /\ k - n + 1 \in 1 .. m + 1 /\ n + (k - n + 1) = k + 1
      BY <1>1
    <3>2. ms[k + 1] = new[k - n + 1]
      BY <1>1, <3>1
    <3>3. ReferenceTree(ms)[0][k] = ms[k + 1]
      BY <3>1, NodeSteps
    <3> QED
      BY <2>3, <3>2, <3>3
  <2>5. DOMAIN layer = n .. n + m
    BY <2>3
  <2>6. IsNewLayer(layer, ls, new, m, 0)
    BY <2>2, <2>4, <2>5 DEF IsNewLayer, n, ms
  <2> QED
    BY <2>6, DepthAssumption DEF layer
<1>4. ASSUME NEW l \in 1 .. TREE_DEPTH, l - 1 \in T PROVE l \in T
  <2> DEFINE below == NewLayers(state, new)[l - 1]
             layer == NewLayers(state, new)[l]
             a == Above(n)[l - 1]
             b == Above(n + m)[l - 1]
             c == Above(n)[l]
             d == Above(n + m)[l]
  <2>1. l - 1 \in 0 .. TREE_DEPTH /\ l - 1 \in Levels /\ l \in 0 .. TREE_DEPTH
    BY LevelBelow
  <2>2. n + m \in Nat
    BY <1>1
  <2>3. a \in Nat /\ b \in Nat /\ c = a \div 2 /\ d = b \div 2 /\ c \in Nat /\ d \in Nat
    <3> HIDE DEF n
    <3> QED
      BY <1>1, <2>1, <2>2, AboveNat, AboveSteps
  <2>4. IsNewLayer(below, ls, new, m, l - 1)
    BY <1>4
  <2>5. layer = NewNodes(below, l, Len(new), state)
    BY NewLayersSteps
  <2>6. IsRight(n, l - 1) <=> a % 2 = 1
    BY DEF IsRight
  <2> HIDE DEF below, layer, n, ms
  <2>7. layer = [k \in c .. d |-> hash2(NodeAt(below, 2 * k, l - 1, state),
                                        NodeAt(below, 2 * k + 1, l - 1, state))]
    BY <1>1, <1>2, <2>5 DEF NewNodes
  <2> HIDE DEF a, b, c, d
  <2>8. ASSUME NEW k \in c .. d
        PROVE  layer[k] = ReferenceTree(ms)[l][k]
    <3>1. k \in Nat /\ 2 * k \in Nat /\ 2 * k + 1 \in Nat
      BY <2>3
    <3>2. \A x, y \in Nat : y >= x \div 2 => /\ 2 * y >= x \/ (x % 2 = 1 /\ 2 * y = x - 1)
                                            /\ 2 * y + 1 >= x
      OBVIOUS
    <3>3. /\ 2 * k >= a \/ (IsRight(n, l - 1) /\ 2 * k = a - 1)
          /\ 2 * k + 1 >= a
      BY <2>3, <2>6, <3>1, <3>2
    <3>4. NodeAt(below, 2 * k, l - 1, state) = ReferenceTree(ms)[l - 1][2 * k]
      BY <2>1, <2>4, <3>1, <3>3, NodeAtIs DEF n, ms, a
    <3>5. NodeAt(below, 2 * k + 1, l - 1, state) = ReferenceTree(ms)[l - 1][2 * k + 1]
      BY <2>1, <2>4, <3>1, <3>3, NodeAtIs DEF n, ms, a
    <3>6. layer[k] = hash2(ReferenceTree(ms)[l - 1][2 * k], ReferenceTree(ms)[l - 1][2 * k + 1])
      BY <2>7, <3>4, <3>5
    <3> QED
      BY <3>1, <3>6, NodeSteps
  <2>9. DOMAIN layer = c .. d
    BY <2>7
  <2>10. IsNewLayer(layer, ls, new, m, l)
    BY <2>8, <2>9 DEF IsNewLayer, n, ms, c, d
  <2> QED
    BY <2>1, <2>10 DEF layer
<1> HIDE DEF T
<1>5. \A l \in 0 .. TREE_DEPTH : l \in T
  BY <1>3, <1>4, LevelInduction
<1> QED
  BY <1>5 DEF T

\* The sealed paths fold to the root that the pool has after the new leaves.
LEMMA SealedFolds ==
    ASSUME NEW state, NEW ls, NEW new, NEW m, Sends(state, ls, new, m),
           Len(ls) + Len(new) <= MAX_LEAVES, NEW j \in 1 .. Len(new)
    PROVE  compute_merkle_root(new[j], witnessesAfterInserts(state, new)[j].pathElements,
                               witnessesAfterInserts(state, new)[j].pathIndices)
             = ReferenceRoot(ls \o new)
<1> DEFINE n == Len(ls)
           ms == ls \o new
           idx == n + j - 1
           layer == NewLayers(state, new)
           sibling(x) == IF x % 2 = 0 THEN x + 1 ELSE x - 1
           siblings == [l \in Levels |-> NodeAt(layer[l], sibling(Above(idx)[l]), l, state)]
<1>1. /\ n \in Nat /\ m \in Nat /\ Len(ms) = n + m + 1
      /\ \A i \in 1 .. m + 1 : ms[n + i] = new[i]
      /\ Len(new) = m + 1 /\ state.nextIndex = n
  BY Joined DEF Sends
<1>2. MAX_LEAVES \in Nat
  BY Pow2Nat, DepthAssumption DEF MAX_LEAVES
<1>3. /\ state.nextIndex + j - 1 = idx
      /\ witnessesAfterInserts(state, new)[j].pathElements = siblings
      /\ witnessesAfterInserts(state, new)[j].pathIndices = Bits(idx)
  <2>1. state.nextIndex + j - 1 = idx
    BY <1>1
  <2>2. witnessesAfterInserts(state, new)[j]
          = [pathElements |-> siblings, pathIndices |-> Bits(idx)]
    BY <2>1 DEF witnessesAfterInserts
  <2> HIDE DEF siblings, idx
  <2> QED
    BY <2>1, <2>2
<1>4. idx \in Nat /\ idx < MAX_LEAVES /\ n <= idx /\ idx <= n + m /\ idx + 1 = n + j
      /\ idx < Len(ms)
  <2> HIDE DEF n, ms
  <2>1. n + Len(new) <= MAX_LEAVES
    BY DEF n
  <2> QED
    BY <1>1, <1>2, <2>1
<1>5. new[j] = ReferenceTree(ms)[0][idx]
  <2>1. ms[idx + 1] = new[j]
    BY <1>1, <1>4
  <2> HIDE DEF ms, idx
  <2> QED
    BY <1>4, <2>1, NodeSteps
<1>6. ASSUME NEW l \in Levels
      PROVE  siblings[l] = ReferenceTree(ms)[l][Beside(Above(idx)[l])]
  <2> DEFINE x == Above(idx)[l]
             a == Above(n)[l]
  <2>1. l \in 0 .. TREE_DEPTH
    BY DepthAssumption DEF Levels
  <2>2. x \in Nat /\ a \in Nat /\ a <= x
    <3> HIDE DEF n, idx
    <3> QED
      BY <1>1, <1>4, <2>1, AboveNat, AboveMonotone
  <2>3. IsNewLayer(layer[l], ls, new, m, l)
    BY <2>1, NewLayersOf
  <2>4. siblings[l] = NodeAt(layer[l], sibling(x), l, state)
    OBVIOUS
  <2>5. IsRight(n, l) <=> a % 2 = 1
    BY DEF IsRight
  <2> HIDE DEF layer, siblings, x, a, n
  <2>6. sibling(x) = Beside(x) /\ Beside(x) \in Nat
    BY <2>2 DEF Beside
  <2>7. Beside(x) >= a \/ (IsRight(n, l) /\ Beside(x) = a - 1)
    BY <2>2, <2>5 DEF Beside
  <2>8. NodeAt(layer[l], Beside(x), l, state) = ReferenceTree(ms)[l][Beside(x)]
    BY <2>3, <2>6, <2>7, NodeAtIs DEF n, a
  <2> QED
    BY <2>4, <2>6, <2>8 DEF x
<1> HIDE DEF siblings, idx, ms
<1>7. compute_merkle_root(new[j], siblings, Bits(idx)) = ReferenceRoot(ms)
  BY <1>4, <1>5, <1>6, FoldsToRoot
<1> QED
  BY <1>3, <1>7 DEF ms

\* The mirror's proof of a leaf folds to the root of its leaves.
LEMMA ProofFolds ==
    ASSUME NEW ls \in Seq(Leaves), Len(ls) <= MAX_LEAVES,
           NEW idx \in Nat, idx < Len(ls), NEW path,
           \A l \in Levels :
             path[l] = Sibling(Layers(ls)[l],
                               IF IsRight(idx, l) THEN Above(idx)[l] - 1
                               ELSE Above(idx)[l] + 1, l)
    PROVE  compute_merkle_root(ls[idx + 1], path, Bits(idx)) = ReferenceRoot(ls)
<1>1. MAX_LEAVES \in Nat /\ Len(ls) \in Nat
  BY Pow2Nat, DepthAssumption DEF MAX_LEAVES
<1>2. PICK m \in Nat : Len(ls) = m + 1
  <2>1. Len(ls) - 1 \in Nat /\ Len(ls) = (Len(ls) - 1) + 1
    BY <1>1
  <2> QED
    BY <2>1
<1>3. ASSUME NEW l \in Levels
      PROVE  path[l] = ReferenceTree(ls)[l][Beside(Above(idx)[l])]
  <2> DEFINE a == Above(idx)[l]
  <2>1. a \in Nat
    BY AboveNat, DepthAssumption DEF Levels
  <2>2. IsRight(idx, l) <=> a % 2 = 1
    BY DEF IsRight
  <2>3. path[l] = Sibling(Layers(ls)[l], Beside(a), l)
    BY <2>2 DEF Beside
  <2>4. Beside(a) \in Nat
    BY <2>1 DEF Beside
  <2> HIDE DEF a
  <2>5. Sibling(Layers(ls)[l], Beside(a), l) = ReferenceTree(ls)[l][Beside(a)]
    BY <1>2, <2>4, SiblingOf
  <2> QED
    BY <2>3, <2>5 DEF a
<1>4. ls[idx + 1] = ReferenceTree(ls)[0][idx]
  BY NodeSteps
<1>5. idx < MAX_LEAVES
  BY <1>1
<1> QED
  BY <1>3, <1>4, <1>5, FoldsToRoot

-----------------------------------------------------------------------------
(* Membership                                                              *)

LEMMA FromTop ==
    ASSUME NEW d \in 1 .. TREE_DEPTH
    PROVE  \E l \in 1 .. TREE_DEPTH :
             /\ l = TREE_DEPTH - d + 1 /\ TREE_DEPTH - (d - 1) = l
             /\ TREE_DEPTH - d = l - 1 /\ l - 1 \in Levels /\ l - 1 \in 0 .. TREE_DEPTH
             /\ d - 1 \in 0 .. TREE_DEPTH
BY DepthAssumption DEF Levels

LEMMA Children == ASSUME NEW x, NEW y PROVE <<x, y>>[1] = x /\ <<x, y>>[2] = y
OBVIOUS

\* A path that leads from a leaf to a root is the way down from the root.
LEMMA WayDown ==
    ASSUME NEW r, NEW bits \in [Levels -> {0, 1}], NEW leaf,
           compute_merkle_root(leaf, PathTo(r, bits), bits) = r
    PROVE  leaf = Subtree(r, bits)[TREE_DEPTH]
<1> DEFINE down == Subtree(r, bits)
           siblings == PathTo(r, bits)
           cur == Path(leaf, siblings, bits)
           T == {d \in 0 .. TREE_DEPTH : cur[TREE_DEPTH - d] = down[d]}
<1>1. 0 \in T
  <2>1. TREE_DEPTH - 0 = TREE_DEPTH /\ down[0] = r
    BY SubtreeSteps, DepthAssumption
  <2>2. cur[TREE_DEPTH] = r
    BY DEF compute_merkle_root
  <2> QED
    BY <2>1, <2>2, DepthAssumption
<1>2. ASSUME NEW d \in 1 .. TREE_DEPTH, d - 1 \in T PROVE d \in T
  <2>1. PICK l \in 1 .. TREE_DEPTH :
             /\ l = TREE_DEPTH - d + 1 /\ TREE_DEPTH - (d - 1) = l
             /\ TREE_DEPTH - d = l - 1 /\ l - 1 \in Levels /\ l - 1 \in 0 .. TREE_DEPTH
             /\ d - 1 \in 0 .. TREE_DEPTH
    BY FromTop
  <2>2. cur[l] = down[d - 1]
    BY <1>2, <2>1
  <2>3. cur[l] = IF bits[l - 1] = 0 THEN hash2(cur[l - 1], siblings[l - 1])
                 ELSE hash2(siblings[l - 1], cur[l - 1])
    BY PathSteps
  <2>4. down[d] = down[d - 1][bits[l - 1] + 1]
    BY <2>1, SubtreeSteps
  <2>5. bits[l - 1] = 0 \/ bits[l - 1] = 1
    BY <2>1
  <2> HIDE DEF cur, down, siblings
  <2>6. CASE bits[l - 1] = 0
    <3>1. down[d - 1] = <<cur[l - 1], siblings[l - 1]>>
      BY <2>2, <2>3, <2>6 DEF hash2
    <3>2. down[d] = down[d - 1][1]
      <4>1. 0 + 1 = 1
        OBVIOUS
      <4> QED
        BY <2>4, <2>6, <4>1, Zenon
    <3> QED
      BY <2>1, <3>1, <3>2, Children
  <2>7. CASE bits[l - 1] = 1
    <3>1. down[d - 1] = <<siblings[l - 1], cur[l - 1]>>
      BY <2>2, <2>3, <2>7 DEF hash2
    <3>2. down[d] = down[d - 1][2]
      <4>1. 1 + 1 = 2
        OBVIOUS
      <4> QED
        BY <2>4, <2>7, <4>1, Zenon
    <3> QED
      BY <2>1, <3>1, <3>2, Children
  <2> QED
    BY <2>5, <2>6, <2>7
<1> HIDE DEF T
<1>3. \A d \in 0 .. TREE_DEPTH : d \in T
  BY <1>1, <1>2, LevelInduction
<1>4. TREE_DEPTH \in T /\ TREE_DEPTH - TREE_DEPTH = 0
  BY <1>3, DepthAssumption
<1>5. cur[0] = down[TREE_DEPTH]
  BY <1>4 DEF T
<1> QED
  BY <1>5, PathSteps

\* The way down from a root ends at a leaf of the full tree.
LEMMA WayEnds ==
    ASSUME NEW ls, NEW bits \in [Levels -> {0, 1}]
    PROVE  \E j \in Nat : Subtree(ReferenceRoot(ls), bits)[TREE_DEPTH] = ReferenceTree(ls)[0][j]
<1> DEFINE down == Subtree(ReferenceRoot(ls), bits)
           T == {d \in 0 .. TREE_DEPTH : \E j \in Nat :
                   down[d] = ReferenceTree(ls)[TREE_DEPTH - d][j]}
<1>1. 0 \in T
  <2>1. TREE_DEPTH - 0 = TREE_DEPTH /\ down[0] = ReferenceTree(ls)[TREE_DEPTH][0]
    BY SubtreeSteps, DepthAssumption DEF ReferenceRoot
  <2> QED
    BY <2>1, DepthAssumption
<1>2. ASSUME NEW d \in 1 .. TREE_DEPTH, d - 1 \in T PROVE d \in T
  <2>1. PICK l \in 1 .. TREE_DEPTH :
             /\ l = TREE_DEPTH - d + 1 /\ TREE_DEPTH - (d - 1) = l
             /\ TREE_DEPTH - d = l - 1 /\ l - 1 \in Levels /\ l - 1 \in 0 .. TREE_DEPTH
             /\ d - 1 \in 0 .. TREE_DEPTH
    BY FromTop
  <2>2. PICK j \in Nat : down[d - 1] = ReferenceTree(ls)[l][j]
    BY <1>2, <2>1
  <2> DEFINE t == ReferenceTree(ls)[l - 1]
  <2>3. down[d - 1] = <<t[2 * j], t[2 * j + 1]>>
    BY <2>1, <2>2, NodeSteps DEF hash2
  <2>4. down[d] = down[d - 1][bits[l - 1] + 1]
    BY <2>1, SubtreeSteps
  <2>5. bits[l - 1] = 0 \/ bits[l - 1] = 1
    BY <2>1
  <2> HIDE DEF down, t
  <2>6. down[d] = t[2 * j] \/ down[d] = t[2 * j + 1]
    BY <2>3, <2>4, <2>5
  <2>7. 2 * j \in Nat /\ 2 * j + 1 \in Nat
    OBVIOUS
  <2>8. \E k \in Nat : down[d] = t[k]
    BY <2>6, <2>7
  <2> QED
    BY <2>1, <2>8 DEF t
<1> HIDE DEF T
<1>3. \A d \in 0 .. TREE_DEPTH : d \in T
  BY <1>1, <1>2, LevelInduction
<1>4. TREE_DEPTH \in T /\ TREE_DEPTH - TREE_DEPTH = 0
  BY <1>3, DepthAssumption
<1> QED
  BY <1>4 DEF T

\* A path from a commitment to a root exists only if it is a leaf below it,
LEMMA PathMember ==
    ASSUME NEW ls \in Seq(Leaves), NEW bits \in [Levels -> {0, 1}], NEW leaf \in Leaves,
           compute_merkle_root(leaf, PathTo(ReferenceRoot(ls), bits), bits) = ReferenceRoot(ls)
    PROVE  \E i \in 1 .. Len(ls) : ls[i] = leaf
<1>1. PICK j \in Nat : leaf = ReferenceTree(ls)[0][j]
  BY WayDown, WayEnds
<1>2. ReferenceTree(ls)[0][j] = IF j < Len(ls) THEN ls[j + 1] ELSE Zero
  BY NodeSteps
<1>3. j < Len(ls) /\ leaf = ls[j + 1]
  BY <1>1, <1>2, ZeroAssumption
<1>4. j + 1 \in 1 .. Len(ls)
  BY <1>3
<1> QED
  BY <1>3, <1>4

\* With the bits of the leaf's index the way down passes the nodes above it.
LEMMA WayToLeaf ==
    ASSUME NEW ls, NEW idx \in Nat, idx < MAX_LEAVES
    PROVE  \A l \in 0 .. TREE_DEPTH :
             Subtree(ReferenceRoot(ls), Bits(idx))[TREE_DEPTH - l]
               = ReferenceTree(ls)[l][Above(idx)[l]]
<1> DEFINE bits == Bits(idx)
           down == Subtree(ReferenceRoot(ls), bits)
           T == {d \in 0 .. TREE_DEPTH :
                   down[d] = ReferenceTree(ls)[TREE_DEPTH - d][Above(idx)[TREE_DEPTH - d]]}
<1>1. 0 \in T
  <2>1. TREE_DEPTH - 0 = TREE_DEPTH /\ down[0] = ReferenceTree(ls)[TREE_DEPTH][0]
    BY SubtreeSteps, DepthAssumption DEF ReferenceRoot
  <2>2. Above(idx)[TREE_DEPTH] = 0
    BY AboveSmall
  <2> QED
    BY <2>1, <2>2, DepthAssumption
<1>2. ASSUME NEW d \in 1 .. TREE_DEPTH, d - 1 \in T PROVE d \in T
  <2>1. PICK l \in 1 .. TREE_DEPTH :
             /\ l = TREE_DEPTH - d + 1 /\ TREE_DEPTH - (d - 1) = l
             /\ TREE_DEPTH - d = l - 1 /\ l - 1 \in Levels /\ l - 1 \in 0 .. TREE_DEPTH
             /\ d - 1 \in 0 .. TREE_DEPTH
    BY FromTop
  <2> DEFINE t == ReferenceTree(ls)[l - 1]
             a == Above(idx)[l - 1]
             b == Above(idx)[l]
  <2>2. down[d - 1] = ReferenceTree(ls)[l][b]
    BY <1>2, <2>1
  <2>3. a \in Nat /\ b = a \div 2
    BY <2>1, AboveNat, AboveSteps
  <2>4. bits[l - 1] = a % 2
    BY <2>1 DEF Bits
  <2>5. down[d] = down[d - 1][bits[l - 1] + 1]
    BY <2>1, SubtreeSteps
  <2> HIDE DEF a, b, bits, down
  <2>6. /\ b \in Nat
        /\ \/ a % 2 = 0 /\ a = 2 * b
           \/ a % 2 = 1 /\ a = 2 * b + 1
    BY <2>3, Halves
  <2>7. down[d - 1] = <<t[2 * b], t[2 * b + 1]>>
    BY <2>1, <2>2, <2>6, NodeSteps DEF hash2
  <2> HIDE DEF t
  <2>8. down[d] = t[a]
    <3>1. <<t[2 * b], t[2 * b + 1]>>[1] = t[2 * b] /\ <<t[2 * b], t[2 * b + 1]>>[2] = t[2 * b + 1]
      BY Children
    <3>2. 0 + 1 = 1 /\ 1 + 1 = 2
      OBVIOUS
    <3>3. CASE a % 2 = 0 /\ a = 2 * b
      BY <2>4, <2>5, <2>7, <3>1, <3>2, <3>3, Zenon
    <3>4. CASE a % 2 = 1 /\ a = 2 * b + 1
      BY <2>4, <2>5, <2>7, <3>1, <3>2, <3>4, Zenon
    <3> QED
      BY <2>6, <3>3, <3>4
  <2> QED
    BY <2>1, <2>8 DEF t, a
<1> HIDE DEF T
<1>3. \A d \in 0 .. TREE_DEPTH : d \in T
  BY <1>1, <1>2, LevelInduction
<1>4. ASSUME NEW l \in 0 .. TREE_DEPTH
      PROVE  down[TREE_DEPTH - l] = ReferenceTree(ls)[l][Above(idx)[l]]
  <2>1. TREE_DEPTH - l \in 0 .. TREE_DEPTH /\ TREE_DEPTH - (TREE_DEPTH - l) = l
    BY DepthAssumption
  <2>2. TREE_DEPTH - l \in T
    BY <1>3, <2>1
  <2> QED
    BY <2>1, <2>2 DEF T
<1> QED
  BY <1>4

\* and for each leaf below a root there is one.
LEMMA MemberPath ==
    ASSUME NEW ls \in Seq(Leaves), Len(ls) <= MAX_LEAVES, NEW idx \in Nat, idx < Len(ls)
    PROVE  compute_merkle_root(ls[idx + 1], PathTo(ReferenceRoot(ls), Bits(idx)), Bits(idx))
             = ReferenceRoot(ls)
<1> DEFINE siblings == PathTo(ReferenceRoot(ls), Bits(idx))
<1>1. idx < MAX_LEAVES
  BY Pow2Nat, DepthAssumption DEF MAX_LEAVES
<1>2. ASSUME NEW k \in Levels
      PROVE  siblings[k] = ReferenceTree(ls)[k][Beside(Above(idx)[k])]
  <2>1. PICK l \in 1 .. TREE_DEPTH : /\ l - 1 = k /\ TREE_DEPTH - k - 1 = TREE_DEPTH - l
                                     /\ k \in 0 .. TREE_DEPTH /\ l \in 0 .. TREE_DEPTH
    <3>1. k + 1 \in 1 .. TREE_DEPTH /\ (k + 1) - 1 = k
          /\ TREE_DEPTH - k - 1 = TREE_DEPTH - (k + 1)
          /\ k \in 0 .. TREE_DEPTH /\ k + 1 \in 0 .. TREE_DEPTH
      BY DepthAssumption DEF Levels
    <3> QED
      BY <3>1
  <2> DEFINE t == ReferenceTree(ls)[k]
             a == Above(idx)[k]
             b == Above(idx)[l]
             node == Subtree(ReferenceRoot(ls), Bits(idx))[TREE_DEPTH - l]
  <2>2. node = ReferenceTree(ls)[l][b]
    BY <1>1, <2>1, WayToLeaf
  <2>3. a \in Nat /\ b = a \div 2
    BY <2>1, AboveNat, AboveSteps
  <2>4. siblings[k] = node[2 - (a % 2)]
    BY <2>1 DEF PathTo, Bits
  <2> HIDE DEF a, b, node, siblings
  <2>5. /\ b \in Nat
        /\ \/ a % 2 = 0 /\ a = 2 * b
           \/ a % 2 = 1 /\ a = 2 * b + 1
    BY <2>3, Halves
  <2>6. node = <<t[2 * b], t[2 * b + 1]>>
    <3>1. ReferenceTree(ls)[l][b] = hash2(ReferenceTree(ls)[l - 1][2 * b],
                                          ReferenceTree(ls)[l - 1][2 * b + 1])
      BY <2>5, NodeSteps
    <3> QED
      BY <2>1, <2>2, <3>1 DEF hash2
  <2> HIDE DEF t
  <2>7. siblings[k] = t[Beside(a)]
    <3>1. CASE a % 2 = 0
      <4>1. Beside(a) = 2 * b + 1
        BY <2>5, <3>1 DEF Beside
      <4> QED
        BY <2>4, <2>6, <3>1, <4>1
    <3>2. CASE a % 2 = 1
      <4>1. Beside(a) = 2 * b
        BY <2>5, <3>2 DEF Beside
      <4> QED
        BY <2>4, <2>6, <3>2, <4>1
    <3> QED
      BY <2>5, <3>1, <3>2
  <2> QED
    BY <2>7 DEF t, a
<1>3. ls[idx + 1] = ReferenceTree(ls)[0][idx]
  BY NodeSteps
<1> HIDE DEF siblings
<1>4. compute_merkle_root(ls[idx + 1], siblings, Bits(idx)) = ReferenceRoot(ls)
  BY <1>1, <1>2, <1>3, FoldsToRoot
<1> QED
  BY <1>4 DEF siblings

-----------------------------------------------------------------------------
(* The root histories                                                      *)

\* The number of leaves up to which the roots are forgotten after those of
\* start + 1, .., n leaves were pushed.
Forgotten(start, n) == IF n - start <= ROOT_HISTORY THEN start ELSE n - ROOT_HISTORY
RootAt(ls, k) == ReferenceRoot(SubSeq(ls, 1, k))
IsHistory(rs, ls, start, n) ==
    rs = [i \in 1 .. n - Forgotten(start, n) |-> RootAt(ls, Forgotten(start, n) + i)]

ProofHolds(made) ==
    /\ made.size \in 1 .. Len(mirror.leaves)
    /\ made.root = RootAt(emitted, made.size)
    /\ compute_merkle_root(made.leaf, made.pathElements, made.pathIndices) = made.root

ContractInv ==
    /\ emitted \in Seq(Leaves)
    /\ next_index = Len(emitted) /\ next_index <= MAX_LEAVES
    /\ FrontierOf(emitted, frontier)
    /\ IsHistory(roots, emitted, 0, next_index)
MirrorInv ==
    /\ mirror.leaves \in Seq(Leaves) /\ Len(mirror.leaves) <= next_index
    /\ mirror.leaves = SubSeq(emitted, 1, Len(mirror.leaves))
    /\ FrontierOf(mirror.leaves, mirror.filledSubtrees)
    /\ IsHistory(mirror.roots, emitted, -1, Len(mirror.leaves))
IInv == ContractInv /\ MirrorInv /\ (proof = NoProof \/ ProofHolds(proof))

LEMMA ForgottenNat ==
    ASSUME NEW start \in {-1, 0}, NEW n \in Nat
    PROVE  /\ Forgotten(start, n) \in Int
           /\ start <= Forgotten(start, n)
           /\ Forgotten(start, n) <= n
           /\ n - Forgotten(start, n) \in Nat
BY DepthAssumption DEF Forgotten

LEMMA Prefixes ==
    ASSUME NEW ls \in Seq(Leaves), NEW k \in 0 .. Len(ls)
    PROVE  /\ SubSeq(ls, 1, k) \in Seq(Leaves) /\ Len(SubSeq(ls, 1, k)) = k
           /\ \A i \in 1 .. k : SubSeq(ls, 1, k)[i] = ls[i]
           /\ \A leaf \in Leaves : SubSeq(Append(ls, leaf), 1, k) = SubSeq(ls, 1, k)
           /\ SubSeq(ls, 1, Len(ls)) = ls
           /\ \A j \in 0 .. k : SubSeq(SubSeq(ls, 1, k), 1, j) = SubSeq(ls, 1, j)
OBVIOUS

\* The root of a prefix does not change when leaves come in.
LEMMA RootAtStable ==
    ASSUME NEW ls \in Seq(Leaves), NEW leaf \in Leaves, NEW k \in 0 .. Len(ls)
    PROVE  RootAt(Append(ls, leaf), k) = RootAt(ls, k)
BY Prefixes DEF RootAt

\* Roots of different sizes are different.
LEMMA RootAtTells ==
    ASSUME NEW ls \in Seq(Leaves), Len(ls) <= MAX_LEAVES,
           NEW j \in 0 .. Len(ls), NEW k \in 0 .. Len(ls), RootAt(ls, j) = RootAt(ls, k)
    PROVE  j = k
<1> DEFINE a == SubSeq(ls, 1, j)
           b == SubSeq(ls, 1, k)
<1>1. a \in Seq(Leaves) /\ b \in Seq(Leaves) /\ Len(a) = j /\ Len(b) = k
  BY Prefixes
<1>2. MAX_LEAVES \in Nat /\ Len(ls) \in Nat
  BY Pow2Nat, DepthAssumption DEF MAX_LEAVES
<1>3. ReferenceRoot(a) = ReferenceRoot(b)
  BY DEF RootAt
<1> HIDE DEF a, b
<1>4. Len(a) <= MAX_LEAVES /\ Len(b) <= MAX_LEAVES
  BY <1>1, <1>2
<1> QED
  BY <1>1, <1>3, <1>4, SameRootSameLeaves

LEMMA HistoryStable ==
    ASSUME NEW ls \in Seq(Leaves), NEW leaf \in Leaves, NEW start \in {-1, 0},
           NEW n \in 0 .. Len(ls), NEW rs, IsHistory(rs, ls, start, n)
    PROVE  IsHistory(rs, Append(ls, leaf), start, n)
<1> DEFINE f == Forgotten(start, n)
<1>1. f \in Int /\ start <= f /\ f <= n
  <2>1. n \in Nat
    OBVIOUS
  <2> QED
    BY <2>1, ForgottenNat
<1>2. rs = [i \in 1 .. n - f |-> RootAt(ls, f + i)]
  BY DEF IsHistory
<1> HIDE DEF f
<1>3. ASSUME NEW i \in 1 .. n - f PROVE RootAt(ls, f + i) = RootAt(Append(ls, leaf), f + i)
  <2>1. f + i \in 0 .. Len(ls)
    BY <1>1
  <2> QED
    BY <2>1, RootAtStable
<1>4. rs = [i \in 1 .. n - f |-> RootAt(Append(ls, leaf), f + i)]
  BY <1>2, <1>3
<1> QED
  BY <1>4 DEF IsHistory, f

\* The window moves on: what push_root keeps of n + 1 roots.
Window(rs, V, start, n) ==
    rs = [i \in 1 .. n - Forgotten(start, n) |-> V[Forgotten(start, n) + i]]

LEMMA Kept ==
    ASSUME NEW start \in {-1, 0}, NEW n \in Nat, NEW rs, NEW V, Window(rs, V, start, n)
    PROVE  Window(KeepLast(Append(rs, V[n + 1])), V, start, n + 1)
<1> USE DEF Window
<1> DEFINE f == Forgotten(start, n)
           m == n - f
           r == Append(rs, V[n + 1])
<1>1. f \in Int /\ start <= f /\ f <= n /\ m \in Nat
  BY ForgottenNat
<1>2. rs = [i \in 1 .. m |-> V[f + i]]
  OBVIOUS
<1>3. f + (m + 1) = n + 1
  BY <1>1
<1>4. Len(rs) = m
  <2> HIDE DEF m, f
  <2> QED
    BY <1>1, <1>2
<1>5. r = [i \in 1 .. m + 1 |-> V[f + i]]
  <2> HIDE DEF m, f
  <2>1. r = [i \in 1 .. m + 1 |-> IF i = m + 1 THEN V[n + 1] ELSE rs[i]]
    BY <1>1, <1>2, <1>4 DEF r
  <2>2. ASSUME NEW i \in 1 .. m + 1
        PROVE  (IF i = m + 1 THEN V[n + 1] ELSE rs[i]) = V[f + i]
    <3>1. CASE i = m + 1
      BY <1>3, <3>1
    <3>2. CASE i # m + 1
      <4>1. i \in 1 .. m
        BY <1>1, <3>2
      <4> QED
        BY <1>2, <3>2, <4>1
    <3> QED
      BY <3>1, <3>2
  <2> QED
    BY <2>1, <2>2
<1>6. Len(r) = m + 1
  <2> HIDE DEF m, f, r
  <2> QED
    BY <1>1, <1>5
<1>7. CASE n + 1 - start <= ROOT_HISTORY
  <2>1. f = start /\ Forgotten(start, n + 1) = start /\ m + 1 <= ROOT_HISTORY
        /\ m + 1 = n + 1 - start
    BY <1>7, DepthAssumption DEF Forgotten
  <2>2. KeepLast(r) = r
    BY <1>6, <2>1 DEF KeepLast
  <2> HIDE DEF m, f, r
  <2> QED
    BY <1>5, <2>1, <2>2 DEF r
<1>8. CASE ~ (n + 1 - start <= ROOT_HISTORY)
  <2> DEFINE g == n + 1 - ROOT_HISTORY
  <2>1. Forgotten(start, n + 1) = g /\ m = ROOT_HISTORY /\ g = f + 1
    BY <1>8, DepthAssumption DEF Forgotten
  <2>2. KeepLast(r) = SubSeq(r, 2, m + 1)
    <3> HIDE DEF m, f, r
    <3>1. ~ (m + 1 <= ROOT_HISTORY) /\ (m + 1) - ROOT_HISTORY + 1 = 2
      BY <1>1, <2>1
    <3> QED
      BY <1>6, <3>1 DEF KeepLast
  <2>3. (n + 1) - g = m
    BY <2>1, DepthAssumption
  <2> HIDE DEF m, f, g
  <2>4. SubSeq([i \in 1 .. m + 1 |-> V[f + i]], 2, m + 1) = [i \in 1 .. m |-> V[g + i]]
    <3>1. SubSeq([i \in 1 .. m + 1 |-> V[f + i]], 2, m + 1)
            = [i \in 1 .. m |-> [j \in 1 .. m + 1 |-> V[f + j]][i + 1]]
      BY <1>1
    <3>2. ASSUME NEW i \in 1 .. m
          PROVE  [j \in 1 .. m + 1 |-> V[f + j]][i + 1] = V[g + i]
      <4>1. i + 1 \in 1 .. m + 1 /\ f + (i + 1) = g + i
        BY <1>1, <2>1
      <4> QED
        BY <4>1
    <3> QED
      BY <3>1, <3>2
  <2> QED
    <3>1. KeepLast(r) = [i \in 1 .. m |-> V[g + i]]
      BY <1>5, <2>2, <2>4
    <3>2. Forgotten(start, n + 1) = g /\ (n + 1) - Forgotten(start, n + 1) = m
      BY <2>1, <2>3
    <3> QED
      BY <3>1, <3>2, Zenon DEF r
<1> QED
  BY <1>7, <1>8

\* push_root keeps the roots of the last prefixes.
LEMMA HistoryPushed ==
    ASSUME NEW ls \in Seq(Leaves), NEW start \in {-1, 0}, NEW n \in Nat, NEW rs,
           IsHistory(rs, ls, start, n)
    PROVE  IsHistory(KeepLast(Append(rs, RootAt(ls, n + 1))), ls, start, n + 1)
<1> DEFINE V == [k \in Int |-> RootAt(ls, k)]
           f == Forgotten(start, n)
           g == Forgotten(start, n + 1)
<1>1. f \in Int /\ g \in Int /\ n + 1 \in Nat
  <2>1. n + 1 \in Nat
    OBVIOUS
  <2> QED
    BY <2>1, ForgottenNat
<1>2. rs = [i \in 1 .. n - f |-> RootAt(ls, f + i)]
  BY DEF IsHistory
<1> HIDE DEF f, g
<1>3. \A k \in Int : V[k] = RootAt(ls, k)
  OBVIOUS
<1> HIDE DEF V
<1>4. Window(rs, V, start, n)
  <2>1. \A i \in 1 .. n - f : f + i \in Int
    BY <1>1
  <2>2. rs = [i \in 1 .. n - f |-> V[f + i]]
    BY <1>2, <1>3, <2>1
  <2> QED
    BY <2>2 DEF Window, f
<1>5. KeepLast(Append(rs, V[n + 1])) = [i \in 1 .. (n + 1) - g |-> V[g + i]]
  <2>1. Window(KeepLast(Append(rs, V[n + 1])), V, start, n + 1)
    BY <1>4, Kept
  <2> QED
    BY <2>1, Zenon DEF Window, g
<1>6. KeepLast(Append(rs, V[n + 1])) = [i \in 1 .. (n + 1) - g |-> RootAt(ls, g + i)]
  <2>1. \A i \in 1 .. (n + 1) - g : g + i \in Int
    BY <1>1
  <2> QED
    BY <1>3, <1>5, <2>1
<1>7. V[n + 1] = RootAt(ls, n + 1)
  BY <1>1, <1>3
<1>8. KeepLast(Append(rs, RootAt(ls, n + 1)))
        = [i \in 1 .. (n + 1) - g |-> RootAt(ls, g + i)]
  BY <1>6, <1>7
<1> QED
  BY <1>8, Zenon DEF IsHistory, g

\* The sizes the roots stand for, in a window that moves on in the same way.
Sizes(start, n) ==
    [i \in 1 .. n - Forgotten(start, n) |-> Forgotten(start, n) + i]

LEMMA SizesPushed ==
    ASSUME NEW n \in Nat
    PROVE  KeepLast(Append(Sizes(0, n), n + 1)) = Sizes(0, n + 1)
<1> DEFINE V == [k \in Int |-> k]
           f == Forgotten(0, n)
           g == Forgotten(0, n + 1)
<1>1. f \in Int /\ g \in Int /\ n + 1 \in Nat
  <2>1. n + 1 \in Nat
    OBVIOUS
  <2> QED
    BY <2>1, ForgottenNat
<1>2. \A k \in Int : V[k] = k
  OBVIOUS
<1> HIDE DEF f, g, V
<1>3. Window(Sizes(0, n), V, 0, n)
  <2>1. \A i \in 1 .. n - f : V[f + i] = f + i
    BY <1>1, <1>2
  <2>2. [i \in 1 .. n - f |-> f + i] = [i \in 1 .. n - f |-> V[f + i]]
    BY <2>1
  <2> QED
    BY <2>2 DEF Sizes, Window, f
<1>4. Window(KeepLast(Append(Sizes(0, n), V[n + 1])), V, 0, n + 1)
  BY <1>3, Kept
<1>5. [i \in 1 .. (n + 1) - g |-> V[g + i]] = [i \in 1 .. (n + 1) - g |-> g + i]
  <2>1. \A i \in 1 .. (n + 1) - g : V[g + i] = g + i
    BY <1>1, <1>2
  <2> QED
    BY <2>1
<1>6. KeepLast(Append(Sizes(0, n), V[n + 1])) = Sizes(0, n + 1)
  BY <1>4, <1>5, Zenon DEF Window, Sizes, g
<1>7. V[n + 1] = n + 1
  BY <1>1, <1>2
<1> QED
  BY <1>6, <1>7

\* What is among the roots, and what is last.
LEMMA Recorded ==
    ASSUME NEW ls \in Seq(Leaves), NEW start \in {-1, 0}, NEW n \in Nat, NEW rs,
           IsHistory(rs, ls, start, n)
    PROVE  /\ \A r : r \in Range(rs) <=> \E k \in Forgotten(start, n) + 1 .. n : r = RootAt(ls, k)
           /\ Len(rs) = n - Forgotten(start, n)
           /\ Forgotten(start, n) < n => rs # <<>> /\ rs[Len(rs)] = RootAt(ls, n)
<1> DEFINE f == Forgotten(start, n)
<1>1. f \in Int /\ f <= n /\ n - f \in Nat
  BY ForgottenNat
<1>2. rs = [i \in 1 .. n - f |-> RootAt(ls, f + i)]
  BY DEF IsHistory
<1> HIDE DEF f
<1>3. Len(rs) = n - f
  BY <1>1, <1>2
<1>4. ASSUME NEW r PROVE r \in Range(rs) <=> \E k \in f + 1 .. n : r = RootAt(ls, k)
  <2>1. ASSUME r \in Range(rs) PROVE \E k \in f + 1 .. n : r = RootAt(ls, k)
    <3>1. PICK i \in 1 .. n - f : r = RootAt(ls, f + i)
      BY <1>2, <2>1 DEF Range
    <3>2. f + i \in f + 1 .. n
      BY <1>1
    <3> QED
      BY <3>1, <3>2
  <2>2. ASSUME NEW k \in f + 1 .. n, r = RootAt(ls, k) PROVE r \in Range(rs)
    <3>1. k - f \in 1 .. n - f /\ f + (k - f) = k
      BY <1>1
    <3>2. k - f \in DOMAIN rs /\ rs[k - f] = r
      BY <1>2, <2>2, <3>1
    <3> QED
      BY <3>2 DEF Range
  <2> QED
    BY <2>1, <2>2
<1>5. ASSUME f < n PROVE rs # <<>> /\ rs[Len(rs)] = RootAt(ls, n)
  <2>1. n - f \in 1 .. n - f /\ f + (n - f) = n
    BY <1>1, <1>5
  <2>2. rs[n - f] = RootAt(ls, n)
    BY <1>2, <2>1
  <2>3. Len(rs) # 0
    BY <1>1, <1>3, <1>5
  <2> QED
    BY <1>3, <2>2, <2>3
<1> QED
  BY <1>3, <1>4, <1>5 DEF f

-----------------------------------------------------------------------------
(* The invariant                                                           *)

LEMMA Capacity == MAX_LEAVES \in Nat \ {0}
BY Pow2Nat, DepthAssumption DEF MAX_LEAVES

LEMMA RootAtZero == ASSUME NEW ls \in Seq(Leaves) PROVE RootAt(ls, 0) = empty_root
<1>1. SubSeq(ls, 1, 0) = <<>>
  OBVIOUS
<1>2. ReferenceTree(<<>>)[TREE_DEPTH][0] = zeros[TREE_DEPTH]
  BY EmptyTree, DepthAssumption
<1> QED
  BY <1>1, <1>2 DEF RootAt, ReferenceRoot, empty_root

LEMMA FrontierEmpty == ASSUME NEW f PROVE FrontierOf(<<>>, f)
<1> DEFINE none == <<>>
<1>1. Len(none) = 0
  OBVIOUS
<1>2. \A l \in 0 .. TREE_DEPTH : Above(0)[l] = 0
  <2> DEFINE T == {l \in 0 .. TREE_DEPTH : Above(0)[l] = 0}
  <2>1. 0 \in T
    BY AboveSteps, DepthAssumption
  <2>2. ASSUME NEW l \in 1 .. TREE_DEPTH, l - 1 \in T PROVE l \in T
    BY <2>2, AboveSteps, LevelBelow
  <2> HIDE DEF T
  <2>3. \A l \in 0 .. TREE_DEPTH : l \in T
    BY <2>1, <2>2, LevelInduction
  <2> QED
    BY <2>3 DEF T
<1>3. \A l \in Levels : ~ IsRight(0, l)
  <2>1. \A l \in Levels : l \in 0 .. TREE_DEPTH
    BY DepthAssumption DEF Levels
  <2> QED
    BY <1>2, <2>1 DEF IsRight
<1> HIDE DEF none
<1>4. FrontierOf(none, f)
  BY <1>1, <1>3 DEF FrontierOf
<1> QED
  BY <1>4 DEF none

LEMMA InitInv == Init => IInv
<1> SUFFICES ASSUME Init PROVE IInv
  OBVIOUS
<1>1. emitted = <<>> /\ next_index = 0 /\ roots = <<>> /\ mirror = MerkleTree /\ proof = NoProof
  BY DEF Init
<1>2. Forgotten(0, 0) = 0 /\ Forgotten(-1, 0) = -1
  BY DepthAssumption DEF Forgotten
<1>3. emitted \in Seq(Leaves) /\ Len(emitted) = 0 /\ emitted = SubSeq(emitted, 1, 0)
  BY <1>1
<1>4. IsHistory(roots, emitted, 0, 0)
  <2>1. 0 - Forgotten(0, 0) = 0
    BY <1>2
  <2>2. <<>> = [i \in 1 .. 0 |-> RootAt(emitted, Forgotten(0, 0) + i)]
    OBVIOUS
  <2> QED
    BY <1>1, <2>1, <2>2 DEF IsHistory
<1>5. IsHistory(<<empty_root>>, emitted, -1, 0)
  <2>1. 0 - Forgotten(-1, 0) = 1 /\ \A i \in 1 .. 1 : Forgotten(-1, 0) + i = 0
    BY <1>2
  <2>2. [i \in 1 .. 1 |-> RootAt(emitted, Forgotten(-1, 0) + i)] = [i \in 1 .. 1 |-> empty_root]
    BY <1>3, <2>1, RootAtZero
  <2>3. <<empty_root>> = [i \in 1 .. 1 |-> empty_root]
    OBVIOUS
  <2> QED
    BY <2>1, <2>2, <2>3 DEF IsHistory
<1>6. ContractInv
  BY <1>1, <1>3, <1>4, FrontierEmpty, Capacity DEF ContractInv
<1>7. MirrorInv
  <2>1. mirror.leaves = <<>> /\ mirror.roots = <<empty_root>>
    BY <1>1 DEF MerkleTree
  <2> QED
    BY <1>1, <1>3, <1>5, <2>1, FrontierEmpty DEF MirrorInv
<1> QED
  BY <1>1, <1>6, <1>7 DEF IInv

\* The contract's insert.
LEMMA InsertInv ==
    ASSUME IInv, NEW leaf \in Leaves, insert(leaf)
    PROVE  IInv'
<1> DEFINE n == next_index
<1>1. /\ emitted \in Seq(Leaves) /\ n = Len(emitted) /\ n \in Nat /\ n < MAX_LEAVES
      /\ FrontierOf(emitted, frontier) /\ IsHistory(roots, emitted, 0, n)
  BY DEF IInv, ContractInv, insert
<1>2. /\ frontier' = Waiting(leaf, n, frontier)
      /\ roots' = KeepLast(Append(roots, Climb(leaf, n, frontier)[TREE_DEPTH]))
      /\ next_index' = n + 1 /\ emitted' = Append(emitted, leaf)
      /\ mirror' = mirror /\ proof' = proof
  BY DEF insert
<1>3. MAX_LEAVES \in Nat /\ n + 1 <= MAX_LEAVES
  BY <1>1, Capacity
<1>4. emitted' \in Seq(Leaves) /\ Len(emitted') = n + 1 /\ SubSeq(emitted', 1, n + 1) = emitted'
  <2>1. emitted' \in Seq(Leaves) /\ Len(emitted') = n + 1
    BY <1>1, <1>2, AppendProperties
  <2> QED
    BY <1>1, <2>1, Prefixes
<1>5. FrontierOf(emitted', frontier')
  BY <1>1, <1>2, Waits
<1>6. Climb(leaf, n, frontier)[TREE_DEPTH] = RootAt(emitted', n + 1)
  BY <1>1, <1>2, <1>4, RootAppended DEF RootAt
<1>7. IsHistory(roots, emitted', 0, n)
  <2>1. n \in 0 .. Len(emitted)
    BY <1>1
  <2> QED
    BY <1>1, <1>2, <2>1, HistoryStable
<1>8. IsHistory(roots', emitted', 0, n + 1)
  BY <1>1, <1>2, <1>4, <1>6, <1>7, HistoryPushed
<1>9. ContractInv'
  BY <1>2, <1>3, <1>4, <1>5, <1>8 DEF ContractInv
<1> DEFINE k == Len(mirror.leaves)
<1>10. /\ mirror.leaves \in Seq(Leaves) /\ k \in 0 .. Len(emitted)
       /\ mirror.leaves = SubSeq(emitted, 1, k)
       /\ FrontierOf(mirror.leaves, mirror.filledSubtrees)
       /\ IsHistory(mirror.roots, emitted, -1, k)
  BY <1>1 DEF IInv, MirrorInv
<1> HIDE DEF n
<1>11. MirrorInv'
  <2>1. mirror.leaves = SubSeq(emitted', 1, k)
    BY <1>1, <1>2, <1>10, Prefixes
  <2>2. IsHistory(mirror.roots, emitted', -1, k)
    BY <1>1, <1>2, <1>10, HistoryStable
  <2>3. k <= next_index'
    BY <1>1, <1>2, <1>10
  <2> QED
    BY <1>2, <1>10, <2>1, <2>2, <2>3 DEF MirrorInv
<1>12. ASSUME ProofHolds(proof) PROVE ProofHolds(proof)'
  <2>1. proof.size \in 0 .. Len(emitted)
    BY <1>10, <1>12 DEF ProofHolds
  <2>2. RootAt(emitted', proof.size) = RootAt(emitted, proof.size)
    BY <1>1, <1>2, <2>1, RootAtStable
  <2> QED
    BY <1>2, <1>12, <2>2 DEF ProofHolds
<1> QED
  BY <1>2, <1>9, <1>11, <1>12 DEF IInv, NoProof

\* The wallet reads a leaf.
LEMMA SyncInv ==
    ASSUME IInv, sync
    PROVE  IInv'
<1> DEFINE k == Len(mirror.leaves)
           leaf == emitted[k + 1]
<1>1. /\ emitted \in Seq(Leaves) /\ k < Len(emitted) /\ k < MAX_LEAVES
      /\ next_index = Len(emitted)
      /\ mirror.leaves \in Seq(Leaves) /\ k \in Nat
      /\ mirror.leaves = SubSeq(emitted, 1, k)
      /\ FrontierOf(mirror.leaves, mirror.filledSubtrees)
      /\ IsHistory(mirror.roots, emitted, -1, k)
  BY DEF IInv, ContractInv, MirrorInv, sync, mirror_insert
<1>2. /\ mirror'.leaves = Append(mirror.leaves, leaf)
      /\ mirror'.filledSubtrees = Waiting(leaf, k, mirror.filledSubtrees)
      /\ mirror'.roots = KeepLast(Append(mirror.roots,
                            Climb(leaf, k, mirror.filledSubtrees)[TREE_DEPTH]))
      /\ UNCHANGED <<contractVars, proof>>
  BY DEF sync, mirror_insert
<1>3. leaf \in Leaves /\ k + 1 \in 1 .. Len(emitted)
  BY <1>1
<1>4. /\ mirror'.leaves = SubSeq(emitted, 1, k + 1)
      /\ mirror'.leaves \in Seq(Leaves) /\ Len(mirror'.leaves) = k + 1
  <2>1. SubSeq(emitted, 1, k + 1) = Append(SubSeq(emitted, 1, k), emitted[k + 1])
    <3> HIDE DEF k
    <3> QED
      BY <1>1, <1>3
  <2> HIDE DEF k
  <2>2. k + 1 \in 0 .. Len(emitted)
    BY <1>3
  <2>3. SubSeq(emitted, 1, k + 1) \in Seq(Leaves) /\ Len(SubSeq(emitted, 1, k + 1)) = k + 1
    BY <1>1, <2>2, Prefixes
  <2> QED
    BY <1>1, <1>2, <2>1, <2>3
<1>5. FrontierOf(mirror'.leaves, mirror'.filledSubtrees)
  BY <1>1, <1>2, <1>3, Waits
<1>6. Climb(leaf, k, mirror.filledSubtrees)[TREE_DEPTH] = RootAt(emitted, k + 1)
  <2>1. Climb(leaf, k, mirror.filledSubtrees)[TREE_DEPTH]
          = ReferenceRoot(Append(mirror.leaves, leaf))
    BY <1>1, <1>3, RootAppended
  <2> QED
    BY <1>2, <1>4, <2>1 DEF RootAt
<1>7. IsHistory(mirror'.roots, emitted, -1, k + 1)
  BY <1>1, <1>2, <1>6, HistoryPushed
<1>8. ContractInv'
  BY <1>2 DEF IInv, ContractInv, contractVars, FrontierOf, IsHistory
<1>9. MirrorInv'
  <2>1. k + 1 <= next_index
    BY <1>1
  <2>2. emitted' = emitted /\ next_index' = next_index
    BY <1>2 DEF contractVars
  <2> QED
    BY <1>4, <1>5, <1>7, <2>1, <2>2 DEF MirrorInv
<1>10. ASSUME ProofHolds(proof) PROVE ProofHolds(proof)'
  <2>1. proof.size \in 1 .. k /\ emitted' = emitted /\ proof' = proof
    BY <1>2, <1>10 DEF ProofHolds, contractVars
  <2>2. proof.size \in 1 .. Len(mirror'.leaves)
    BY <1>1, <1>4, <2>1
  <2> QED
    BY <1>10, <2>1, <2>2 DEF ProofHolds
<1>11. proof' = proof
  BY <1>2
<1> QED
  BY <1>8, <1>9, <1>10, <1>11 DEF IInv, NoProof

\* The wallet makes a proof.
LEMMA ProofInv ==
    ASSUME IInv, NEW leafIndex \in 0 .. Len(mirror.leaves) - 1, generateProof(leafIndex)
    PROVE  IInv'
<1> DEFINE ls == mirror.leaves
           k == Len(ls)
<1>1. /\ ls \in Seq(Leaves) /\ k \in Nat /\ k <= MAX_LEAVES /\ leafIndex \in Nat /\ leafIndex < k
      /\ ls = SubSeq(emitted, 1, k) /\ IsHistory(mirror.roots, emitted, -1, k)
      /\ emitted \in Seq(Leaves)
  BY Capacity DEF IInv, ContractInv, MirrorInv
<1>2. UNCHANGED <<contractVars, mirror>>
  BY DEF generateProof
<1>3. /\ proof'.leaf = ls[leafIndex + 1]
      /\ proof'.pathElements = [l \in Levels |->
           Sibling(Layers(ls)[l], IF IsRight(leafIndex, l) THEN Above(leafIndex)[l] - 1
                                  ELSE Above(leafIndex)[l] + 1, l)]
      /\ proof'.pathIndices = Bits(leafIndex)
      /\ proof'.root = root
      /\ proof'.size = k
  BY DEF generateProof
<1>4. root = RootAt(emitted, k)
  <2>1. Forgotten(-1, k) < k
    BY <1>1, DepthAssumption DEF Forgotten
  <2> QED
    BY <1>1, <2>1, Recorded DEF root
<1>5. compute_merkle_root(proof'.leaf, proof'.pathElements, proof'.pathIndices) = ReferenceRoot(ls)
  BY <1>1, <1>3, ProofFolds
<1>6. ReferenceRoot(ls) = RootAt(emitted, k)
  BY <1>1 DEF RootAt
<1>7. proof'.size \in 1 .. Len(mirror.leaves)
  BY <1>1, <1>3
<1>8. ProofHolds(proof)'
  <2>1. mirror' = mirror /\ emitted' = emitted
    BY <1>2 DEF contractVars
  <2> QED
    BY <1>3, <1>4, <1>5, <1>6, <1>7, <2>1 DEF ProofHolds
<1>9. ContractInv' /\ MirrorInv'
  BY <1>2 DEF IInv, ContractInv, MirrorInv, contractVars, FrontierOf, IsHistory
<1> QED
  BY <1>8, <1>9 DEF IInv

\* What contract and mirror keep between the calls of insert, generateProof and the
\* reading of events: their frontiers serve the full tree, their histories are the
\* roots of its last prefixes, and the last proof folds to the root of its prefix.
THEOREM InductiveInvariant == Spec => []IInv
<1>1. ASSUME IInv, [Next]_vars PROVE IInv'
  <2>1. ASSUME NEW leaf \in Leaves, insert(leaf) PROVE IInv'
    BY <1>1, <2>1, InsertInv
  <2>2. CASE sync
    BY <1>1, <2>2, SyncInv
  <2>3. ASSUME NEW leafIndex \in 0 .. Len(mirror.leaves) - 1, generateProof(leafIndex) PROVE IInv'
    BY <1>1, <2>3, ProofInv
  <2>4. CASE UNCHANGED vars
    BY <1>1, <2>4 DEF vars, IInv, ContractInv, MirrorInv, ProofHolds, FrontierOf, IsHistory
  <2> QED
    BY <1>1, <2>1, <2>2, <2>3, <2>4 DEF Next
<1> QED
  BY <1>1, InitInv, PTL DEF Spec

-----------------------------------------------------------------------------
(* What the invariant says of the runs' properties                         *)

LEMMA AllOfThem ==
    ASSUME NEW ls \in Seq(Leaves) PROVE RootAt(ls, Len(ls)) = ReferenceRoot(ls)
<1>1. SubSeq(ls, 1, Len(ls)) = ls
  OBVIOUS
<1> QED
  BY <1>1 DEF RootAt

LEMMA AgreesIf == IInv => MirrorAgrees
<1> SUFFICES ASSUME IInv PROVE MirrorAgrees
  OBVIOUS
<1> DEFINE n == next_index
           k == Len(mirror.leaves)
<1>1. /\ emitted \in Seq(Leaves) /\ n = Len(emitted) /\ n \in Nat /\ n <= MAX_LEAVES
      /\ IsHistory(roots, emitted, 0, n)
  BY DEF IInv, ContractInv
<1>2. /\ mirror.leaves \in Seq(Leaves) /\ k \in Nat /\ k <= n
      /\ mirror.leaves = SubSeq(emitted, 1, k) /\ IsHistory(mirror.roots, emitted, -1, k)
  BY DEF IInv, MirrorInv
<1>3. \A j : RootOf(j) = RootAt(emitted, j)
  BY DEF RootOf, RootAt
<1>4. last_root = RootOf(n)
  <2>1. CASE n = 0
    <3>1. Forgotten(0, 0) = 0
      BY DepthAssumption DEF Forgotten
    <3>2. roots = <<>>
      <4>1. 0 - 0 = 0 /\ [i \in 1 .. 0 |-> RootAt(emitted, 0 + i)] = <<>>
        OBVIOUS
      <4> QED
        BY <1>1, <2>1, <3>1, <4>1 DEF IsHistory
    <3> QED
      BY <1>1, <1>3, <2>1, <3>2, RootAtZero DEF last_root
  <2>2. CASE n # 0
    <3>1. Forgotten(0, n) < n
      BY <1>1, <2>2, DepthAssumption DEF Forgotten
    <3>2. roots # <<>> /\ roots[Len(roots)] = RootAt(emitted, n)
      BY <1>1, <3>1, Recorded
    <3> QED
      BY <1>3, <3>2 DEF last_root
  <2> QED
    BY <2>1, <2>2
<1>5. root = RootOf(k)
  <2>1. Forgotten(-1, k) < k
    BY <1>2, DepthAssumption DEF Forgotten
  <2> QED
    BY <1>1, <1>2, <1>3, <2>1, Recorded DEF root
<1>6. ASSUME k > 0 PROVE Layers(mirror.leaves)[TREE_DEPTH] = <<root>>
  <2>1. PICK m \in Nat : k = m + 1
    <3>1. k - 1 \in Nat /\ k = (k - 1) + 1
      BY <1>2, <1>6
    <3> QED
      BY <3>1
  <2>2. k <= MAX_LEAVES
    BY <1>1, <1>2, Capacity
  <2>3. Layers(mirror.leaves)[TREE_DEPTH] = <<ReferenceRoot(mirror.leaves)>>
    BY <1>2, <2>1, <2>2, TopLayer
  <2>4. ReferenceRoot(mirror.leaves) = RootOf(k)
    BY <1>2 DEF RootOf
  <2> QED
    BY <1>5, <2>3, <2>4
<1>7. ASSUME k = n,
             NEW r \in (Range(roots) \cup Range(mirror.roots)) \ {empty_root}
      PROVE  isKnownRoot(r) <=> is_known_root(r)
  <2>1. /\ r \in Range(roots) <=> \E j \in Forgotten(0, n) + 1 .. n : r = RootAt(emitted, j)
        /\ r \in Range(mirror.roots)
             <=> \E j \in Forgotten(-1, n) + 1 .. n : r = RootAt(emitted, j)
    BY <1>1, <1>2, <1>7, Recorded
  <2>2. ASSUME NEW j \in Forgotten(-1, n) + 1 .. n, r = RootAt(emitted, j)
        PROVE  j \in Forgotten(0, n) + 1 .. n
    <3>1. j # 0
      BY <1>1, <1>7, <2>2, RootAtZero
    <3> QED
      BY <1>1, <3>1, DepthAssumption DEF Forgotten
  <2>3. ASSUME NEW j \in Forgotten(0, n) + 1 .. n PROVE j \in Forgotten(-1, n) + 1 .. n
    BY <1>1, DepthAssumption DEF Forgotten
  <2> QED
    BY <2>1, <2>2, <2>3 DEF isKnownRoot, is_known_root
<1> QED
  BY <1>4, <1>5, <1>6, <1>7 DEF MirrorAgrees

LEMMA AcceptedIf == IInv => ProofAccepted
<1> SUFFICES ASSUME IInv, proof # NoProof
             PROVE  LET folded == compute_merkle_root(proof.leaf, proof.pathElements,
                                                      proof.pathIndices)
                    IN /\ folded = proof.root
                       /\ is_known_root(folded) <=> next_index - proof.size < ROOT_HISTORY
  BY DEF ProofAccepted
<1> DEFINE n == next_index
           s == proof.size
<1>1. /\ emitted \in Seq(Leaves) /\ n = Len(emitted) /\ n \in Nat /\ n <= MAX_LEAVES
      /\ IsHistory(roots, emitted, 0, n)
  BY DEF IInv, ContractInv
<1>2. ProofHolds(proof)
  BY DEF IInv
<1>3. s \in 1 .. n
  BY <1>1, <1>2 DEF IInv, MirrorInv, ProofHolds
<1>4. proof.root \in Range(roots) <=> n - s < ROOT_HISTORY
  <2>1. proof.root = RootAt(emitted, s)
    BY <1>2 DEF ProofHolds
  <2>2. proof.root \in Range(roots)
          <=> \E j \in Forgotten(0, n) + 1 .. n : proof.root = RootAt(emitted, j)
    BY <1>1, Recorded
  <2>3. s > Forgotten(0, n) <=> n - s < ROOT_HISTORY
    BY <1>1, <1>3, DepthAssumption DEF Forgotten
  <2>4. Forgotten(0, n) \in Nat /\ Forgotten(0, n) <= n
    BY <1>1, DepthAssumption DEF Forgotten
  <2> HIDE DEF s, n
  <2>5. ASSUME s > Forgotten(0, n) PROVE proof.root \in Range(roots)
    <3>1. s \in Forgotten(0, n) + 1 .. n
      BY <1>3, <2>4, <2>5
    <3> QED
      BY <2>1, <2>2, <3>1
  <2>6. ASSUME proof.root \in Range(roots) PROVE s > Forgotten(0, n)
    <3>1. PICK j \in Forgotten(0, n) + 1 .. n : proof.root = RootAt(emitted, j)
      BY <2>2, <2>6
    <3>2. j \in 0 .. n /\ s \in 0 .. n /\ j > Forgotten(0, n)
      BY <1>1, <1>3, <2>4
    <3>3. j = s
      BY <1>1, <2>1, <3>1, <3>2, RootAtTells
    <3> QED
      BY <3>2, <3>3
  <2> QED
    BY <2>3, <2>5, <2>6
<1> QED
  BY <1>2, <1>4 DEF ProofHolds, is_known_root

LEMMA SealedIf == IInv => SealedWitness
<1> SUFFICES ASSUME IInv, NEW ls \in [1 .. 2 -> Leaves], next_index + 2 <= MAX_LEAVES,
                    NEW j \in 1 .. 2
             PROVE  LET witness == witnessesAfterInserts(readPoolTreeState, ls)
                    IN compute_merkle_root(ls[j], witness[j].pathElements,
                                           witness[j].pathIndices)
                         = ReferenceRoot(emitted \o ls)
  BY DEF SealedWitness
<1>1. emitted \in Seq(Leaves) /\ next_index = Len(emitted) /\ FrontierOf(emitted, frontier)
  BY DEF IInv, ContractInv
<1>2. ls \in Seq(Leaves) /\ Len(ls) = 2 /\ 1 \in Nat /\ Len(ls) = 1 + 1
  <2>1. 2 \in Nat
    OBVIOUS
  <2>2. ls \in Seq(Leaves)
    BY <2>1, SeqDef, Zenon
  <2> QED
    BY <2>2
<1>3. /\ readPoolTreeState.nextIndex = Len(emitted)
      /\ readPoolTreeState.frontier = frontier
  BY <1>1 DEF readPoolTreeState
<1>4. Sends(readPoolTreeState, emitted, ls, 1)
  BY <1>1, <1>2, <1>3 DEF Sends
<1>5. Len(emitted) + Len(ls) <= MAX_LEAVES /\ j \in 1 .. Len(ls)
  BY <1>1, <1>2
<1> QED
  BY <1>4, <1>5, SealedFolds

\* A root stands for one prefix.
LEMMA PrefixOf ==
    ASSUME IInv, NEW k \in 0 .. next_index
    PROVE  Prefix(RootAt(emitted, k)) = k
<1> DEFINE P(j) == RootOf(j) = RootAt(emitted, k)
<1>1. /\ emitted \in Seq(Leaves) /\ next_index = Len(emitted) /\ Len(emitted) <= MAX_LEAVES
  BY DEF IInv, ContractInv
<1>2. \A j \in 0 .. next_index : P(j) <=> j = k
  BY <1>1, RootAtTells DEF RootOf, RootAt
<1>3. Prefix(RootAt(emitted, k)) = CHOOSE j \in 0 .. next_index : P(j)
  BY DEF Prefix
<1> HIDE DEF P
<1> QED
  BY <1>2, <1>3

LEMMA MemberIf == IInv => MembershipIsPrefix
<1> SUFFICES ASSUME IInv, NEW leaf \in Leaves, NEW r \in Range(roots)
             PROVE  (\E bits \in [Levels -> {0, 1}] :
                        compute_merkle_root(leaf, PathTo(r, bits), bits) = r)
                      <=> Tree!Member(leaf, Prefix(r))
  BY DEF MembershipIsPrefix
<1>1. /\ emitted \in Seq(Leaves) /\ next_index = Len(emitted) /\ Len(emitted) \in Nat
      /\ Len(emitted) <= MAX_LEAVES /\ IsHistory(roots, emitted, 0, next_index)
  BY DEF IInv, ContractInv
<1>2. PICK k \in 1 .. next_index : r = RootAt(emitted, k)
  <2>1. PICK k \in Forgotten(0, next_index) + 1 .. next_index : r = RootAt(emitted, k)
    BY <1>1, Recorded
  <2>2. Forgotten(0, next_index) \in Nat
    BY <1>1, DepthAssumption DEF Forgotten
  <2> QED
    BY <1>1, <2>1, <2>2
<1> DEFINE ls == SubSeq(emitted, 1, k)
<1>3. /\ ls \in Seq(Leaves) /\ Len(ls) = k /\ \A i \in 1 .. k : ls[i] = emitted[i]
  <2>1. k \in 0 .. Len(emitted)
    BY <1>1
  <2> QED
    BY <1>1, <2>1, Prefixes
<1>4. r = ReferenceRoot(ls)
  BY <1>2 DEF RootAt
<1>5. Prefix(r) = k
  <2>1. k \in 0 .. next_index
    BY <1>1
  <2> QED
    BY <1>2, <2>1, PrefixOf
<1>6. Tree!Member(leaf, Prefix(r)) <=> \E i \in 1 .. k : emitted[i] = leaf
  BY <1>5 DEF Tree!Member
<1> HIDE DEF ls
<1>7. ASSUME NEW bits \in [Levels -> {0, 1}],
             compute_merkle_root(leaf, PathTo(r, bits), bits) = r
      PROVE  \E i \in 1 .. k : emitted[i] = leaf
  <2>1. \E i \in 1 .. Len(ls) : ls[i] = leaf
    BY <1>3, <1>4, <1>7, PathMember
  <2> QED
    BY <1>3, <2>1
<1>8. ASSUME NEW i \in 1 .. k, emitted[i] = leaf
      PROVE  \E bits \in [Levels -> {0, 1}] :
               compute_merkle_root(leaf, PathTo(r, bits), bits) = r
  <2>1. PICK idx \in Nat : i = idx + 1
    <3>1. i - 1 \in Nat /\ i = (i - 1) + 1
      OBVIOUS
    <3> QED
      BY <3>1
  <2>2. idx < Len(ls) /\ Len(ls) <= MAX_LEAVES
    BY <1>1, <1>3, <2>1, Capacity
  <2>3. ls[idx + 1] = leaf
    BY <1>3, <1>8, <2>1
  <2>4. compute_merkle_root(leaf, PathTo(r, Bits(idx)), Bits(idx)) = r
    BY <1>3, <1>4, <2>2, <2>3, MemberPath
  <2>5. Bits(idx) \in [Levels -> {0, 1}]
    <3>1. \A x \in Nat : x % 2 \in {0, 1}
      OBVIOUS
    <3>2. \A l \in Levels : Above(idx)[l] \in Nat
      <4>1. \A l \in Levels : l \in 0 .. TREE_DEPTH
        BY DepthAssumption DEF Levels
      <4> QED
        BY <4>1, AboveNat
    <3> QED
      BY <3>1, <3>2 DEF Bits
  <2> QED
    BY <2>4, <2>5
<1> QED
  BY <1>6, <1>7, <1>8

Mapped == [i \in DOMAIN roots |-> Prefix(roots[i])]
MapInv ==
    /\ emitted \in Seq(Leaves) /\ next_index = Len(emitted)
    /\ Mapped = Sizes(0, next_index)

LEMMA MapIf == IInv => MapInv
<1> SUFFICES ASSUME IInv PROVE MapInv
  OBVIOUS
<1> DEFINE n == next_index
           f == Forgotten(0, n)
<1>1. /\ emitted \in Seq(Leaves) /\ n = Len(emitted) /\ n \in Nat
      /\ IsHistory(roots, emitted, 0, n)
  BY DEF IInv, ContractInv
<1>2. f \in Nat /\ f <= n
  BY <1>1, DepthAssumption DEF Forgotten
<1>3. roots = [i \in 1 .. n - f |-> RootAt(emitted, f + i)]
  BY <1>1 DEF IsHistory
<1> HIDE DEF f
<1>4. ASSUME NEW i \in 1 .. n - f PROVE Prefix(roots[i]) = f + i
  <2>1. f + i \in 0 .. next_index
    BY <1>1, <1>2
  <2>2. roots[i] = RootAt(emitted, f + i)
    BY <1>3
  <2> QED
    BY <2>1, <2>2, PrefixOf
<1>5. DOMAIN roots = 1 .. n - f
  BY <1>3
<1>6. Mapped = [i \in 1 .. n - f |-> f + i]
  BY <1>4, <1>5 DEF Mapped
<1> QED
  BY <1>1, <1>6 DEF MapInv, Sizes, f

\* Every step is an insertion in the tree of leaves, or leaves it alone.
LEMMA StepImplements ==
    ASSUME MapInv, MapInv', [Next]_vars
    PROVE  [\E leaf \in Leaves : Tree!insert(<<leaf>>)]_(Tree!treeVars)
<1> DEFINE n == next_index
<1>1. /\ emitted \in Seq(Leaves) /\ n = Len(emitted) /\ n \in Nat /\ Mapped = Sizes(0, n)
      /\ Mapped' = Sizes(0, n')
  BY DEF MapInv
<1>2. ASSUME NEW leaf \in Leaves, insert(leaf) PROVE Tree!insert(<<leaf>>)
  <2>1. n < MAX_LEAVES /\ n' = n + 1 /\ emitted' = Append(emitted, leaf)
    BY <1>2 DEF insert
  <2>2. Len(<<leaf>>) = 1 /\ n + 1 <= MAX_LEAVES /\ Append(emitted, leaf) = emitted \o <<leaf>>
    BY <1>1, <2>1, Capacity, AppendIsConcat
  <2>3. Sizes(0, n) \in Seq(Int)
    <3>1. Forgotten(0, n) \in Int /\ n - Forgotten(0, n) \in Nat
      BY <1>1, ForgottenNat
    <3>2. Sizes(0, n) \in [1 .. n - Forgotten(0, n) -> Int]
      BY <3>1 DEF Sizes
    <3> QED
      BY <3>1, <3>2, SeqDef, Zenon
  <2>4. [i \in 1 .. 1 |-> n + i] = <<n + 1>>
    BY <1>1
  <2>5. Mapped \o [i \in 1 .. Len(<<leaf>>) |-> Len(emitted) + i] = Append(Sizes(0, n), n + 1)
    <3>1. Append(Sizes(0, n), n + 1) = Sizes(0, n) \o <<n + 1>>
      BY <1>1, <2>3, AppendIsConcat
    <3> QED
      BY <1>1, <2>2, <2>4, <3>1
  <2>6. Mapped' = KeepLast(Append(Sizes(0, n), n + 1))
    BY <1>1, <2>1, SizesPushed
  <2>7. \A s : KeepLast(s) = Tree!KeepLast(s)
    BY DEF KeepLast, Tree!KeepLast
  <2>8. Mapped' = Tree!KeepLast(Mapped \o [i \in 1 .. Len(<<leaf>>) |-> Len(emitted) + i])
    BY <2>5, <2>6, <2>7
  <2>9. Len(emitted) + Len(<<leaf>>) <= MAX_LEAVES /\ emitted' = emitted \o <<leaf>>
    BY <1>1, <2>1, <2>2
  <2> QED
    BY <2>8, <2>9, Zenon DEF Tree!insert, Mapped
<1>3. ASSUME UNCHANGED contractVars PROVE UNCHANGED Tree!treeVars
  <2>1. emitted' = emitted /\ n' = n
    BY <1>3 DEF contractVars
  <2>2. Mapped' = Mapped
    BY <1>1, <2>1
  <2> QED
    BY <2>1, <2>2, Zenon DEF Tree!treeVars, Mapped
<1>4. CASE sync
  BY <1>3, <1>4 DEF sync
<1>5. ASSUME NEW leafIndex \in 0 .. Len(mirror.leaves) - 1, generateProof(leafIndex)
      PROVE  UNCHANGED contractVars
  BY <1>5 DEF generateProof
<1>6. CASE UNCHANGED vars
  BY <1>3, <1>6 DEF vars, contractVars
<1> QED
  BY <1>2, <1>3, <1>4, <1>5, <1>6 DEF Next

-----------------------------------------------------------------------------
(* The theorems                                                            *)

\* merkle.rs keeps one node per level, some of them stale, and merkle.ts rebuilds
\* the same frontier from the leaf events: at every size the root of each is the
\* root of the full tree over its leaves, the layers the wallet makes proofs from
\* have that root on top, and a wallet that has read every event knows exactly the
\* roots the contract accepts.
THEOREM MirrorsAgree == Spec => []MirrorAgrees
  BY InductiveInvariant, AgreesIf, PTL

\* The path generateProof of merkle.ts makes at any time, from a mirror that is
\* behind by any number of leaves, folds in the circuit to a root that is_known_root
\* of merkle.rs accepts until ROOT_HISTORY more leaves are in, and no longer.
THEOREM ProofsAccepted == Spec => []ProofAccepted
  BY InductiveInvariant, AcceptedIf, PTL

\* The paths witnessesAfterInserts of the SDK seals into a memo, computed from the
\* frontier alone, lead from both outputs of a transfer to the root the pool has
\* when they are the next two leaves.
THEOREM WitnessesSealed == Spec => []SealedWitness
  BY InductiveInvariant, SealedIf, PTL

\* compute_merkle_root of the circuits accepts a leaf under a known root exactly
\* when the leaf is among the first leaves that this root commits to: no path
\* exists from a leaf that was never inserted, nor from an empty place.
THEOREM MembershipIsOfPrefix == Spec => []MembershipIsPrefix
  BY InductiveInvariant, MemberIf, PTL

\* Each insert of merkle.rs is one insert of the tree of leaves on which the
\* pool's own theorems rest; reading and proving leave that tree alone.
THEOREM TreeImplements == Spec => ImplementsNoteTree
<1>1. Init => Tree!EmptyTree
  <2> SUFFICES ASSUME Init PROVE Tree!EmptyTree
    OBVIOUS
  <2>1. emitted = <<>> /\ roots = <<>>
    BY DEF Init
  <2>2. [i \in DOMAIN roots |-> Prefix(roots[i])] = <<>>
    BY <2>1
  <2> QED
    BY <2>1, <2>2, Zenon DEF Tree!EmptyTree
<1>2. MapInv /\ MapInv' /\ [Next]_vars
        => [\E leaf \in Leaves : Tree!insert(<<leaf>>)]_(Tree!treeVars)
  BY StepImplements
<1> QED
  BY <1>1, <1>2, InductiveInvariant, MapIf, PTL DEF Spec, ImplementsNoteTree
=============================================================================
