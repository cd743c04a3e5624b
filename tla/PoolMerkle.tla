----------------------------- MODULE PoolMerkle -----------------------------
(***************************************************************************)
(* The tree of hashes behind NoteTree: the frontier the pool contract      *)
(* keeps (contracts/wraith-pool/src/merkle.rs), the mirror a wallet builds *)
(* from the emitted leaves (sdk/src/merkle.ts), the proof the wallet makes *)
(* from its mirror, and the fold with which a circuit checks that proof.   *)
(*                                                                         *)
(* Poseidon2 is a free constructor: equal hashes have equal preimages.     *)
(***************************************************************************)
EXTENDS RootHistory, Functions

CONSTANTS
    TREE_DEPTH,      \* 20 in the contract
    Leaves,          \* commitments
    Zero             \* the 32 zero bytes, no note's commitment

ASSUME DepthAssumption == TREE_DEPTH \in Nat \ {0} /\ ROOT_HISTORY \in Nat \ {0}
ASSUME ZeroAssumption == Zero \notin Leaves

\* 1 << l.
Pow2[l \in 0 .. TREE_DEPTH] == IF l = 0 THEN 1 ELSE 2 * Pow2[l - 1]
MAX_LEAVES == Pow2[TREE_DEPTH]
Levels == 0 .. TREE_DEPTH - 1

hash2(l, r) == <<l, r>>

\* zeros[0] = 0, zeros[i+1] = H(zeros[i], zeros[i]).
zeros[i \in 0 .. TREE_DEPTH] ==
    IF i = 0 THEN Zero ELSE hash2(zeros[i - 1], zeros[i - 1])
empty_root == zeros[TREE_DEPTH]

VARIABLES
    emitted,      \* the leaves the contract has inserted, as its events tell
    next_index,   \* DataKey::NextIndex
    frontier,     \* DataKey::Frontier(i), the zero of its level while unset
    roots,        \* DataKey::Roots
    mirror,       \* the wallet's MerkleTree: leaves, filledSubtrees, roots
    proof         \* the last proof the wallet made, and from how many leaves

contractVars == <<emitted, next_index, frontier, roots>>
vars == <<emitted, next_index, frontier, roots, mirror, proof>>

-----------------------------------------------------------------------------
(* Inserting a leaf: the contract and the sdk run the same loop            *)

\* idx >> l: the node of each level l above a leaf.
Above(idx) ==
    LET at[l \in 0 .. TREE_DEPTH] == IF l = 0 THEN idx ELSE at[l - 1] \div 2
    IN at
IsRight(idx, l) == Above(idx)[l] % 2 = 1
Bits(idx) == [l \in Levels |-> Above(idx)[l] % 2]

\* From a leaf to the root: at a bit 0 the node is the left child.
Path(leaf, siblings, bits) ==
    LET cur[l \in 0 .. TREE_DEPTH] ==
          IF l = 0 THEN leaf
          ELSE IF bits[l - 1] = 0 THEN hash2(cur[l - 1], siblings[l - 1])
          ELSE hash2(siblings[l - 1], cur[l - 1])
    IN cur

\* The node above the new leaf at each level.
Climb(leaf, idx, left) ==
    Path(leaf, [l \in Levels |-> IF IsRight(idx, l) THEN left[l] ELSE zeros[l]],
         Bits(idx))

\* A node that is a left child waits for its right sibling.
Waiting_Always(leaf, idx, left) ==
    [i \in Levels |-> Climb(leaf, idx, left)[i]]
Waiting(leaf, idx, left) ==
    [i \in Levels |-> IF IsRight(idx, i) THEN left[i]
                      ELSE Climb(leaf, idx, left)[i]]

insert_NoEviction(leaf) ==
    /\ next_index < MAX_LEAVES
    /\ frontier' = Waiting(leaf, next_index, frontier)
    /\ roots' = Append(roots, Climb(leaf, next_index, frontier)[TREE_DEPTH])
    /\ next_index' = next_index + 1
    /\ emitted' = Append(emitted, leaf)
    /\ UNCHANGED <<mirror, proof>>

\* A full tree panics with TreeFull.
insert(leaf) ==
    /\ next_index < MAX_LEAVES
    /\ frontier' = Waiting(leaf, next_index, frontier)
    /\ roots' = KeepLast(Append(roots, Climb(leaf, next_index, frontier)[TREE_DEPTH]))
    /\ next_index' = next_index + 1
    /\ emitted' = Append(emitted, leaf)
    /\ UNCHANGED <<mirror, proof>>

is_known_root(root) == root \in Range(roots)
last_root == IF roots = <<>> THEN empty_root ELSE roots[Len(roots)]

-----------------------------------------------------------------------------
(* The wallet's mirror                                                     *)

\* The constructor records the empty root, unlike the contract.
MerkleTree == [leaves |-> <<>>,
               filledSubtrees |-> [i \in Levels |-> zeros[i]],
               roots |-> <<empty_root>>]

mirror_insert(leaf) ==
    LET idx == Len(mirror.leaves)
    IN /\ idx < MAX_LEAVES
       /\ mirror' =
            [leaves |-> Append(mirror.leaves, leaf),
             filledSubtrees |-> Waiting(leaf, idx, mirror.filledSubtrees),
             roots |-> KeepLast(Append(mirror.roots,
                          Climb(leaf, idx, mirror.filledSubtrees)[TREE_DEPTH]))]

root == mirror.roots[Len(mirror.roots)]
isKnownRoot(r) == r \in Range(mirror.roots)

\* The wallet reads the next leaf event; it may lag behind by any number.
sync == /\ Len(mirror.leaves) < Len(emitted)
        /\ mirror_insert(emitted[Len(mirror.leaves) + 1])
        /\ UNCHANGED <<contractVars, proof>>

\* The layers of the tree over the stored leaves, no wider than needed.
NextLayer(below, l) ==
    [i \in 1 .. (Len(below) + 1) \div 2 |->
        hash2(below[2 * i - 1],
              IF 2 * i <= Len(below) THEN below[2 * i] ELSE zeros[l])]
Layers(ls) ==
    LET layer[l \in 0 .. TREE_DEPTH] ==
          IF l = 0 THEN ls ELSE NextLayer(layer[l - 1], l - 1)
    IN layer

\* Position p (from 0) of a layer, or the zero of that level past its end.
Sibling_Clamped(layer, p, l) == IF p < Len(layer) THEN layer[p + 1]
                                ELSE layer[Len(layer)]
Sibling(layer, p, l) == IF p < Len(layer) THEN layer[p + 1] ELSE zeros[l]

generateProof(leafIndex) ==
    LET layer == Layers(mirror.leaves)
        at == Above(leafIndex)
        siblingIndex(l) == IF IsRight(leafIndex, l) THEN at[l] - 1 ELSE at[l] + 1
    IN /\ leafIndex < Len(mirror.leaves)
       /\ proof' = [leaf |-> mirror.leaves[leafIndex + 1],
                    leafIndex |-> leafIndex,
                    pathElements |-> [l \in Levels |->
                                        Sibling(layer[l], siblingIndex(l), l)],
                    pathIndices |-> Bits(leafIndex), root |-> root,
                    size |-> Len(mirror.leaves)]
       /\ UNCHANGED <<contractVars, mirror>>

\* The fold of the circuits (and of rootFromProof).
compute_merkle_root_Flipped(leaf, siblings, bits) ==
    Path(leaf, siblings, [l \in Levels |-> 1 - bits[l]])[TREE_DEPTH]
compute_merkle_root(leaf, siblings, bits) ==
    Path(leaf, siblings, bits)[TREE_DEPTH]

-----------------------------------------------------------------------------
(* The witness of an output that is not in the tree yet                    *)

\* What a sender reads from the pool's storage.
readPoolTreeState == [frontier |-> frontier, nextIndex |-> next_index]

\* Node n of a level over the new leaves: one of theirs, or one that is
\* complete and old, of which the frontier has the last, or an empty one.
NodeAt_FrontierOnly(layer, n, l, state) ==
    IF n \in DOMAIN layer THEN layer[n] ELSE state.frontier[l]
NodeAt(layer, n, l, state) ==
    CASE n \in DOMAIN layer -> layer[n]
      [] (n + 1) * Pow2[l] <= state.nextIndex -> state.frontier[l]
      [] OTHER -> zeros[l]

\* The nodes of level l above m new leaves.  (A right child there is new or
\* empty: were it old and complete, its parent would not be above new leaves.)
NewNodes(below, l, m, state) ==
    [n \in Above(state.nextIndex)[l] .. Above(state.nextIndex + m - 1)[l] |->
        hash2(NodeAt(below, 2 * n, l - 1, state),
              NodeAt(below, 2 * n + 1, l - 1, state))]
NewLeaves(ls, base) == [n \in base .. base + Len(ls) - 1 |-> ls[n - base + 1]]
NewLayers(state, ls) ==
    LET layer[l \in 0 .. TREE_DEPTH] ==
          IF l = 0 THEN NewLeaves(ls, state.nextIndex)
          ELSE NewNodes(layer[l - 1], l, Len(ls), state)
    IN layer

\* The paths of the leaves ls as they will be when they are the next ones.
witnessesAfterInserts(state, ls) ==
    LET layer == NewLayers(state, ls)
        idx(j) == state.nextIndex + j - 1
        at(j, l) == Above(idx(j))[l]
        sibling(n) == IF n % 2 = 0 THEN n + 1 ELSE n - 1
    IN [j \in 1 .. Len(ls) |->
          [pathElements |-> [l \in Levels |->
                               NodeAt(layer[l], sibling(at(j, l)), l, state)],
           pathIndices |-> Bits(idx(j))]]

-----------------------------------------------------------------------------
NoProof == <<>>

Init == /\ emitted = <<>> /\ next_index = 0
        /\ frontier = [i \in Levels |-> zeros[i]]
        /\ roots = <<>>
        /\ mirror = MerkleTree
        /\ proof = NoProof

Next == \/ \E leaf \in Leaves : insert(leaf)
        \/ sync
        \/ \E leafIndex \in 0 .. Len(mirror.leaves) - 1 : generateProof(leafIndex)

Spec == Init /\ [][Next]_vars

-----------------------------------------------------------------------------
\* The reference: every node of every level of the tree in which the leaves that
\* are missing are zero.
Padded(ls) == [i \in Nat |-> IF i < Len(ls) THEN ls[i + 1] ELSE Zero]
Parents(nodes) == [i \in Nat |-> hash2(nodes[2 * i], nodes[2 * i + 1])]
ReferenceTree(ls) ==
    LET node[l \in 0 .. TREE_DEPTH] ==
          IF l = 0 THEN Padded(ls) ELSE Parents(node[l - 1])
    IN node
ReferenceRoot(ls) == ReferenceTree(ls)[TREE_DEPTH][0]

RootOf(k) == ReferenceRoot(SubSeq(emitted, 1, k))

\* The contract's frontier gives the root of the full tree at every size, though
\* it holds one node per level and some of those are stale.  A wallet that has
\* read k leaf events holds the contract's k-th root, by its own frontier and by
\* the layers it makes proofs from; one that has read them all knows the same
\* roots, but for that of the empty tree, which the contract never records.
MirrorAgrees == /\ last_root = RootOf(next_index)
                /\ root = RootOf(Len(mirror.leaves))
                /\ Len(mirror.leaves) > 0 =>
                     Layers(mirror.leaves)[TREE_DEPTH] = <<root>>
                /\ Len(mirror.leaves) = next_index =>
                     \A r \in (Range(roots) \cup Range(mirror.roots)) \ {empty_root} :
                        isKnownRoot(r) <=> is_known_root(r)

\* What a sender seals into the memo of a transfer leads from each of its two
\* outputs to the root that the pool has when they are inserted next, though
\* the sender saw one node per level only.
SealedWitness ==
    \A ls \in [1 .. 2 -> Leaves] : next_index + 2 <= MAX_LEAVES =>
      LET witness == witnessesAfterInserts(readPoolTreeState, ls)
      IN \A j \in 1 .. 2 :
           compute_merkle_root(ls[j], witness[j].pathElements, witness[j].pathIndices)
             = ReferenceRoot(emitted \o ls)

\* A proof made from a mirror of k leaves folds, in the circuit, to a root
\* that the contract accepts until ROOT_HISTORY more leaves are in, however
\* far the wallet was behind and whatever was inserted in between.
ProofAccepted ==
    proof # NoProof =>
      LET folded == compute_merkle_root(proof.leaf, proof.pathElements,
                                        proof.pathIndices)
      IN /\ folded = proof.root
         /\ is_known_root(folded) <=> next_index - proof.size < ROOT_HISTORY

\* The tree of hashes is the tree of leaves that the pool's model uses: a
\* root stands for the prefix it commits to.
Prefix(r) == CHOOSE k \in 0 .. next_index : RootOf(k) = r
Tree == INSTANCE NoteTree WITH leaves <- emitted,
                               roots <- [i \in DOMAIN roots |-> Prefix(roots[i])]
ImplementsNoteTree ==
    /\ Tree!EmptyTree
    /\ [][\E leaf \in Leaves : Tree!insert(<<leaf>>)]_(Tree!treeVars)

\* A path exists from a leaf to a root exactly when the leaf is among the
\* prefix that the root stands for: the membership test the circuits make.
Subtree(r, bits) ==
    LET down[l \in 0 .. TREE_DEPTH] ==
          IF l = 0 THEN r ELSE down[l - 1][bits[TREE_DEPTH - l] + 1]
    IN down
PathTo(r, bits) ==
    [i \in Levels |-> Subtree(r, bits)[TREE_DEPTH - i - 1][2 - bits[i]]]
MembershipIsPrefix ==
    \A leaf \in Leaves, r \in Range(roots) :
      (\E bits \in [Levels -> {0, 1}] :
          compute_merkle_root(leaf, PathTo(r, bits), bits) = r)
        <=> Tree!Member(leaf, Prefix(r))
=============================================================================
