---------------------------- MODULE ClmmSdkTree ----------------------------
(***************************************************************************)
(* The client's side of the CLMM's tree of commitments                     *)
(* (sdk/typescript/src/crypto/merkle.ts): the witnesses it makes for the   *)
(* leaves it knows and the root it computes, over the same hashes as the   *)
(* contract's (MerkleTree).                                                *)
(***************************************************************************)
EXTENDS MerkleTree

SiblingIndex(node) == IF node % 2 = 0 THEN node + 1 ELSE node - 1

\* At every level the sibling is looked up among the leaves.
generateMerkleProof(nodes, index, depth) ==
    [i \in 1 .. depth |->
        LET node == index \div 2 ^ (i - 1)
            sibling == SiblingIndex(node)
        IN  [is_left |-> node % 2 = 0,
             sibling |-> IF sibling < Len(nodes) THEN nodes[sibling + 1]
                                                 ELSE get_zero_hash[i - 1]]]

computeRoot(leaf, path) ==
    LET Node[i \in 0 .. Len(path)] ==
            IF i = 0 THEN leaf
            ELSE IF path[i].is_left
                 THEN compute_hash(Node[i - 1], path[i].sibling)
                 ELSE compute_hash(path[i].sibling, Node[i - 1])
    IN  Node[Len(path)]

verifyMerkleProof(leaf, root, path) == computeRoot(leaf, path) = root

\* Padded to two leaves, then up until one node is left: as many levels as the
\* leaves need, and not as many as the contract's tree has.
buildMerkleTree(nodes) ==
    LET padded == [i \in 1 .. IF Len(nodes) < 2 THEN 2 ELSE Len(nodes) |->
                      IF i \in DOMAIN nodes THEN nodes[i] ELSE get_zero_hash[0]]
        Level[level \in Nat] ==
            IF level = 0 THEN padded ELSE NextLevel(Level[level - 1], level - 1)
        top == CHOOSE h \in 1 .. Len(padded) :
                  /\ Len(Level[h]) = 1
                  /\ \A lower \in 1 .. h - 1 : Len(Level[lower]) > 1
    IN  Level[top][1]
=============================================================================
