----------------------------- MODULE MerkleTree -----------------------------
(***************************************************************************)
(* The stand-alone tree of note commitments (contracts/merkle_tree) that   *)
(* the CLMM contract inserts into.  To its callers the root is the number  *)
(* of leaves it commits to, 0 before there is one: compute_root_from_leaves*)
(* commits to all of them, which MCClmm checks against a tree built from   *)
(* the root down.                                                          *)
(***************************************************************************)
EXTENDS Integers, Sequences

CONSTANTS
    CAPACITY,       \* 2^TREE_HEIGHT leaves
    Callers,        \* accounts and contracts that may call the tree
    Unset           \* a storage key that has not been written

ASSUME CapacityAssumption == CAPACITY \in Nat /\ Unset \notin Callers

VARIABLES
    leaves,         \* DataKey::Leaf(0), Leaf(1), ... in order
    inserter        \* DataKey::AuthorizedInserter

treeVars == <<leaves, inserter>>

TreeInit == leaves = <<>> /\ inserter = Unset

\* insert, authorized_insert and batch_insert end the same way.
append(new) == /\ Len(leaves) + Len(new) <= CAPACITY
                /\ leaves' = leaves \o new
                /\ UNCHANGED inserter

\* `admin` signs for itself; it is not compared with the stored admin.
insert(leaf) == append(<<leaf>>)
batch_insert(new) == append(new)

set_authorized_inserter(caller) == /\ inserter' = caller
                                   /\ UNCHANGED leaves

\* One call of CLMM may insert several leaves; if one fails all are undone.
authorized_insert(caller, new) == inserter = caller /\ append(new)

Root == Len(leaves)
Member(leaf, root) == \E i \in 1 .. root : leaves[i] = leaf

-----------------------------------------------------------------------------
(* The root over hashes.  A hash is the pair it was made from.             *)

compute_hash(left, right) == <<left, right>>

get_zero_hash[level \in Nat] ==
    IF level = 0 THEN <<"zero">>
    ELSE compute_hash(get_zero_hash[level - 1], get_zero_hash[level - 1])

\* One round of the loop: pairs, the odd one out with this level's zero.
NextLevel(nodes, level) ==
    [j \in 1 .. (Len(nodes) + 1) \div 2 |->
        compute_hash(nodes[2 * j - 1],
                     IF 2 * j <= Len(nodes) THEN nodes[2 * j]
                                            ELSE get_zero_hash[level])]

compute_root_from_leaves(nodes, height) ==
    LET Level[level \in 0 .. height] ==
            IF level = 0 THEN nodes
            ELSE NextLevel(Level[level - 1], level - 1)
    IN  IF nodes = <<>> THEN get_zero_hash[height] ELSE Level[height][1]

\* proof_path: the sibling at each level and whether the node is the left.
verify_proof(leaf, root, path) ==
    LET Node[i \in 0 .. Len(path)] ==
            IF i = 0 THEN leaf
            ELSE IF path[i].is_left
                 THEN compute_hash(Node[i - 1], path[i].sibling)
                 ELSE compute_hash(path[i].sibling, Node[i - 1])
    IN  Node[Len(path)] = root
=============================================================================
