------------------------------ MODULE NoteTree ------------------------------
(***************************************************************************)
(* The note tree of the pool as its entry points use it: an append-only    *)
(* list of leaves and a window of acceptable roots, where a root is the    *)
(* number of leaves it commits to.  PoolMerkle is the tree of hashes that  *)
(* contracts/wraith-pool/src/merkle.rs keeps, and implements this one.     *)
(***************************************************************************)
EXTENDS RootHistory, Functions

CONSTANT MAX_LEAVES      \* the capacity of the tree (2^20 in the contract)

ASSUME TreeAssumption ==
    MAX_LEAVES \in Nat \ {0} /\ ROOT_HISTORY \in Nat \ {0}

VARIABLES
    leaves,     \* the leaves, oldest first
    roots       \* the root history: how many leaves each root commits to

treeVars == <<leaves, roots>>

EmptyTree == leaves = <<>> /\ roots = <<>>

\* A call inserts its output notes one by one; each insertion has its root.
\* A full tree panics, which rolls the whole call back.
insert_Unbounded(new) ==
    /\ leaves' = leaves \o new
    /\ roots' = KeepLast(roots \o [i \in 1 .. Len(new) |-> Len(leaves) + i])
insert(new) ==
    /\ Len(leaves) + Len(new) <= MAX_LEAVES
    /\ leaves' = leaves \o new
    /\ roots' = KeepLast(roots \o [i \in 1 .. Len(new) |-> Len(leaves) + i])

is_known_root(k) == k \in Range(roots)

\* compute_merkle_root of the leaf and its path is the root with k leaves.
Member(leaf, k) == \E i \in 1 .. k : leaves[i] = leaf

\* A root stays acceptable until exactly ROOT_HISTORY further leaves are in
\* (a match inserts up to four): a proof built on it is not stale before.
RootWindow == \A k \in 1 .. Len(leaves) :
                 is_known_root(k) <=> Len(leaves) - k < ROOT_HISTORY
=============================================================================
