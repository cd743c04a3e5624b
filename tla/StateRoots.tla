----------------------------- MODULE StateRoots -----------------------------
(***************************************************************************)
(* What the two Ethereum clients on Stellar keep for the bridge: the       *)
(* execution state root of every block that was proved, and the head.  A   *)
(* root is the state it commits to (the hash is collision free).           *)
(***************************************************************************)
EXTENDS Integers

CONSTANTS
    MaxBlock,       \* bound: Ethereum slots; every slot has a block
    NoRoot          \* no root is stored

ASSUME BlocksAssumption == MaxBlock \in Nat

VARIABLES
    root,           \* DataKey::Root
    headBlock,      \* DataKey::HeadBlock, 0 when unset
    headRoot        \* DataKey::HeadRoot

Blocks == 1 .. MaxBlock
rootVars == <<root, headBlock, headRoot>>

RootsInit ==
    /\ root = [b \in Blocks |-> NoRoot]
    /\ headBlock = 0
    /\ headRoot = NoRoot

\* Roots may come in any order: an older block is recorded and the head stays.
record_root(b, state) ==
    /\ root' = [root EXCEPT ![b] = state]
    /\ headBlock' = IF b >= headBlock THEN b ELSE headBlock
    /\ headRoot' = IF b >= headBlock THEN state ELSE headRoot
=============================================================================
