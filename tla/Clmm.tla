-------------------------------- MODULE Clmm --------------------------------
(***************************************************************************)
(* The concentrated-liquidity contract (contracts/clmm) with the circuit   *)
(* each private entry point verifies (circuits/noir/clmm_mint, ..) and the *)
(* tree of note commitments it inserts into.                               *)
(*                                                                         *)
(* A private operation is proved off chain, which takes long, against one  *)
(* root of the tree and one state of a pool, and is submitted later, maybe *)
(* to another pool, or again after it succeeded; public operations change  *)
(* the pool at once.  So a caller may have a proof of anything a circuit   *)
(* accepts, for any root that the tree had and any state of any pool.      *)
(* The pool-state commitment is the pool's record: price and fee growth    *)
(* are hashed into it too, but no entry point changes them.  The circuits  *)
(* take the spending key of a nullifier as a witness of its own, so the    *)
(* same note has one nullifier for every key it is spent with.             *)
(***************************************************************************)
EXTENDS MerkleTree, Tally

CONSTANTS
    Assets, Owners,
    SpendingKeys,       \* what nullifiers are derived with
    CLMM,               \* this contract, as a caller of the tree
    MAX_U128,           \* the largest liquidity
    MIN_TICK, MAX_TICK, MAX_TICK_SPACING,
    Ticks, Spacings,    \* what callers pass
    Liquidity, Payments,
    MaxPools, MaxOperations, MaxTokens   \* bounds

ASSUME ClmmAssumption ==
    /\ CLMM \in Callers
    /\ MAX_U128 \in Nat /\ MaxPools \in Nat /\ MaxTokens \in Nat
    /\ Liquidity \subseteq 0 .. MAX_U128 /\ Payments \subseteq Nat
    /\ Ticks \subseteq Int /\ Spacings \subseteq Nat
    /\ IsFiniteSet(Owners) /\ IsFiniteSet(Ticks)

VARIABLES
    pools,          \* DataKey::Pool, by pool id
    positions,      \* DataKey::Position: liquidity, 0 where there is none
    custody,        \* tokens of each asset that the contract holds
    nullifiers,     \* DataKey::Nullifier
    log             \* history: the operations on pools, oldest first

vars == <<leaves, inserter, pools, positions, custody, nullifiers, log>>

PoolIds == 1 .. MaxPools
Keys(id) == Owners \X {id} \X Ticks \X Ticks
PositionKeys == Owners \X PoolIds \X Ticks \X Ticks

Balance(asset, blinding) == <<"note", asset, blinding>>
Position(id, blinding) == <<"position", id, blinding>>
Other(blinding) == <<"other", 0, blinding>>    \* neither of these

IsBalanceOf(asset, leaf) == leaf[1] = "note" /\ leaf[2] = asset
IsPositionIn(id, leaf) == leaf[1] = "position" /\ leaf[2] = id

\* Wallets draw other blindings for every commitment.
Blinding(j) == 3 * Root + j
NewPosition(id) == Position(id, Blinding(2))

\* Of a note and of a position alike: hash2 of the commitment and the key.
nullifier(commitment, key) == <<commitment, key>>

Known == 1 .. Len(pools)
Leaves(root) == {leaves[i] : i \in 1 .. root}

-----------------------------------------------------------------------------
(* Pools and public liquidity                                              *)

\* A fee above 10000 and a price of 0 are refused too; nothing here depends on
\* either.
create_pool(asset_0, asset_1, spacing) ==
    /\ spacing # 0 /\ spacing <= MAX_TICK_SPACING
    /\ asset_0 # asset_1
    /\ Len(pools) < MaxPools
    /\ pools' = Append(pools, [pool_id |-> Len(pools) + 1,
                               asset_0 |-> asset_0, asset_1 |-> asset_1,
                               tick_spacing |-> spacing,
                               liquidity |-> 0, sequence |-> 0])
    /\ UNCHANGED <<treeVars, positions, custody, nullifiers, log>>

validate_tick_range(lower, upper, spacing) ==
    /\ lower < upper
    /\ MIN_TICK <= lower /\ upper <= MAX_TICK
    /\ lower % spacing = 0 /\ upper % spacing = 0

saturating_add_Unchecked(a, b) == a + b
saturating_add(a, b) == IF a + b > MAX_U128 THEN MAX_U128 ELSE a + b
saturating_sub(a, b) == IF b > a THEN 0 ELSE a - b

\* What an operation leaves behind: the pool state and the root it was for.
Logged(op, id, state, root, spent, new) ==
    log' = Append(log, [op |-> op, pool |-> id, sequence |-> state.sequence,
                        root |-> root, spent |-> spent, grew |-> Len(new)])

Paid(id, amount_0, amount_1) ==
    [a \in Assets |-> custody[a]
        + (IF a = pools[id].asset_0 THEN amount_0 ELSE 0)
        + (IF a = pools[id].asset_1 THEN amount_1 ELSE 0)]

\* The pool and the caller's position change together.
Rebalance(key, id, held, total) ==
    /\ positions' = [positions EXCEPT ![key] = held]
    /\ pools' = [pools EXCEPT ![id].liquidity = total, ![id].sequence = @ + 1]
    /\ Logged("public", id, pools[id], 0, {}, <<>>)
    /\ UNCHANGED <<treeVars, nullifiers>>

\* What the caller's position holds after a mint.
Held_Overwritten(key, amount) == amount
Held(key, amount) == saturating_add(positions[key], amount)

mint_public(owner, id, lower, upper, amount, amount_0, amount_1) ==
    LET key == <<owner, id, lower, upper>> IN
    /\ validate_tick_range(lower, upper, pools[id].tick_spacing)
    /\ amount # 0 /\ (amount_0 # 0 \/ amount_1 # 0)
    /\ custody' = Paid(id, amount_0, amount_1)
    /\ \A a \in Assets : custody'[a] <= MaxTokens
    /\ Rebalance(key, id, Held(key, amount),
                 saturating_add(pools[id].liquidity, amount))

\* The payout is the caller's figure; the token refuses what is not there.
burn_public(owner, id, lower, upper, amount, amount_0, amount_1) ==
    LET key == <<owner, id, lower, upper>> IN
    /\ positions[key] # 0
    /\ amount_0 # 0 \/ amount_1 # 0
    /\ amount <= positions[key]
    /\ custody' = Paid(id, -amount_0, -amount_1)
    /\ \A a \in Assets : custody'[a] >= 0
    /\ Rebalance(key, id, saturating_sub(positions[key], amount),
                 saturating_sub(pools[id].liquidity, amount))

deposit_private(asset, amount) ==
    /\ amount # 0
    /\ custody[asset] + amount <= MaxTokens
    /\ custody' = [custody EXCEPT ![asset] = @ + amount]
    /\ authorized_insert(CLMM, <<Balance(asset, Blinding(0))>>)
    /\ UNCHANGED <<pools, positions, nullifiers, log>>

-----------------------------------------------------------------------------
(* The circuits: the nullifiers and the new leaves that a proof may have    *)
(* for a root of the tree and a state of a pool.  Amounts of outputs are not *)
(* constrained further (Phase A), nor are their assets, but for a swap.    *)

Nullifiers(notes) == {nullifier(n, key) : n \in notes, key \in SpendingKeys}

Payouts == {<<Balance(a, Blinding(0)), Balance(b, Blinding(1))>> : a, b \in Assets}

\* The input is opened, but its owner key is not compared with the spending key.
\* The position nullifier is zero, or of the new position as in the circuit's
\* own test, or of an old position, which is neither opened nor looked up; that
\* it differs from the input's adds nothing to what zero allows.
clmm_mint(root, state) ==
    LET new == NewPosition(state.pool_id)
        inputs == Nullifiers({n \in Leaves(root) : IsBalanceOf(state.asset_0, n)})
    IN  {[spent |-> {input} \cup old, new |-> <<new>>] :
            input \in inputs,
            old \in {{}} \cup {{n} : n \in Nullifiers(Leaves(Root) \cup {new})}}

\* The old position is looked up but not opened: it may be any leaf.  The
\* contract does not insert the residual position.
clmm_burn(root, state) ==
    {[spent |-> {old}, new |-> outputs] :
        old \in Nullifiers(Leaves(root)), outputs \in Payouts}

\* The blinding of the output follows from that of the input.
clmm_swap_exact_in(root, state) ==
    LET pair == {state.asset_0, state.asset_1} IN
    {[spent |-> {nullifier(input, key)}, new |-> <<Balance(output, input[3] + 2)>>] :
        input \in {n \in Leaves(root) : \E a \in pair : IsBalanceOf(a, n)},
        key \in SpendingKeys, output \in pair}

\* Any leaf again.  The new position may keep the nonce and the blinding of an
\* old one, and is then the same commitment.
clmm_collect(root, state) ==
    LET new == {NewPosition(state.pool_id)}
                   \cup {n \in Leaves(root) : IsPositionIn(state.pool_id, n)}
    IN  {[spent |-> {old}, new |-> <<position>> \o outputs] :
            old \in Nullifiers(Leaves(root)), position \in new, outputs \in Payouts}

-----------------------------------------------------------------------------
(* The private entry points                                                *)

\* Any root the tree ever had, as wraith-pool accepts a window of them.
require_current_merkle_root_Known(root) == root # 0 /\ root <= Root
require_current_merkle_root(root) == root # 0 /\ root = Root

require_pool_state(id, state) == state = pools[id]

\* spend_nullifier of every input, then the outputs, in one transaction.
Operate(op, id, root, state, proved) ==
    /\ require_pool_state(id, state)
    /\ require_current_merkle_root(root)
    /\ \E p \in proved :
          /\ p.spent \cap nullifiers = {}
          /\ nullifiers' = nullifiers \cup p.spent
          /\ authorized_insert(CLMM, p.new)
          /\ Logged(op, id, state, root, p.spent, p.new)
    /\ pools' = [pools EXCEPT ![id].sequence = @ + 1]
    /\ UNCHANGED <<positions, custody>>

mint(id, root, state) == Operate("mint", id, root, state, clmm_mint(root, state))
burn(id, root, state) == Operate("burn", id, root, state, clmm_burn(root, state))
swap(id, root, state) ==
    Operate("swap", id, root, state, clmm_swap_exact_in(root, state))
collect(id, root, state) ==
    Operate("collect", id, root, state, clmm_collect(root, state))

-----------------------------------------------------------------------------
(* The tree's other callers                                                *)

OnTree == UNCHANGED <<pools, positions, custody, nullifiers, log>>

insert_any(leaf) == insert(leaf) /\ OnTree
batch_insert_any(new) == batch_insert(new) /\ OnTree
set_inserter(caller) == set_authorized_inserter(caller) /\ OnTree

Init ==
    /\ TreeInit
    /\ pools = <<>>
    /\ positions = [key \in PositionKeys |-> 0]
    /\ custody = [a \in Assets |-> 0]
    /\ nullifiers = {} /\ log = <<>>

Public ==
    \/ \E a, b \in Assets, s \in Spacings : create_pool(a, b, s)
    \/ /\ Len(log) < MaxOperations
       /\ \E o \in Owners, id \in Known, l, u \in Ticks, n \in Liquidity,
             x, y \in Payments : \/ mint_public(o, id, l, u, n, x, y)
                                 \/ burn_public(o, id, l, u, n, x, y)
    \/ \E a \in Assets, n \in Payments : deposit_private(a, n)

\* A state that a pool is not in any more, or not yet, by its sequence.
States == {[pools[id] EXCEPT !.sequence = n] : id \in Known, n \in 0 .. MaxOperations}

Private ==
    /\ Len(log) < MaxOperations
    /\ \E id \in Known, root \in 1 .. Root, state \in States :
          \/ mint(id, root, state) \/ burn(id, root, state)
          \/ swap(id, root, state) \/ collect(id, root, state)

Tree ==
    \/ insert_any(Other(Root))
    \/ batch_insert_any(<<Other(Root), Other(Root + 1)>>)
    \/ \E c \in Callers : set_inserter(c)

Next == Public \/ Private \/ Tree
Spec == Init /\ [][Next]_vars

-----------------------------------------------------------------------------
(* What holds of it                                                        *)

PoolState == [pool_id : PoolIds, asset_0 : Assets, asset_1 : Assets,
              tick_spacing : Nat, liquidity : 0 .. MAX_U128, sequence : Nat]

\* Type correctness: a pool carries its own id, two assets and a spacing one
\* can divide by; liquidity stays in 128 bits; the tree stays in its capacity
\* and no more than what was paid in is ever paid out.
TypeOK ==
    /\ pools \in Seq(PoolState) /\ Len(pools) <= MaxPools
    /\ \A id \in Known : /\ pools[id].pool_id = id
                         /\ pools[id].asset_0 # pools[id].asset_1
                         /\ pools[id].tick_spacing # 0
    /\ positions \in [PositionKeys -> 0 .. MAX_U128]
    /\ custody \in [Assets -> Nat]
    /\ Len(leaves) <= CAPACITY
    /\ inserter \in Callers \cup {Unset}

\* Private operations act as if each were proved and applied at one instant:
\* the operations on a pool each used up a state of their own, in order; what
\* one inserts is under the root that any later one was proved against; each
\* used up a nullifier of a leaf that was there before it; and no
\* nullifier is used by two of them, whichever pools they are for: a note that
\* two of them take as input was spent with another key each time.
Serial ==
    /\ \A i \in 1 .. Len(log) :
          /\ log[i].sequence < pools[log[i].pool].sequence
          /\ log[i].root + log[i].grew <= Root
          /\ log[i].spent \subseteq nullifiers
          /\ log[i].op # "public" => \E n \in log[i].spent : n[1] \in Leaves(log[i].root)
    /\ \A j \in 1 .. Len(log) : \A i \in 1 .. j - 1 :
          /\ log[i].pool = log[j].pool => log[i].sequence < log[j].sequence
          /\ log[j].op # "public" => log[i].root + log[i].grew <= log[j].root
          /\ log[i].spent \cap log[j].spent = {}

\* The liquidity a pool advertises is owned: it never exceeds what the public
\* positions in it hold, though both saturate at 128 bits on their own.
LiquidityBacked ==
    \A id \in Known : pools[id].liquidity <= Total(Keys(id), positions)
=============================================================================
