----------------------------- MODULE WraithPool -----------------------------
(***************************************************************************)
(* The pool contract of the dark pool (contracts/wraith-pool) together     *)
(* with the circuit each entry point verifies: the note tree and its root  *)
(* history, the nullifiers, the active order set and the tokens in custody.*)
(*                                                                         *)
(* A commitment is the note or order it opens to and a nullifier is the    *)
(* note it was derived from (the hash is collision free, a key derives one *)
(* nullifier per commitment).  A Merkle root is the number of leaves it    *)
(* commits to: the tree only grows, so a root names a prefix of `leaves`.  *)
(* A proof is valid exactly when its circuit's relation holds of some      *)
(* witness: the actions quantify over the witness.  A call that the        *)
(* contract refuses changes nothing and is a disabled action.  Notes are   *)
(* created by the wallet (deposit) and the bridge for the amount that      *)
(* crosses the edge: the contract cannot see into their commitments.       *)
(***************************************************************************)
EXTENDS SwapArithmetic, Tally, NoteTree

CONSTANTS
    Owners,          \* owner keys of the shielded layer
    Assets,          \* asset ids
    Blindings,       \* what makes two notes of one amount different
    Nonces,          \* likewise for orders
    Deposits,        \* the amounts wallets deposit (createNote: 64 bits)
    Pairs,           \* the trading pairs <<base, quote>>, limit prices and
    Prices,          \*   amounts of the orders that traders place
    Sizes,
    Admins,          \* accounts that may call set_bridge
    Bridges,         \* bridge contracts it may name
    Unset            \* a storage key that has not been written

ASSUME UnsetAssumption == Unset \notin Admins \cup Bridges

ASSUME InputsAssumption ==
    Deposits \subseteq Amounts /\ Prices \subseteq Amounts /\ Sizes \subseteq Amounts

Notes == [asset : Assets, amount : Nat, owner : Owners, blinding : Blindings]
NotesOf(amounts) == [asset : Assets, amount : amounts, owner : Owners,
                     blinding : Blindings]
Orders == [side : {BUY, SELL}, price : Amounts, amount : Amounts,
           base : Assets, quote : Assets, owner : Owners, nonce : Nonces]

Note(asset, amount, owner, blinding) ==
    [asset |-> asset, amount |-> amount, owner |-> owner,
     blinding |-> blinding]

PlaceableOrders == {o \in Orders : /\ <<o.base, o.quote>> \in Pairs
                                  /\ o.price \in Prices /\ o.amount \in Sizes}

VARIABLES
    spent,      \* the nullifier set
    orders,     \* the active order set
    custody,    \* tokens of each asset the pool holds
    minted,     \* value of each asset that came in through bridge_mint
    admin,      \* DataKey::Admin
    bridge      \* DataKey::Bridge

edgeVars == <<custody, minted>>
adminVars == <<admin, bridge>>
vars == <<leaves, roots, spent, orders, custody, minted, admin, bridge>>

\* A zero commitment stands for an output that is absent.
IfNonZero(note) == IF note.amount # 0 THEN <<note>> ELSE <<>>

-----------------------------------------------------------------------------
(* The edges: deposit, withdraw and the bridge                             *)

deposit(note) ==
    /\ note.amount > 0
    /\ custody' = [custody EXCEPT ![note.asset] = @ + note.amount]
    /\ insert(<<note>>)
    /\ UNCHANGED <<spent, orders, minted, adminVars>>

set_bridge(caller, b) ==
    /\ bridge = Unset
    /\ admin \in {Unset, caller}
    /\ admin' = caller
    /\ bridge' = b
    /\ UNCHANGED <<treeVars, spent, orders, edgeVars>>

bridge_mint(note) ==
    /\ bridge # Unset
    /\ insert(<<note>>)
    /\ minted' = [minted EXCEPT ![note.asset] = @ + note.amount]
    /\ UNCHANGED <<spent, orders, custody, adminVars>>

\* The recipient and the asset of the transfer are bound to the proof.
withdraw(note, k) ==
    /\ is_known_root(k) /\ Member(note, k)
    /\ note \notin spent
    /\ note.amount > 0 /\ assert_64(note.amount)
    /\ custody[note.asset] >= note.amount
    /\ spent' = spent \cup {note}
    /\ custody' = [custody EXCEPT ![note.asset] = @ - note.amount]
    /\ UNCHANGED <<treeVars, orders, minted, adminVars>>

-----------------------------------------------------------------------------
(* Payments                                                                *)

Inputs_AnyNote(in1, in2, k) ==
    /\ assert_64(in1.amount) /\ assert_64(in2.amount)
    /\ in2.amount # 0 => in2.asset = in1.asset

\* The transfer circuit of its inputs.  An input of amount 0 is a dummy: it
\* needs no membership and no asset, but it has a nullifier like any other.
Inputs(in1, in2, k) ==
    /\ assert_64(in1.amount) /\ assert_64(in2.amount)
    /\ \A n \in {in1, in2} : n.amount # 0 => Member(n, k)
    /\ in2.amount # 0 => in2.asset = in1.asset

Outputs_AnyAmount(in1, in2, out1, out2) ==
    /\ \A n \in {out1, out2} : n.amount # 0 => n.asset = in1.asset
    /\ (in1.amount + in2.amount) % FIELD = (out1.amount + out2.amount) % FIELD

\* And of its outputs.  The sums are sums in the field: it is the range
\* checks that keep them from wrapping.
Outputs(in1, in2, out1, out2) ==
    /\ assert_64(out1.amount) /\ assert_64(out2.amount)
    /\ \A n \in {out1, out2} : n.amount # 0 => n.asset = in1.asset
    /\ (in1.amount + in2.amount) % FIELD = (out1.amount + out2.amount) % FIELD

\* The amount of one output is any field element; the conservation equation
\* leaves one for the other.
transfer(in1, in2, k) ==
    /\ is_known_root(k)
    /\ in1 # in2
    /\ in1 \notin spent /\ in2 \notin spent
    /\ Inputs(in1, in2, k)
    /\ spent' = spent \cup {in1, in2}
    /\ \E paid \in Field :
         \E out1 \in NotesOf({paid}),
            out2 \in NotesOf({(in1.amount + in2.amount - paid) % FIELD}) :
            Outputs(in1, in2, out1, out2) /\ insert(<<out1, out2>>)
    /\ UNCHANGED <<orders, edgeVars, adminVars>>

-----------------------------------------------------------------------------
(* Swaps                                                                   *)

\* Lock a note behind a hidden order; what the order does not lock comes
\* back as a change note of the same owner and asset.
place_order(note, k, order, change_blinding) ==
    /\ is_known_root(k) /\ Member(note, k)
    /\ note \notin spent
    /\ order \notin orders
    /\ order.owner = note.owner
    /\ LockRelation(note, order)
    /\ spent' = spent \cup {note}
    /\ orders' = orders \cup {order}
    /\ insert(IfNonZero(Note(note.asset, Change(note, order), note.owner,
                             change_blinding)))
    /\ UNCHANGED <<edgeVars, adminVars>>

\* settle_order for one of the two orders of a match: what it pays goes to
\* the counterparty's fill note, the rest is refunded or stays locked.
Residual(o, fill, nonce) ==
    IF ResidualAmount(o, fill) # 0
    THEN {[o EXCEPT !.amount = ResidualAmount(o, fill), !.nonce = nonce]}
    ELSE {}
Refund(o, fill, quote, blinding) ==
    IfNonZero(Note(o.quote, RefundAmount(o, fill, quote), o.owner, blinding))

\* Anyone who knows both openings may match two active orders.
match_orders(a, b, blindings, nonce) ==
    /\ a # b
    /\ a \in orders /\ b \in orders
    /\ Compatible(a, b)
    /\ MatchFits(a, b)
    /\ LET buy == IF a.side = BUY THEN a ELSE b
           sell == IF a.side = BUY THEN b ELSE a
           fill == Fill(a, b)
           quote == QuoteFilled(a, b)
       IN /\ orders' = (orders \ {a, b}) \cup Residual(a, fill, nonce)
                                         \cup Residual(b, fill, nonce)
          /\ insert(<<Note(a.base, fill, buy.owner, blindings.buyer),
                      Note(a.quote, quote, sell.owner, blindings.seller)>>
                    \o Refund(a, fill, quote, blindings.refund)
                    \o Refund(b, fill, quote, blindings.refund))
    /\ UNCHANGED <<spent, edgeVars, adminVars>>

cancel_order_StaysActive(order, blinding) ==
    /\ order \in orders
    /\ assert_64(order.amount) /\ assert_64(order.price)
    /\ insert(<<Note(LockedAsset(order), LockedAmount(order), order.owner,
                     blinding)>>)
    /\ UNCHANGED <<spent, orders, edgeVars, adminVars>>

\* The owner takes the locked funds back; a worthless refund note is
\* inserted too.
cancel_order(order, blinding) ==
    /\ order \in orders
    /\ assert_64(order.amount) /\ assert_64(order.price)
    /\ orders' = orders \ {order}
    /\ insert(<<Note(LockedAsset(order), LockedAmount(order), order.owner,
                     blinding)>>)
    /\ UNCHANGED <<spent, edgeVars, adminVars>>

-----------------------------------------------------------------------------
Init == /\ EmptyTree
        /\ spent = {} /\ orders = {}
        /\ custody = [a \in Assets |-> 0] /\ minted = [a \in Assets |-> 0]
        /\ admin = Unset /\ bridge = Unset

MatchBlindings == [buyer : Blindings, seller : Blindings, refund : Blindings]

\* The notes a prover may claim to own, in the tree or not.
Claimable == Range(leaves) \cup NotesOf(Amounts)

Edge == \/ \E note \in NotesOf(Deposits) : deposit(note) \/ bridge_mint(note)
        \/ \E caller \in Admins, b \in Bridges : set_bridge(caller, b)
        \/ \E note \in Claimable, k \in Range(roots) : withdraw(note, k)

Pay == \E in1, in2 \in Claimable, k \in Range(roots) : transfer(in1, in2, k)

Swap ==
    \/ \E note \in Claimable, k \in Range(roots), o \in PlaceableOrders,
          change_blinding \in Blindings :
          place_order(note, k, o, change_blinding)
    \/ \E a, b \in orders, blindings \in MatchBlindings, nonce \in Nonces :
          match_orders(a, b, blindings, nonce)
    \/ \E o \in orders, blinding \in Blindings : cancel_order(o, blinding)

Next == Edge \/ Pay \/ Swap

Spec == Init /\ [][Next]_vars

-----------------------------------------------------------------------------
TypeOK == /\ leaves \in Seq(Notes) /\ Len(leaves) <= MAX_LEAVES
          /\ roots \in Seq(1 .. MAX_LEAVES)
          /\ spent \subseteq Notes /\ orders \subseteq Orders
          /\ custody \in [Assets -> Nat] /\ minted \in [Assets -> Nat]
          /\ admin \in Admins \cup {Unset}
          /\ bridge \in Bridges \cup {Unset}

AmountOf == [n \in Notes |-> n.amount]
LockOf == [o \in Orders |-> LockedAmount(o)]
NoteClaims(S, a) == Total({n \in S : n.asset = a}, AmountOf)
OrderClaims(S, a) == Total({o \in S : LockedAsset(o) = a}, LockOf)

Claims == [a \in Assets |-> NoteClaims(Range(leaves) \ spent, a)
                            + OrderClaims(orders, a)]
Reserve == [a \in Assets |-> custody[a] + minted[a]]

Ledger == INSTANCE ShieldedLedger WITH reserve <- Reserve, claims <- Claims

\* The unspent notes of the tree and what the active orders lock are backed,
\* asset by asset, by the tokens the pool holds and the value that came over
\* the bridge: across deposits, dummies, change, partial fills, refunds and
\* cancels, with floors and truncating casts, nothing is spent twice or made.
Solvency == Ledger!Solvent

\* The pool is a ledger whose value moves only at the edges: each call enters
\* what it takes, gives up what it pays, or leaves no asset owing more.
ImplementsLedger == Ledger!Spec

\* Every nullifier that carries value belongs to a note of the tree, so that
\* no unspent note was ever spent before it was created; dummies carry none.
SpentWereLeaves == \A n \in spent : n.amount # 0 => n \in Range(leaves)

\* What an active order locks fits in 64 bits, though the lock of a buy is a
\* 128-bit product that place_order compares after a truncating cast.
OrdersRefundable == \A o \in orders : assert_64(LockedAmount(o))

\* Every note in the tree passes the range check that spending it needs: the
\* circuits that make refund notes do not check their amounts.
LeavesSpendable == \A n \in Range(leaves) : assert_64(n.amount)
=============================================================================
