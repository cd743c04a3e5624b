---------------------------- MODULE RestingOrder ----------------------------
(***************************************************************************)
(* The life of one dark-pool order from place_order to its end: filled by  *)
(* a series of match_orders calls, each of which replaces it by a residual *)
(* at the same side and price, or cancelled in between.  The state follows *)
(* what the escrow of the order is used for, across any number of partial  *)
(* fills, each with floors of its own.  The counterparties are             *)
(* arbitrary: any order the match_orders circuit accepts.                  *)
(***************************************************************************)
EXTENDS SwapArithmetic

CONSTANTS
    Prices,        \* the limit prices orders are placed at
    Sizes,         \* the base amounts orders are placed with
    NoOrder        \* the order has left the active set

ASSUME InputsAssumption == Prices \subseteq Amounts /\ Sizes \subseteq Amounts
Orders == [side : {BUY, SELL}, price : Amounts, amount : Amounts,
           base : {"base"}, quote : {"quote"}]

ASSUME NoOrderAssumption == NoOrder \notin Orders

PlaceableOrders == {o \in Orders : o.price \in Prices /\ o.amount \in Sizes}

VARIABLES
    placed,    \* the order as it was placed
    funded,    \* what its owner paid: the note spent less the change note
    rest,      \* what is left of it in the active set, or NoOrder
    filled,    \* base asset exchanged so far
    released,  \* locked asset that left the escrow to counterparties
    received,  \* other asset that came in, in fill notes of the owner
    returned   \* locked asset that came back in refund notes of the owner

vars == <<placed, funded, rest, filled, released, received, returned>>

-----------------------------------------------------------------------------
(* The whole circuit is behind each relation used here; the contract's     *)
(* active set and nullifiers are in WraithPool.                            *)

\* place_order: a note is spent on the lock, the change comes back at once.
Init == /\ placed \in PlaceableOrders
        /\ \E n \in [asset : {LockedAsset(placed)}, amount : Amounts] :
              /\ LockRelation(n, placed)
              /\ funded = n.amount - Change(n, placed)
        /\ rest = placed
        /\ filled = 0 /\ released = 0 /\ received = 0 /\ returned = 0

\* match_orders against `other`: the residual keeps side and price.
Match(other) ==
    /\ rest # NoOrder
    /\ Compatible(rest, other)
    /\ MatchFits(rest, other)
    /\ LET fill == Fill(rest, other)
           quote == QuoteFilled(rest, other)
           residual == ResidualAmount(rest, fill)
       IN /\ rest' = IF residual # 0 THEN [rest EXCEPT !.amount = residual]
                     ELSE NoOrder
          /\ released' = released + (IF rest.side = BUY THEN quote ELSE fill)
          /\ received' = received + (IF rest.side = BUY THEN fill ELSE quote)
          /\ returned' = returned + RefundAmount(rest, fill, quote)
          /\ filled' = filled + fill
    /\ UNCHANGED <<placed, funded>>

\* cancel_order: the refund note holds what the residual locks.
Cancel ==
    /\ rest # NoOrder
    /\ returned' = returned + LockedAmount(rest)
    /\ rest' = NoOrder
    /\ UNCHANGED <<placed, funded, released, received, filled>>

Next == \/ \E other \in PlaceableOrders : Match(other)
        \/ Cancel

Spec == Init /\ [][Next]_vars

-----------------------------------------------------------------------------
RestLocks == IF rest = NoOrder THEN 0 ELSE LockedAmount(rest)

TypeOK == /\ placed \in Orders
          /\ rest \in Orders \cup {NoOrder}
          /\ funded \in Nat /\ filled \in Nat
          /\ released \in Nat /\ received \in Nat /\ returned \in Nat

\* The escrow of an order pays for everything the order gives out over its
\* whole life: what the fills release, what comes back and what the residual
\* still promises never exceed what the owner paid in at place_order, however
\* the order is cut into fills and though every step floors and truncates.
EscrowCovers == released + returned + RestLocks <= funded

\* Over all its fills together a buyer never pays more than its limit price,
\* floored, for the base it was filled with (midpoint price, floored quote).
BuyerLimit ==
    placed.side = BUY => released <= mul_div_price(filled, placed.price)

\* A fill gives a seller at least the floor of its limit price for the fill.
SellerLimit ==
    [][placed.side = SELL /\ filled' # filled =>
         received' - received >= mul_div_price(filled' - filled, placed.price)
      ]_vars

\* An order that leaves the active set in one step, by a single complete fill
\* or a cancel, strands nothing: what the owner paid in went to the
\* counterparty or came back in a refund note.  (Only a partial fill of a buy
\* strands its price improvement, which circuits/README.md documents.)
SingleStepExact ==
    [][rest = placed /\ rest' = NoOrder => released' + returned' = funded]_vars
=============================================================================
