------------------------- MODULE RestingOrderProofs -------------------------
(* The escrow and the limit of an order hold over its whole life, for      *)
(* every scale, width, price, size and sequence of fills.                  *)
EXTENDS RestingOrder, ArithmeticProofs

\* While the order rests it is the placed order with a smaller amount, and
\* the base filled and the base left make up the amount placed.
RestIsResidual ==
    rest # NoOrder =>
        /\ rest.side = placed.side /\ rest.price = placed.price
        /\ filled + rest.amount = placed.amount

\* The owner paid in exactly the lock, and as long as nothing was filled and
\* the order rests, all of it is in the escrow.
Untouched ==
    /\ funded = LockedAmount(placed)
    /\ filled = 0 /\ rest # NoOrder => released = 0 /\ returned = 0

\* The inductive invariant: EscrowCovers and BuyerLimit need to know that
\* the residual kept the side and the price, SingleStepExact that an order
\* which is still the placed one has given nothing out.
IInv == TypeOK /\ RestIsResidual /\ EscrowCovers /\ BuyerLimit /\ Untouched

LEMMA OrdersValues == \A o \in Orders : OrderValues(o)
BY DEF Orders, OrderValues

LEMMA InitIInv == Init => IInv
<1> SUFFICES ASSUME Init PROVE IInv
  OBVIOUS
<1>1. placed \in Orders /\ rest = placed /\ rest # NoOrder
  BY NoOrderAssumption DEF Init, PlaceableOrders
<1>2. OrderValues(placed)
  BY <1>1, OrdersValues
<1>3. placed.amount \in Nat /\ placed.price \in Nat
  BY <1>2, WidthAssumption DEF OrderValues, Amounts
<1>4. funded = LockedAmount(placed)
  <2>1. PICK n \in [asset : {LockedAsset(placed)}, amount : Amounts] :
               LockRelation(n, placed) /\ funded = n.amount - Change(n, placed)
    BY DEF Init
  <2>2. /\ n.amount = LockedAmount(placed) + Change(n, placed)
        /\ Change(n, placed) \in Amounts
    BY <1>2, <2>1, LockFullyFunded
  <2>3. LockedAmount(placed) \in Nat
    BY <1>2, LockedAmountNat
  <2> QED
    BY <2>1, <2>2, <2>3, WidthAssumption DEF Amounts
<1>5. LockedAmount(placed) \in Nat
  BY <1>2, LockedAmountNat
<1>6. TypeOK
  BY <1>1, <1>4, <1>5 DEF TypeOK, Init
<1>7. RestIsResidual
  BY <1>1, <1>3 DEF RestIsResidual, Init
<1>8. EscrowCovers
  BY <1>1, <1>4, <1>5 DEF EscrowCovers, RestLocks, Init
<1>9. BuyerLimit
  <2>1. mul_div_price(0, placed.price) \in Nat
    BY <1>3, MulDivPriceNat
  <2>2. filled = 0 /\ released = 0
    BY DEF Init
  <2> QED
    BY <2>1, <2>2 DEF BuyerLimit
<1>10. Untouched
  BY <1>4 DEF Untouched, Init
<1> QED
  BY <1>6, <1>7, <1>8, <1>9, <1>10 DEF IInv

LEMMA MatchIInv ==
    ASSUME IInv, NEW other \in PlaceableOrders, Match(other)
    PROVE  IInv'
<1> DEFINE fill == Fill(rest, other)
           quote == QuoteFilled(rest, other)
           residual == ResidualAmount(rest, fill)
           paid == IF rest.side = BUY THEN quote ELSE fill
           refund == RefundAmount(rest, fill, quote)
           lock == IF rest.side = BUY THEN mul_div_price(residual, rest.price)
                   ELSE residual
<1>1. /\ rest # NoOrder /\ rest \in Orders /\ placed \in Orders
      /\ OrderValues(rest) /\ OrderValues(other) /\ OrderValues(placed)
      /\ Compatible(rest, other) /\ assert_64(residual)
  BY OrdersValues DEF IInv, TypeOK, Match, MatchFits, PlaceableOrders
<1>2. /\ rest.amount \in Nat /\ rest.price \in Nat
      /\ placed.amount \in Nat /\ placed.price \in Nat
  BY <1>1, WidthAssumption DEF OrderValues, Amounts
<1>3. fill \in Nat /\ fill <= rest.amount
  BY <1>1, FillBounds
<1>4. /\ quote \in Nat
      /\ rest.side = BUY => quote <= mul_div_price(fill, rest.price)
  BY <1>1, QuoteWithinLimits
<1>5. /\ residual \in Nat /\ lock \in Nat /\ refund \in Nat
      /\ paid + refund + lock <= LockedAmount(rest)
      /\ residual = 0 => paid + refund = LockedAmount(rest)
  BY <1>1, SettlementCovered
<1>6. LockedAmount(rest) \in Nat
  BY <1>1, LockedAmountNat
<1>7. paid \in Nat
  BY <1>3, <1>4
<1>8. /\ rest' = IF residual # 0 THEN [rest EXCEPT !.amount = residual]
                 ELSE NoOrder
      /\ released' = released + paid
      /\ returned' = returned + refund
      /\ filled' = filled + fill
      /\ received' = received + (IF rest.side = BUY THEN fill ELSE quote)
      /\ placed' = placed /\ funded' = funded
  BY DEF Match
<1>9. /\ released \in Nat /\ received \in Nat /\ returned \in Nat
      /\ filled \in Nat /\ funded \in Nat
      /\ rest.side = placed.side /\ rest.price = placed.price
      /\ filled + rest.amount = placed.amount
      /\ released + returned + LockedAmount(rest) <= funded
      /\ placed.side = BUY => released <= mul_div_price(filled, placed.price)
  BY <1>1 DEF IInv, TypeOK, RestIsResidual, EscrowCovers, RestLocks, BuyerLimit
<1>10. fill + residual = rest.amount
  BY <1>2, <1>3 DEF ResidualAmount
<1>11. residual # 0 =>
         /\ rest' \in Orders /\ rest' # NoOrder
         /\ rest'.side = rest.side /\ rest'.price = rest.price
         /\ rest'.amount = residual
         /\ LockedAmount(rest') = lock
  <2> SUFFICES ASSUME residual # 0
               PROVE  /\ rest' \in Orders /\ rest' # NoOrder
                      /\ rest'.side = rest.side /\ rest'.price = rest.price
                      /\ rest'.amount = residual
                      /\ LockedAmount(rest') = lock
    OBVIOUS
  <2>1. rest' = [rest EXCEPT !.amount = residual] /\ residual \in Amounts
    BY <1>1, <1>8 DEF assert_64
  <2> HIDE DEF residual
  <2>2. rest' \in Orders /\ rest'.side = rest.side /\ rest'.price = rest.price
        /\ rest'.amount = residual
    BY <1>1, <2>1 DEF Orders
  <2>3. rest' # NoOrder
    BY <2>2, NoOrderAssumption
  <2>4. LockedAmount(rest') = lock
    BY <2>2 DEF LockedAmount
  <2> QED
    BY <2>2, <2>3, <2>4
<1>12. residual = 0 => rest' = NoOrder
  BY <1>8
<1> HIDE DEF fill, quote, residual, paid, refund, lock
<1>13. TypeOK'
  <2>1. rest' \in Orders \cup {NoOrder}
    BY <1>11, <1>12
  <2>2. received' \in Nat
    BY <1>3, <1>4, <1>8, <1>9
  <2> QED
    BY <1>1, <1>3, <1>5, <1>7, <1>8, <1>9, <2>1, <2>2 DEF TypeOK
<1>14. RestIsResidual'
  BY <1>2, <1>3, <1>5, <1>8, <1>9, <1>10, <1>11, <1>12 DEF RestIsResidual
<1>15. EscrowCovers'
  <2>1. CASE residual = 0
    <3>1. RestLocks' = 0
      BY <1>12, <2>1 DEF RestLocks
    <3> QED
      BY <1>5, <1>6, <1>7, <1>8, <1>9, <2>1, <3>1 DEF EscrowCovers
  <2>2. CASE residual # 0
    <3>1. RestLocks' = lock
      BY <1>11, <2>2 DEF RestLocks
    <3> QED
      BY <1>5, <1>6, <1>7, <1>8, <1>9, <3>1 DEF EscrowCovers
  <2> QED
    BY <2>1, <2>2
<1>16. BuyerLimit'
  <2> SUFFICES ASSUME placed.side = BUY
               PROVE  released' <= mul_div_price(filled', placed.price)
    BY <1>8 DEF BuyerLimit
  <2>1. paid = quote /\ quote <= mul_div_price(fill, placed.price)
    BY <1>4, <1>9 DEF paid
  <2>2. mul_div_price(filled, placed.price) + mul_div_price(fill, placed.price)
          <= mul_div_price(filled + fill, placed.price)
    BY <1>2, <1>3, <1>9, MulDivPriceSplit
  <2>3. mul_div_price(filled, placed.price) \in Nat
    BY <1>2, <1>9, MulDivPriceNat
  <2>4. mul_div_price(fill, placed.price) \in Nat
    BY <1>2, <1>3, MulDivPriceNat
  <2>5. filled + fill \in Nat
    BY <1>3, <1>9
  <2>6. mul_div_price(filled + fill, placed.price) \in Nat
    BY <1>2, <2>5, MulDivPriceNat
  <2> QED
    BY <1>4, <1>8, <1>9, <2>1, <2>2, <2>3, <2>4, <2>6
<1>17. Untouched'
  <2>1. funded' = LockedAmount(placed')
    BY <1>8 DEF IInv, Untouched
  <2>2. ASSUME filled' = 0, rest' # NoOrder PROVE released' = 0 /\ returned' = 0
    <3>1. filled = 0 /\ fill = 0
      BY <1>3, <1>8, <1>9, <2>2
    <3>2. released = 0 /\ returned = 0
      BY <1>1, <3>1 DEF IInv, Untouched
    <3>3. paid = 0
      <4>1. \A x \in Nat : (0 * x) \div PRICE_SCALE = 0
        BY ScaleAssumption
      <4>2. placed.side = BUY => quote <= mul_div_price(0, placed.price)
        BY <1>4, <1>9, <3>1
      <4>3. placed.side = BUY => quote <= 0
        BY <1>2, <4>1, <4>2 DEF mul_div_price
      <4> QED
        BY <1>4, <1>9, <3>1, <4>3 DEF paid
    <3>4. refund = 0
      BY <1>12, <2>2 DEF refund, residual, RefundAmount
    <3> QED
      BY <1>8, <3>2, <3>3, <3>4
  <2> QED
    BY <2>1, <2>2 DEF Untouched
<1> QED
  BY <1>13, <1>14, <1>15, <1>16, <1>17 DEF IInv

LEMMA CancelIInv ==
    ASSUME IInv, Cancel
    PROVE  IInv'
<1>1. rest # NoOrder /\ rest \in Orders /\ OrderValues(rest)
  BY OrdersValues DEF IInv, TypeOK, Cancel
<1>2. LockedAmount(rest) \in Nat
  BY <1>1, LockedAmountNat
<1> QED
  BY <1>1, <1>2 DEF IInv, TypeOK, RestIsResidual, EscrowCovers, RestLocks,
                    BuyerLimit, Untouched, Cancel

LEMMA NextIInv == IInv /\ [Next]_vars => IInv'
<1> SUFFICES ASSUME IInv, [Next]_vars PROVE IInv'
  OBVIOUS
<1>1. ASSUME NEW other \in PlaceableOrders, Match(other) PROVE IInv'
  BY <1>1, MatchIInv
<1>2. CASE Cancel
  BY <1>2, CancelIInv
<1>3. CASE UNCHANGED vars
  BY <1>3 DEF vars, IInv, TypeOK, RestIsResidual, EscrowCovers, RestLocks,
              BuyerLimit, Untouched
<1> QED
  BY <1>1, <1>2, <1>3 DEF Next

\* Type correctness of the life of an order.
THEOREM RestingOrderTyped == Spec => []TypeOK
<1>1. IInv => TypeOK
  BY DEF IInv
<1> QED
  BY <1>1, InitIInv, NextIInv, PTL DEF Spec

\* The escrow of an order covers everything it gives out over its life.
THEOREM EscrowAlwaysCovers == Spec => []EscrowCovers
<1>1. IInv => EscrowCovers
  BY DEF IInv
<1> QED
  BY <1>1, InitIInv, NextIInv, PTL DEF Spec

\* A buyer never pays more than its limit over all its fills.
THEOREM BuyerLimitAlways == Spec => []BuyerLimit
<1>1. IInv => BuyerLimit
  BY DEF IInv
<1> QED
  BY <1>1, InitIInv, NextIInv, PTL DEF Spec

\* Every fill of a seller pays at least the floor of its limit price.
THEOREM SellerLimitAlways == Spec => SellerLimit
<1>1. ASSUME IInv, [Next]_vars
      PROVE  [placed.side = SELL /\ filled' # filled =>
                received' - received
                  >= mul_div_price(filled' - filled, placed.price)]_vars
  <2> SUFFICES ASSUME NEW other \in PlaceableOrders, Match(other),
                      placed.side = SELL
               PROVE  received' - received
                        >= mul_div_price(filled' - filled, placed.price)
    BY <1>1 DEF Next, Cancel
  <2>1. /\ rest # NoOrder /\ rest \in Orders /\ OrderValues(rest)
        /\ OrderValues(other) /\ Compatible(rest, other)
        /\ rest.side = SELL /\ rest.price = placed.price
        /\ received \in Nat /\ filled \in Nat
    BY <1>1, OrdersValues
       DEF IInv, TypeOK, RestIsResidual, Match, PlaceableOrders
  <2>2. /\ QuoteFilled(rest, other) \in Nat
        /\ mul_div_price(Fill(rest, other), placed.price)
             <= QuoteFilled(rest, other)
    BY <2>1, QuoteWithinLimits
  <2>3. Fill(rest, other) \in Nat
    BY <2>1, FillBounds
  <2>4. received' = received + QuoteFilled(rest, other)
        /\ filled' = filled + Fill(rest, other)
    BY <2>1 DEF Match, BUY, SELL
  <2>5. received' - received = QuoteFilled(rest, other)
        /\ filled' - filled = Fill(rest, other)
    BY <2>1, <2>2, <2>3, <2>4
  <2>6. mul_div_price(Fill(rest, other), placed.price) \in Nat
    <3>1. placed.price \in Nat
      BY <2>1, WidthAssumption DEF OrderValues, Amounts
    <3> QED
      BY <2>3, <3>1, MulDivPriceNat
  <2> QED
    BY <2>2, <2>5, <2>6
<1> QED
  BY <1>1, InitIInv, NextIInv, PTL DEF Spec, SellerLimit

\* An order that one fill or a cancel takes out of the active set as it was placed
\* strands nothing: match_orders pays or refunds, or cancel_order refunds, exactly
\* what its owner paid in at place_order.
THEOREM SingleStepAlwaysExact == Spec => SingleStepExact
<1>1. ASSUME IInv, [Next]_vars
      PROVE  [rest = placed /\ rest' = NoOrder => released' + returned' = funded]_vars
  <2> SUFFICES ASSUME Next, rest = placed, rest' = NoOrder
               PROVE  released' + returned' = funded
    BY <1>1
  <2>1. /\ placed \in Orders /\ rest # NoOrder /\ OrderValues(rest)
        /\ filled = 0 /\ released = 0 /\ returned = 0 /\ funded = LockedAmount(rest)
    <3>1. placed \in Orders /\ rest # NoOrder
      BY <1>1, NoOrderAssumption DEF IInv, TypeOK
    <3>2. OrderValues(placed)
      BY <3>1, OrdersValues
    <3>3. placed.amount \in Nat /\ filled \in Nat
      BY <1>1, <3>2, WidthAssumption DEF IInv, TypeOK, OrderValues, Amounts
    <3>4. filled + placed.amount = placed.amount
      BY <1>1, <3>1 DEF IInv, RestIsResidual
    <3>5. filled = 0
      BY <3>3, <3>4
    <3> QED
      BY <1>1, <3>1, <3>2, <3>5 DEF IInv, Untouched
  <2>2. LockedAmount(rest) \in Nat
    BY <2>1, LockedAmountNat
  <2>3. ASSUME NEW other \in PlaceableOrders, Match(other)
        PROVE  released' + returned' = funded
    <3> DEFINE fill == Fill(rest, other)
               quote == QuoteFilled(rest, other)
               residual == ResidualAmount(rest, fill)
               paid == IF rest.side = BUY THEN quote ELSE fill
               refund == RefundAmount(rest, fill, quote)
    <3>1. OrderValues(other) /\ Compatible(rest, other)
      BY <2>3, OrdersValues DEF Match, PlaceableOrders
    <3>2. residual = 0
      <4>1. ASSUME residual # 0 PROVE FALSE
        <5>1. NoOrder = [rest EXCEPT !.amount = residual] /\ residual \in Amounts
          BY <2>3, <4>1 DEF Match, MatchFits, assert_64
        <5> HIDE DEF residual
        <5>2. [rest EXCEPT !.amount = residual] \in Orders
          BY <2>1, <5>1 DEF Orders
        <5> QED
          BY <5>1, <5>2, NoOrderAssumption
      <4> QED
        BY <4>1
    <3>3. paid + refund = LockedAmount(rest) /\ refund \in Nat
      BY <2>1, <3>1, <3>2, SettlementCovered
    <3>4. fill \in Nat /\ quote \in Nat
      BY <2>1, <3>1, FillBounds, QuoteWithinLimits
    <3>5. released' = released + paid /\ returned' = returned + refund
      BY <2>3 DEF Match
    <3> HIDE DEF fill, quote, residual, refund
    <3>6. paid \in Nat
      BY <3>4
    <3> QED
      BY <2>1, <3>3, <3>5, <3>6
  <2>4. CASE Cancel
    BY <2>1, <2>2, <2>4 DEF Cancel
  <2> QED
    BY <2>3, <2>4 DEF Next
<1> QED
  BY <1>1, InitIInv, NextIInv, PTL DEF Spec, SingleStepExact
=============================================================================
