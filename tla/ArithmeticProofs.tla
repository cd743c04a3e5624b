-------------------------- MODULE ArithmeticProofs --------------------------
(* The arithmetic that the other proofs share: floor division by the price *)
(* scale and the 64-bit casts, with what they say of a lock and of a match, *)
(* for every scale and every width; totals; and induction up to a bound.   *)
(* The totals and the induction do not depend on scale or width.           *)
EXTENDS SwapArithmetic, Tally, FiniteSetTheorems, WellFoundedInduction, TLAPS

-----------------------------------------------------------------------------
(* Prices                                                                  *)

\* Floor division by the scale: the quotient is a natural number within one
\* scale of its argument.  (mul_div_price)
LEMMA FloorBounds ==
    ASSUME NEW x \in Nat
    PROVE  /\ x \div PRICE_SCALE \in Nat
           /\ PRICE_SCALE * (x \div PRICE_SCALE) <= x
           /\ x < PRICE_SCALE * (x \div PRICE_SCALE) + PRICE_SCALE
BY ScaleAssumption

\* Floor division is monotone.
LEMMA FloorMonotone ==
    ASSUME NEW x \in Nat, NEW y \in Nat, x <= y
    PROVE  x \div PRICE_SCALE <= y \div PRICE_SCALE
BY ScaleAssumption, FloorBounds

\* Two floors never add up to more than the floor of the sum: rounding a
\* payment fill by fill never pays out more than rounding it once.
LEMMA FloorSuperadditive ==
    ASSUME NEW x \in Nat, NEW y \in Nat
    PROVE  (x \div PRICE_SCALE) + (y \div PRICE_SCALE)
             <= (x + y) \div PRICE_SCALE
<1> DEFINE a == x \div PRICE_SCALE
           b == y \div PRICE_SCALE
           c == (x + y) \div PRICE_SCALE
<1>1. a \in Nat /\ b \in Nat /\ c \in Nat
  BY FloorBounds
<1>2. /\ PRICE_SCALE * a <= x
      /\ PRICE_SCALE * b <= y
      /\ x + y < PRICE_SCALE * c + PRICE_SCALE
  BY FloorBounds
<1> HIDE DEF a, b, c
<1>3. PRICE_SCALE * (a + b) < PRICE_SCALE * (c + 1)
  BY <1>1, <1>2, ScaleAssumption
<1>4. a + b < c + 1
  BY <1>1, <1>3, ScaleAssumption
<1>5. a + b <= c
  BY <1>1, <1>4
<1> QED
  BY <1>5 DEF a, b, c

\* A product of two naturals is monotone in both factors.
LEMMA ProductMonotone ==
    ASSUME NEW a \in Nat, NEW b \in Nat, NEW c \in Nat, NEW d \in Nat,
           a <= b, c <= d
    PROVE  a * c <= b * d
<1>1. a * c <= b * c
  OBVIOUS
<1>2. b * c <= b * d
  OBVIOUS
<1>3. a * c \in Nat /\ b * c \in Nat /\ b * d \in Nat
  OBVIOUS
<1> QED
  BY <1>1, <1>2, <1>3

\* mul_div_price of naturals is a natural number.
LEMMA MulDivPriceNat ==
    ASSUME NEW a \in Nat, NEW b \in Nat
    PROVE  mul_div_price(a, b) \in Nat
<1>1. a * b \in Nat
  OBVIOUS
<1> QED
  BY <1>1, FloorBounds DEF mul_div_price

\* mul_div_price is monotone in both factors.
LEMMA MulDivPriceMonotone ==
    ASSUME NEW a \in Nat, NEW b \in Nat, NEW c \in Nat, NEW d \in Nat,
           a <= b, c <= d
    PROVE  mul_div_price(a, c) <= mul_div_price(b, d)
<1>1. a * c \in Nat /\ b * d \in Nat /\ a * c <= b * d
  BY ProductMonotone
<1> QED
  BY <1>1, FloorMonotone DEF mul_div_price

\* A purchase cut in two is never dearer than in one piece.
LEMMA MulDivPriceSplit ==
    ASSUME NEW a \in Nat, NEW b \in Nat, NEW p \in Nat
    PROVE  mul_div_price(a, p) + mul_div_price(b, p) <= mul_div_price(a + b, p)
<1>1. a * p \in Nat /\ b * p \in Nat
  OBVIOUS
<1>2. (a + b) * p = a * p + b * p
  OBVIOUS
<1> QED
  BY <1>1, <1>2, FloorSuperadditive DEF mul_div_price

\* The truncating cast leaves 64-bit values alone.
LEMMA Trunc64Identity ==
    ASSUME NEW x \in Amounts
    PROVE  trunc64(x) = x
BY WidthAssumption DEF trunc64, Amounts

\* The midpoint lies between the two prices.
LEMMA MidpointBetween ==
    ASSUME NEW a \in Nat, NEW b \in Nat, a <= b
    PROVE  /\ midpoint(a, b) \in Nat /\ midpoint(b, a) = midpoint(a, b)
           /\ a <= midpoint(a, b) /\ midpoint(a, b) <= b
BY DEF midpoint

-----------------------------------------------------------------------------
(* What place_order and match_orders guarantee of the amounts              *)

\* The value fields of an order are 64-bit numbers.
OrderValues(o) == o.side \in {BUY, SELL} /\ o.price \in Amounts
                  /\ o.amount \in Amounts

LEMMA LockedAmountNat ==
    ASSUME NEW o, OrderValues(o)
    PROVE  LockedAmount(o) \in Nat
<1>1. o.price \in Nat /\ o.amount \in Nat
  BY WidthAssumption DEF OrderValues, Amounts
<1> QED
  BY <1>1, MulDivPriceNat DEF LockedAmount

\* The place_order circuit accepts only a note that covers the lock exactly,
\* with the change, although it compares the lock after truncating it to 64
\* bits: lock + change = note over the integers, so the lock fits 64 bits.
THEOREM LockFullyFunded ==
    ASSUME NEW n, NEW o, OrderValues(o), LockRelation(n, o)
    PROVE  /\ n.amount = LockedAmount(o) + Change(n, o)
           /\ Change(n, o) \in Amounts
           /\ LockedAmount(o) \in Amounts
<1> DEFINE L == LockedAmount(o)
           d == n.amount - L
           change == Change(n, o)
<1>1. L \in Nat
  BY LockedAmountNat
<1>2. n.amount \in Amounts /\ change \in Amounts /\ o.amount \in Amounts
      /\ o.price \in Amounts /\ change = d % FIELD
  BY DEF LockRelation, Change, assert_64
<1>3. L <= U64 * U64
  <2>1. CASE o.side = BUY
    <3>1. o.amount \in Nat /\ o.price \in Nat /\ U64 \in Nat
          /\ o.amount <= U64 /\ o.price <= U64
      BY <1>2, WidthAssumption DEF Amounts
    <3>2. o.amount * o.price \in Nat /\ o.amount * o.price <= U64 * U64
      BY <3>1, ProductMonotone
    <3>3. L = (o.amount * o.price) \div PRICE_SCALE
      BY <2>1 DEF LockedAmount, mul_div_price
    <3>4. PRICE_SCALE * L <= o.amount * o.price
      BY <3>2, <3>3, FloorBounds
    <3>5. L <= PRICE_SCALE * L
      BY <1>1, ScaleAssumption
    <3>6. PRICE_SCALE * L \in Nat /\ U64 * U64 \in Nat
      BY <1>1, <3>1, ScaleAssumption
    <3> QED
      BY <3>2, <3>4, <3>5, <3>6, <1>1
  <2>2. CASE o.side # BUY
    <3>1. L = o.amount
      BY <2>2 DEF LockedAmount
    <3>2. U64 <= U64 * U64
      BY WidthAssumption
    <3> QED
      BY <3>1, <3>2, <1>2, WidthAssumption DEF Amounts
  <2> QED
    BY <2>1, <2>2
<1>4. d \in Int /\ d < U64 /\ -(U64 * U64) <= d
  BY <1>1, <1>2, <1>3, WidthAssumption DEF Amounts
<1>5. U64 \in Nat /\ U64 * U64 \in Nat /\ U64 * U64 + U64 < FIELD
      /\ FIELD \in Nat
  BY WidthAssumption
<1>6. ASSUME d < 0 PROVE FALSE
  <2>1. d + FIELD \in 0 .. FIELD - 1 /\ U64 <= d + FIELD
    BY <1>4, <1>5, <1>6
  <2>2. d % FIELD = d + FIELD
    <3> HIDE DEF d
    <3> QED
      BY <2>1, <1>4, <1>5
  <2> QED
    BY <2>1, <2>2, <1>2, <1>4, <1>5 DEF Amounts
<1>7. d % FIELD = d
  <2>1. d \in 0 .. FIELD - 1
    BY <1>4, <1>5, <1>6
  <2> HIDE DEF d
  <2> QED
    BY <2>1, <1>5
<1>8. n.amount \in Nat /\ change \in Nat
  BY <1>2, WidthAssumption DEF Amounts
<1>9. n.amount = L + change
  BY <1>1, <1>2, <1>7, <1>8
<1> QED
  BY <1>1, <1>2, <1>9, <1>8, WidthAssumption DEF Amounts

\* The fill of two compatible orders: at most either amount, and priced, in
\* the quote asset, between the two limits.  The order of the arguments does
\* not matter, as it does not in the circuit.
LEMMA FillBounds ==
    ASSUME NEW a, NEW b, OrderValues(a), OrderValues(b), Compatible(a, b)
    PROVE  /\ Fill(a, b) \in Nat
           /\ Fill(a, b) <= a.amount /\ Fill(a, b) <= b.amount
           /\ ExecPrice(a, b) \in Nat
           /\ a.side = BUY => b.price <= ExecPrice(a, b) /\ ExecPrice(a, b) <= a.price
           /\ a.side = SELL => a.price <= ExecPrice(a, b) /\ ExecPrice(a, b) <= b.price
<1>1. /\ a.amount \in Nat /\ b.amount \in Nat /\ a.price \in Nat
      /\ b.price \in Nat
      /\ a.amount \in Amounts /\ b.amount \in Amounts
      /\ a.price \in Amounts /\ b.price \in Amounts
  BY WidthAssumption DEF OrderValues, Amounts
<1>2. Fill(a, b) = IF a.amount < b.amount THEN a.amount ELSE b.amount
  BY <1>1, Trunc64Identity DEF Fill, min64
<1>3. a.side = BUY => b.price <= a.price
  BY <1>1, Trunc64Identity DEF Compatible, geq64
<1>4. a.side = SELL => a.price <= b.price
  BY <1>1, Trunc64Identity DEF Compatible, geq64, OrderValues, BUY, SELL
<1>5. ExecPrice(a, b) \in Nat
  BY <1>1 DEF ExecPrice, midpoint
<1> QED
  BY <1>1, <1>2, <1>3, <1>4, <1>5, MidpointBetween DEF ExecPrice

\* The quote paid for a fill lies between the two floored limits of it.
THEOREM QuoteWithinLimits ==
    ASSUME NEW a, NEW b, OrderValues(a), OrderValues(b), Compatible(a, b)
    PROVE  LET fill == Fill(a, b) IN
           /\ QuoteFilled(a, b) \in Nat
           /\ a.side = BUY =>
                /\ mul_div_price(fill, b.price) <= QuoteFilled(a, b)
                /\ QuoteFilled(a, b) <= mul_div_price(fill, a.price)
           /\ a.side = SELL =>
                /\ mul_div_price(fill, a.price) <= QuoteFilled(a, b)
                /\ QuoteFilled(a, b) <= mul_div_price(fill, b.price)
<1>1. a.price \in Nat /\ b.price \in Nat
  BY WidthAssumption DEF OrderValues, Amounts
<1>2. Fill(a, b) \in Nat /\ Fill(a, b) <= Fill(a, b) /\ ExecPrice(a, b) \in Nat
  BY FillBounds
<1>3. QuoteFilled(a, b) = mul_div_price(Fill(a, b), ExecPrice(a, b))
  BY DEF QuoteFilled
<1>4. QuoteFilled(a, b) \in Nat
  BY <1>2, <1>3, MulDivPriceNat
<1>5. CASE a.side = BUY
  <2>1. b.price <= ExecPrice(a, b) /\ ExecPrice(a, b) <= a.price
    BY <1>5, FillBounds
  <2>2. mul_div_price(Fill(a, b), b.price) <= QuoteFilled(a, b)
    BY <1>1, <1>2, <1>3, <2>1, MulDivPriceMonotone
  <2>3. QuoteFilled(a, b) <= mul_div_price(Fill(a, b), a.price)
    BY <1>1, <1>2, <1>3, <2>1, MulDivPriceMonotone
  <2> QED
    BY <1>4, <1>5, <2>2, <2>3 DEF BUY, SELL
<1>6. CASE a.side = SELL
  <2>1. a.price <= ExecPrice(a, b) /\ ExecPrice(a, b) <= b.price
    BY <1>6, FillBounds
  <2>2. mul_div_price(Fill(a, b), a.price) <= QuoteFilled(a, b)
    BY <1>1, <1>2, <1>3, <2>1, MulDivPriceMonotone
  <2>3. QuoteFilled(a, b) <= mul_div_price(Fill(a, b), b.price)
    BY <1>1, <1>2, <1>3, <2>1, MulDivPriceMonotone
  <2> QED
    BY <1>4, <1>6, <2>2, <2>3 DEF BUY, SELL
<1> QED
  BY <1>4, <1>5, <1>6

\* One match takes no more out of the escrow of an order than the order
\* locked: what goes to the counterparty, the refund and what the residual
\* still locks are covered, on either side.  (settle_order)
THEOREM SettlementCovered ==
    ASSUME NEW a, NEW b, OrderValues(a), OrderValues(b), Compatible(a, b)
    PROVE  LET fill  == Fill(a, b)
               quote == QuoteFilled(a, b)
               paid  == IF a.side = BUY THEN quote ELSE fill
               rest  == ResidualAmount(a, fill)
               lock  == IF a.side = BUY THEN mul_div_price(rest, a.price)
                        ELSE rest
           IN  /\ rest \in Nat /\ lock \in Nat
               /\ RefundAmount(a, fill, quote) \in Nat
               /\ paid + RefundAmount(a, fill, quote) + lock <= LockedAmount(a)
               /\ rest = 0 =>
                    paid + RefundAmount(a, fill, quote) = LockedAmount(a)
<1> DEFINE fill  == Fill(a, b)
           quote == QuoteFilled(a, b)
           rest  == ResidualAmount(a, fill)
<1>1. a.amount \in Nat /\ a.price \in Nat
  BY WidthAssumption DEF OrderValues, Amounts
<1>2. fill \in Nat /\ fill <= a.amount
  BY FillBounds
<1>3. rest \in Nat /\ fill + rest = a.amount
  BY <1>1, <1>2 DEF ResidualAmount
<1>4. CASE a.side = BUY
  <2>1. quote \in Nat /\ quote <= mul_div_price(fill, a.price)
    BY <1>4, QuoteWithinLimits
  <2>2. /\ mul_div_price(fill, a.price) \in Nat
        /\ mul_div_price(rest, a.price) \in Nat
        /\ mul_div_price(a.amount, a.price) \in Nat
    BY <1>1, <1>2, <1>3, MulDivPriceNat
  <2>3. mul_div_price(fill, a.price) + mul_div_price(rest, a.price)
          <= mul_div_price(a.amount, a.price)
    BY <1>1, <1>2, <1>3, MulDivPriceSplit
  <2>4. LockedAmount(a) = mul_div_price(a.amount, a.price)
    BY <1>4 DEF LockedAmount
  <2>5. CASE rest = 0
    <3>1. RefundAmount(a, fill, quote) = LockedAmount(a) - quote
      BY <1>4, <2>5 DEF RefundAmount
    <3>2. fill = a.amount
      BY <1>1, <1>2, <1>3, <2>5
    <3>3. mul_div_price(rest, a.price) = 0
      <4>1. 0 * a.price = 0 /\ 0 \div PRICE_SCALE = 0
        BY <1>1, ScaleAssumption
      <4> QED
        BY <4>1, <2>5 DEF mul_div_price
    <3> HIDE DEF fill, quote, rest
    <3> QED
      BY <1>3, <1>4, <2>1, <2>2, <2>4, <2>5, <3>1, <3>2, <3>3
         DEF fill, quote, rest
  <2>6. CASE rest # 0
    <3>1. RefundAmount(a, fill, quote) = 0
      BY <2>6 DEF RefundAmount
    <3> QED
      BY <1>3, <1>4, <2>1, <2>2, <2>3, <2>4, <2>6, <3>1
  <2> QED
    BY <2>5, <2>6
<1>5. CASE a.side = SELL
  <2>1. RefundAmount(a, fill, quote) = 0 /\ LockedAmount(a) = a.amount
        /\ a.side # BUY
    BY <1>5 DEF RefundAmount, LockedAmount, BUY, SELL
  <2> QED
    BY <1>1, <1>2, <1>3, <2>1
<1> QED
  BY <1>4, <1>5 DEF OrderValues

-----------------------------------------------------------------------------
(* The laws of Total that conservation arguments use                       *)

LEMMA UnitsFinite ==
    ASSUME NEW S, IsFiniteSet(S), NEW f, \A x \in S : f[x] \in Nat
    PROVE  IsFiniteSet(Units(S, f))
<1> DEFINE rows == {{x} \X (1 .. f[x]) : x \in S}
           g == [x \in S |-> {x} \X (1 .. f[x])]
<1>1. g \in Surjection(S, rows)
  BY DEF Surjection
<1>2. IsFiniteSet(rows)
  BY <1>1, FS_Surjection
<1>3. ASSUME NEW x \in S PROVE IsFiniteSet({x} \X (1 .. f[x]))
  <2>1. IsFiniteSet(1 .. f[x])
    BY FS_Interval
  <2>2. IsFiniteSet({x})
    BY FS_Singleton
  <2> QED
    BY <2>1, <2>2, FS_Product
<1>4. \A T \in rows : IsFiniteSet(T)
  BY <1>3
<1> HIDE DEF rows
<1>5. IsFiniteSet(UNION rows)
  BY <1>2, <1>4, FS_UNION
<1> QED
  BY <1>5 DEF Units, rows

LEMMA RowSize ==
    ASSUME NEW x, NEW n \in Nat
    PROVE  /\ IsFiniteSet({x} \X (1 .. n))
           /\ Cardinality({x} \X (1 .. n)) = n
<1>1. IsFiniteSet(1 .. n) /\ Cardinality(1 .. n) = n
  BY FS_Interval
<1>2. IsFiniteSet({x}) /\ Cardinality({x}) = 1
  BY FS_Singleton
<1> QED
  BY <1>1, <1>2, FS_Product

LEMMA TotalNat ==
    ASSUME NEW S, IsFiniteSet(S), NEW f, \A x \in S : f[x] \in Nat
    PROVE  Total(S, f) \in Nat
BY UnitsFinite, FS_CardinalityType DEF Total

LEMMA TotalEmpty ==
    ASSUME NEW f
    PROVE  Total({}, f) = 0
<1>1. Units({}, f) = {}
  BY DEF Units
<1> QED
  BY <1>1, FS_EmptySet DEF Total

LEMMA TotalSubset ==
    ASSUME NEW S, IsFiniteSet(S), NEW f, \A x \in S : f[x] \in Nat,
           NEW T \in SUBSET S
    PROVE  Total(T, f) <= Total(S, f)
<1>1. Units(T, f) \in SUBSET Units(S, f)
  BY DEF Units
<1> QED
  BY <1>1, UnitsFinite, FS_Subset DEF Total

\* One more member adds its weight.
LEMMA TotalInsert ==
    ASSUME NEW S, IsFiniteSet(S), NEW f, \A x \in S : f[x] \in Nat,
           NEW y, y \notin S, f[y] \in Nat
    PROVE  Total(S \cup {y}, f) = Total(S, f) + f[y]
<1> DEFINE row == {y} \X (1 .. f[y])
<1>1. Units(S \cup {y}, f) = Units(S, f) \cup row
  BY DEF Units
<1>2. Units(S, f) \cap row = {}
  <2> SUFFICES ASSUME NEW p, p \in Units(S, f), p \in row PROVE FALSE
    OBVIOUS
  <2>1. p[1] = y
    OBVIOUS
  <2>2. PICK x \in S : p \in {x} \X (1 .. f[x])
    BY DEF Units
  <2>3. p[1] = x
    BY <2>2
  <2> QED
    BY <2>1, <2>3
<1>3. IsFiniteSet(row) /\ Cardinality(row) = f[y]
  BY RowSize
<1>4. IsFiniteSet(Units(S, f))
  BY UnitsFinite
<1> HIDE DEF row
<1>5. Cardinality(Units(S, f) \cup row)
        = Cardinality(Units(S, f)) + Cardinality(row)
          - Cardinality(Units(S, f) \cap row)
  BY <1>3, <1>4, FS_Union
<1>6. Cardinality(Units(S, f)) \in Nat
  BY <1>4, FS_CardinalityType
<1>7. Cardinality(Units(S, f) \cap row) = 0
  BY <1>2, FS_EmptySet
<1>8. Cardinality(Units(S \cup {y}, f)) = Cardinality(Units(S, f)) + f[y]
  <2>1. Cardinality(Units(S \cup {y}, f))
          = Cardinality(Units(S, f)) + f[y]
            - Cardinality(Units(S, f) \cap row)
    BY <1>1, <1>3, <1>5, Zenon
  <2>2. f[y] \in Nat
    OBVIOUS
  <2> QED
    BY <1>6, <1>7, <2>1, <2>2
<1> QED
  BY <1>8 DEF Total

LEMMA TotalAdd ==
    ASSUME NEW S, IsFiniteSet(S), NEW f, \A x \in S : f[x] \in Nat,
           NEW y, f[y] \in Nat
    PROVE  Total(S \cup {y}, f) <= Total(S, f) + f[y]
<1>1. Total(S, f) \in Nat
  BY TotalNat
<1>2. CASE y \in S
  <2>1. S \cup {y} = S
    BY <1>2
  <2> QED
    BY <1>1, <2>1
<1>3. CASE y \notin S
  BY <1>1, <1>3, TotalInsert
<1> QED
  BY <1>2, <1>3

LEMMA TotalRemove ==
    ASSUME NEW S, IsFiniteSet(S), NEW f, \A x \in S : f[x] \in Nat,
           NEW y \in S
    PROVE  Total(S \ {y}, f) = Total(S, f) - f[y]
<1>1. IsFiniteSet(S \ {y}) /\ y \notin S \ {y} /\ (S \ {y}) \cup {y} = S
  BY FS_RemoveElement
<1>2. Total((S \ {y}) \cup {y}, f) = Total(S \ {y}, f) + f[y]
  BY <1>1, TotalInsert
<1>3. Total(S \ {y}, f) \in Nat
  BY <1>1, TotalNat
<1>4. f[y] \in Nat
  OBVIOUS
<1>5. Total(S, f) = Total(S \ {y}, f) + f[y]
  BY <1>1, <1>2
<1> QED
  BY <1>3, <1>4, <1>5

\* Changing the weight of one member changes the total by the difference.
LEMMA TotalUpdate ==
    ASSUME NEW S, IsFiniteSet(S), NEW f, \A x \in S : f[x] \in Nat,
           NEW g, \A x \in S : g[x] \in Nat,
           NEW y \in S, \A x \in S \ {y} : g[x] = f[x]
    PROVE  /\ Total(S, f) \in Nat /\ Total(S, g) \in Nat
           /\ Total(S, f) >= f[y]
           /\ Total(S, g) = Total(S, f) - f[y] + g[y]
<1>1. Total(S \ {y}, f) = Total(S, f) - f[y]
  BY TotalRemove
<1>2. Total(S \ {y}, g) = Total(S, g) - g[y]
  BY TotalRemove
<1>3. Units(S \ {y}, f) = Units(S \ {y}, g)
  BY DEF Units
<1>4. Total(S \ {y}, f) = Total(S \ {y}, g)
  BY <1>3 DEF Total
<1>5. Total(S, f) \in Nat /\ Total(S, g) \in Nat
  BY TotalNat
<1>6. IsFiniteSet(S \ {y}) /\ (\A x \in S \ {y} : f[x] \in Nat)
  BY FS_RemoveElement
<1>7. Total(S \ {y}, f) \in Nat
  BY <1>6, TotalNat
<1> QED
  BY <1>1, <1>2, <1>4, <1>5, <1>7

-----------------------------------------------------------------------------
(* Induction                                                               *)

\* Every set of numbers that is not empty has a least element.
LEMMA Least ==
    ASSUME NEW T \in SUBSET Nat, T # {}
    PROVE  \E m \in T : \A n \in T : m <= n
<1> DEFINE R == {p \in Nat \X Nat : p[1] < p[2]}
<1>1. IsWellFoundedOn(R, Nat)
  BY NatLessThanWellFounded DEF OpToRel
<1>2. PICK x \in T : \A y \in T : ~ (<<y, x>> \in R)
  <2> HIDE DEF R
  <2> QED
    BY <1>1, WFMin
<1>3. ASSUME NEW y \in T PROVE x <= y
  <2>1. <<y, x>> \in Nat \X Nat /\ ~ (<<y, x>> \in R)
    BY <1>2
  <2>2. ~ (y < x)
    BY <2>1, Zenon
  <2> QED
    BY <2>2
<1> QED
  BY <1>3

\* Induction up to n, for a set instead of a predicate.
LEMMA UpTo ==
    ASSUME NEW n \in Nat, NEW T, 0 \in T,
           \A k \in 0 .. n - 1 : k \in T => k + 1 \in T
    PROVE  \A k \in 0 .. n : k \in T
<1> DEFINE Missing == {k \in 0 .. n : k \notin T}
<1>1. CASE Missing # {}
  <2>1. PICK m \in Missing : \A k \in Missing : m <= k
    <3>1. Missing \in SUBSET Nat
      OBVIOUS
    <3> HIDE DEF Missing
    <3> QED
      BY <1>1, <3>1, Least
  <2>2. m # 0 /\ m \in 0 .. n /\ m \notin T
    OBVIOUS
  <2>3. m - 1 \in 0 .. n - 1 /\ (m - 1) + 1 = m
    BY <2>2
  <2>4. m - 1 \notin Missing
    BY <2>1, <2>3
  <2>5. m - 1 \in T
    BY <2>3, <2>4
  <2> QED
    BY <2>2, <2>3, <2>5
<1> QED
  BY <1>1
=============================================================================
