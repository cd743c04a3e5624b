--------------------------- MODULE SwapArithmetic ---------------------------
(***************************************************************************)
(* The integer arithmetic of the dark pool, as the Noir circuits constrain *)
(* it: floor division by PRICE_SCALE, the floored midpoint, the truncating *)
(* 64-bit casts of wraith_lib and the settlement of one order of a match.  *)
(* Orders and notes are records; a commitment is the record it opens to    *)
(* (Poseidon2 is taken to be injective).  The modules that hold state      *)
(* (RestingOrder, WraithPool) are built on these operators.                *)
(***************************************************************************)
EXTENDS Integers

CONSTANTS
    PRICE_SCALE,   \* the fixed-point scale of prices (10^7 in the circuits)
    U64,           \* the number of 64-bit values (2^64 in the circuits)
    FIELD          \* the size of the circuits' scalar field (BN254)

ASSUME ScaleAssumption == PRICE_SCALE \in Nat \ {0}
ASSUME WidthAssumption ==
    /\ U64 \in Nat \ {0}
    /\ FIELD \in Nat
    /\ U64 * U64 + U64 < FIELD

Amounts == 0 .. U64 - 1
Field == 0 .. FIELD - 1

-----------------------------------------------------------------------------
(* wraith_lib: range check, truncating comparisons, floor arithmetic       *)

assert_64(x) == x \in Amounts
trunc64(x) == x % U64
geq64(a, b) == trunc64(a) >= trunc64(b)
min64(a, b) == IF trunc64(a) < trunc64(b) THEN trunc64(a) ELSE trunc64(b)
midpoint(a, b) == (a + b) \div 2
mul_div_price(a, b) == (a * b) \div PRICE_SCALE

-----------------------------------------------------------------------------
(* What an order locks: a buy its floored quote cost, a sell its base      *)

BUY == 0
SELL == 1

LockedAmount(o) == IF o.side = BUY THEN mul_div_price(o.amount, o.price)
                   ELSE o.amount
LockedAsset(o) == IF o.side = BUY THEN o.quote ELSE o.base

\* The change of a note behind an order: a subtraction in the field.
Change(note, o) == (note.amount - LockedAmount(o)) % FIELD

LockRelation_NoRangeCheck(note, o) ==
    /\ assert_64(note.amount) /\ assert_64(o.amount) /\ assert_64(o.price)
    /\ note.asset = LockedAsset(o)
    /\ geq64(note.amount, LockedAmount(o))

\* The amounts of the place_order circuit: the note backs the order, and the
\* rest is change.  geq64 casts the 128-bit lock down to 64 bits; it is the
\* range check on the change that rules out a note that does not cover it.
LockRelation(note, o) ==
    /\ assert_64(note.amount) /\ assert_64(o.amount) /\ assert_64(o.price)
    /\ assert_64(Change(note, o))
    /\ note.asset = LockedAsset(o)
    /\ geq64(note.amount, LockedAmount(o))

-----------------------------------------------------------------------------
(* One match of a buy and a sell                                           *)

Compatible_AnyPrice(a, b) ==
    /\ a.side # b.side
    /\ a.base = b.base /\ a.quote = b.quote
    /\ assert_64(a.price) /\ assert_64(b.price)
    /\ assert_64(a.amount) /\ assert_64(b.amount)

Compatible(a, b) ==
    /\ a.side # b.side
    /\ a.base = b.base /\ a.quote = b.quote
    /\ assert_64(a.price) /\ assert_64(b.price)
    /\ assert_64(a.amount) /\ assert_64(b.amount)
    /\ LET buy == IF a.side = BUY THEN a ELSE b
           sell == IF a.side = BUY THEN b ELSE a
       IN geq64(buy.price, sell.price)

ExecPrice(a, b) == midpoint(a.price, b.price)
Fill(a, b) == min64(a.amount, b.amount)

QuoteFilled_DivideFirst(a, b) == (Fill(a, b) \div PRICE_SCALE) * ExecPrice(a, b)
QuoteFilled(a, b) == mul_div_price(Fill(a, b), ExecPrice(a, b))

\* settle_order: what is left of one order, and the refund of the price
\* improvement, which only a buy that is filled completely receives.
ResidualAmount(o, fill) == o.amount - fill

RefundAmount_OnPartial(o, fill, quote) ==
    IF o.side = BUY THEN LockedAmount(o) - quote ELSE 0
RefundAmount_Never(o, fill, quote) == 0
RefundAmount(o, fill, quote) ==
    IF ResidualAmount(o, fill) = 0 /\ o.side = BUY
    THEN LockedAmount(o) - quote ELSE 0

\* The range checks the match_orders circuit makes on the outcome.
MatchFits(a, b) ==
    /\ assert_64(Fill(a, b))
    /\ assert_64(QuoteFilled(a, b))
    /\ assert_64(ResidualAmount(a, Fill(a, b)))
    /\ assert_64(ResidualAmount(b, Fill(a, b)))
=============================================================================
