--------------------------- MODULE MatchingEngine ---------------------------
(***************************************************************************)
(* The economics of matcher/src/engine.ts, and its price-time priority.    *)
(* The matcher computes with unbounded integers what the match_orders      *)
(* circuit computes with field elements, casts and range checks; a         *)
(* settlement whose amounts differ is one that cannot be proved.           *)
(***************************************************************************)
EXTENDS SwapArithmetic, SequencesExt

settleOrder_AnyRefund(o, fill, quoteFilled) ==
    LET residual == o.amount - fill
        refund == (o.amount * o.price) \div PRICE_SCALE - quoteFilled
    IN [residualAmount |-> residual,
        refundAmount |-> IF o.side = BUY /\ refund > 0 THEN refund ELSE 0]

settleOrder(o, fill, quoteFilled) ==
    LET residual == o.amount - fill
        refund == (o.amount * o.price) \div PRICE_SCALE - quoteFilled
    IN [residualAmount |-> residual,
        refundAmount |-> IF residual = 0 /\ o.side = BUY /\ refund > 0
                         THEN refund ELSE 0]

computeMatch(buy, sell) ==
    LET execPrice == (buy.price + sell.price) \div 2
        fill == IF buy.amount < sell.amount THEN buy.amount ELSE sell.amount
        quoteFilled == (fill * execPrice) \div PRICE_SCALE
    IN [buy |-> buy, sell |-> sell, fill |-> fill, quoteFilled |-> quoteFilled,
        a |-> settleOrder(buy, fill, quoteFilled),
        b |-> settleOrder(sell, fill, quoteFilled)]

-----------------------------------------------------------------------------
(* The book: its entries are orders with their sequence numbers            *)

ByBuyPriority(x, y) ==
    \/ x.order.price > y.order.price
    \/ x.order.price = y.order.price /\ x.seq < y.seq
BySellPriority_LastFirst(x, y) ==
    \/ x.order.price < y.order.price
    \/ x.order.price = y.order.price /\ x.seq > y.seq
BySellPriority(x, y) ==
    \/ x.order.price < y.order.price
    \/ x.order.price = y.order.price /\ x.seq < y.seq

Book(entries, side, pair) ==
    {e \in entries : e.order.side = side /\ <<e.order.base, e.order.quote>> = pair}

\* The comparison of two entries of one side.
Precedes(x, y) == IF x.order.side = BUY THEN ByBuyPriority(x, y)
                  ELSE BySellPriority(x, y)

\* The i-th entry is the one that i - 1 others precede.
Sorted(entries) ==
    [i \in 1 .. Cardinality(entries) |->
       CHOOSE x \in entries : Cardinality({y \in entries : Precedes(y, x)}) = i - 1]

Crosses_Strictly(buy, sell) == buy.price > sell.price
Crosses(buy, sell) == buy.price >= sell.price

\* Best buy against best sell, second best against second best, and so on
\* until a pair does not cross.
PairMatches(entries, pair) ==
    LET buys == Sorted(Book(entries, BUY, pair))
        sells == Sorted(Book(entries, SELL, pair))
        cross(i) == Crosses(buys[i].order, sells[i].order)
        reached == {i \in DOMAIN buys \cap DOMAIN sells : \A j \in 1 .. i : cross(j)}
    IN [i \in reached |-> computeMatch(buys[i].order, sells[i].order)]

\* The order of the pairs is that of a hash map: any.
findMatches(entries) ==
    {FlattenSeq([i \in DOMAIN pairs |-> PairMatches(entries, pairs[i])]) :
        pairs \in SetToSeqs({<<e.order.base, e.order.quote>> : e \in entries})}

-----------------------------------------------------------------------------
(* What the prover needs: the relation of the match_orders circuit         *)

Settles(order, outcome, fill, quote) ==
    /\ outcome.residualAmount = ResidualAmount(order, fill)
    /\ outcome.refundAmount = RefundAmount(order, fill, quote)

Provable(m) ==
    /\ Compatible(m.buy, m.sell)
    /\ MatchFits(m.buy, m.sell)
    /\ m.fill = Fill(m.buy, m.sell)
    /\ m.quoteFilled = QuoteFilled(m.buy, m.sell)
    /\ Settles(m.buy, m.a, m.fill, m.quoteFilled)
    /\ Settles(m.sell, m.b, m.fill, m.quoteFilled)
=============================================================================
