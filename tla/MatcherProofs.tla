---------------------------- MODULE MatcherProofs ----------------------------
(* The matching service: its memos reach the owners, its arithmetic is the    *)
(* circuit's, a pass matches in price-time priority and no order is claimed   *)
(* twice, for every scale, width, set of offers and number of failures.       *)
EXTENDS Matcher, ArithmeticProofs, SequenceTheorems

-----------------------------------------------------------------------------
(* Settlement: each owner finds what a settlement gave him.  The memos of the *)
(* matcher, the outputs of the pool and the wallet's trials line up, whatever *)
(* the prices, the amounts and the rounding make of residuals and refunds.    *)

\* A memo beside a leaf, or beside a residual order, opens for its owner only.
NoteFound(who, c, memo) ==
    ownTransferOutput(who, c, memo) <=> c.opening.owner = who
OrderFound(who, c, memo) ==
    recoverResidualOrder(who, memo)
      = IF c.opening.owner = who THEN {StoredOrder(c)} ELSE {}

\* An output that may be missing, and its memo.
OptionalNote(who, cs, ms) ==
    \/ cs = <<>> /\ ms = <<>>
    \/ \E c, x : cs = <<c>> /\ ms = <<x>> /\ NoteFound(who, c, x)
OptionalOrder(who, cs, ms) ==
    \/ cs = <<>> /\ ms = <<>>
    \/ \E c, x : cs = <<c>> /\ ms = <<x>> /\ OrderFound(who, c, x)

-----------------------------------------------------------------------------
(* One output                                                              *)

LEMMA KeysDiffer ==
    ASSUME NEW who, NEW o
    PROVE  encPubOf(o) = deriveEncKeypair(who).pub <=> o.owner = who
BY DEF encPubOf, encodeReceiveCode, deriveEncKeypair

LEMMA SealedNoteFound ==
    ASSUME NEW who, NEW o, NEW n, n.owner = o.owner
    PROVE  NoteFound(who, computeCommitment(n),
                     noteMemo(encPubOf(o), n, computeCommitment(n)))
BY KeysDiffer
DEF NoteFound, ownTransferOutput, decryptNote, open, noteMemo, seal, computeCommitment

LEMMA SealedOrderFound ==
    ASSUME NEW who, NEW o, NEW r, r.owner = o.owner, r.side \in {BUY, SELL}
    PROVE  OrderFound(who, computeOrderCommitment(r),
                      orderMemo(encPubOf(o), r, computeOrderCommitment(r)))
<1> DEFINE c == computeOrderCommitment(r)
           memo == orderMemo(encPubOf(o), r, c)
<1>1. /\ memo.to = encPubOf(o)
      /\ memo.payload = [kind |-> "order", opening |-> r, commitment |-> c]
  BY DEF orderMemo, seal
<1>2. c.opening = r
  BY DEF computeOrderCommitment
<1>3. decryptOrder(deriveEncKeypair(who), memo) <=> r.owner = who
  BY <1>1, KeysDiffer DEF decryptOrder, open
<1>4. StoredOrder(c) = [commitment |-> c, order |-> r,
                        lockedAsset |-> IF r.side = SELL THEN r.base ELSE r.quote,
                        lockedAmount |-> IF r.side = SELL THEN r.amount
                                         ELSE (r.amount * r.price) \div PRICE_SCALE]
  BY <1>2 DEF StoredOrder, LockedAsset, LockedAmount, mul_div_price, BUY, SELL
<1> HIDE DEF c, memo
<1>5. OrderFound(who, c, memo)
  BY <1>1, <1>2, <1>3, <1>4 DEF OrderFound, recoverResidualOrder
<1> QED
  BY <1>5 DEF c, memo

\* The refund of one order: there on both sides, or on neither.
LEMMA RefundFound ==
    ASSUME NEW who, NEW o, NEW outcome, NEW blinding, NEW c,
           c = IF outcome.refundAmount # 0
               THEN computeCommitment(Note(o.quote, outcome.refundAmount,
                                           o.owner, blinding))
               ELSE Nothing
    PROVE  OptionalNote(who, opt_nonzero(c), refundMemo(o, outcome, blinding, c))
<1>1. CASE outcome.refundAmount = 0
  BY <1>1 DEF opt_nonzero, refundMemo, OptionalNote
<1>2. CASE outcome.refundAmount # 0
  <2> DEFINE n == Note(o.quote, outcome.refundAmount, o.owner, blinding)
  <2>1. n.owner = o.owner
    BY DEF Note
  <2>2. c = computeCommitment(n) /\ c # Nothing
    BY <1>2 DEF computeCommitment, Nothing
  <2>3. refundMemo(o, outcome, blinding, c) = <<noteMemo(encPubOf(o), n, c)>>
    BY <1>2 DEF refundMemo, fillMemo
  <2> HIDE DEF n
  <2>4. NoteFound(who, c, noteMemo(encPubOf(o), n, c))
    BY <2>1, <2>2, SealedNoteFound
  <2> QED
    BY <2>2, <2>3, <2>4 DEF opt_nonzero, OptionalNote
<1> QED
  BY <1>1, <1>2

\* The residual of one order: active and delivered, or neither.
LEMMA ResidualFound ==
    ASSUME NEW who, NEW o, NEW outcome, NEW nonce, NEW c,
           Residual(o, outcome, nonce).owner = o.owner,
           Residual(o, outcome, nonce).side \in {BUY, SELL},
           c = IF outcome.residualAmount # 0
               THEN computeOrderCommitment(Residual(o, outcome, nonce))
               ELSE Nothing
    PROVE  OptionalOrder(who, opt_nonzero(c), residualMemo(o, outcome, nonce, c))
<1>1. CASE outcome.residualAmount = 0
  BY <1>1 DEF opt_nonzero, residualMemo, OptionalOrder
<1>2. CASE outcome.residualAmount # 0
  <2> DEFINE r == Residual(o, outcome, nonce)
  <2>1. c = computeOrderCommitment(r) /\ c # Nothing
    BY <1>2 DEF computeOrderCommitment, Nothing
  <2>2. residualMemo(o, outcome, nonce, c) = <<orderMemo(encPubOf(o), r, c)>>
    BY <1>2 DEF residualMemo
  <2> HIDE DEF r
  <2>3. OrderFound(who, c, orderMemo(encPubOf(o), r, c))
    BY <2>1, SealedOrderFound DEF r
  <2> QED
    BY <2>1, <2>2, <2>3 DEF opt_nonzero, OptionalOrder
<1> QED
  BY <1>1, <1>2

-----------------------------------------------------------------------------
(* The lists                                                               *)

LEMMA LeavesFound ==
    ASSUME NEW who, NEW c1, NEW c2, NEW m1, NEW m2,
           NEW cs, NEW ms, NEW ds, NEW ns,
           NoteFound(who, c1, m1), NoteFound(who, c2, m2),
           OptionalNote(who, cs, ms), OptionalNote(who, ds, ns)
    PROVE  LET outputs == <<c1, c2>> \o cs \o ds
               memos == <<m1, m2>> \o ms \o ns
           IN /\ Len(memos) = Len(outputs)
              /\ \A i \in DOMAIN outputs : NoteFound(who, outputs[i], memos[i])
<1>1. CASE cs = <<>> /\ ms = <<>> /\ ds = <<>> /\ ns = <<>>
  BY <1>1
<1>2. ASSUME NEW c, NEW x, cs = <<>>, ms = <<>>, ds = <<c>>, ns = <<x>>,
             NoteFound(who, c, x)
      PROVE  LET outputs == <<c1, c2>> \o cs \o ds
                 memos == <<m1, m2>> \o ms \o ns
             IN /\ Len(memos) = Len(outputs)
                /\ \A i \in DOMAIN outputs : NoteFound(who, outputs[i], memos[i])
  BY <1>2
<1>3. ASSUME NEW c, NEW x, cs = <<c>>, ms = <<x>>, ds = <<>>, ns = <<>>,
             NoteFound(who, c, x)
      PROVE  LET outputs == <<c1, c2>> \o cs \o ds
                 memos == <<m1, m2>> \o ms \o ns
             IN /\ Len(memos) = Len(outputs)
                /\ \A i \in DOMAIN outputs : NoteFound(who, outputs[i], memos[i])
  BY <1>3
<1>4. ASSUME NEW c, NEW x, cs = <<c>>, ms = <<x>>, NoteFound(who, c, x),
             NEW d, NEW y, ds = <<d>>, ns = <<y>>, NoteFound(who, d, y)
      PROVE  LET outputs == <<c1, c2>> \o cs \o ds
                 memos == <<m1, m2>> \o ms \o ns
             IN /\ Len(memos) = Len(outputs)
                /\ \A i \in DOMAIN outputs : NoteFound(who, outputs[i], memos[i])
  BY <1>4
<1> QED
  BY <1>1, <1>2, <1>3, <1>4 DEF OptionalNote

LEMMA ResidualsFound ==
    ASSUME NEW who, NEW cs, NEW ms, NEW ds, NEW ns,
           OptionalOrder(who, cs, ms), OptionalOrder(who, ds, ns)
    PROVE  LET outputs == cs \o ds
               memos == ms \o ns
           IN /\ Len(memos) = Len(outputs)
              /\ \A j \in DOMAIN outputs : OrderFound(who, outputs[j], memos[j])
<1>1. CASE cs = <<>> /\ ms = <<>> /\ ds = <<>> /\ ns = <<>>
  BY <1>1
<1>2. ASSUME NEW c, NEW x, cs = <<>>, ms = <<>>, ds = <<c>>, ns = <<x>>,
             OrderFound(who, c, x)
      PROVE  LET outputs == cs \o ds
                 memos == ms \o ns
             IN /\ Len(memos) = Len(outputs)
                /\ \A j \in DOMAIN outputs : OrderFound(who, outputs[j], memos[j])
  BY <1>2
<1>3. ASSUME NEW c, NEW x, cs = <<c>>, ms = <<x>>, ds = <<>>, ns = <<>>,
             OrderFound(who, c, x)
      PROVE  LET outputs == cs \o ds
                 memos == ms \o ns
             IN /\ Len(memos) = Len(outputs)
                /\ \A j \in DOMAIN outputs : OrderFound(who, outputs[j], memos[j])
  BY <1>3
<1>4. ASSUME NEW c, NEW x, cs = <<c>>, ms = <<x>>, OrderFound(who, c, x),
             NEW d, NEW y, ds = <<d>>, ns = <<y>>, OrderFound(who, d, y)
      PROVE  LET outputs == cs \o ds
                 memos == ms \o ns
             IN /\ Len(memos) = Len(outputs)
                /\ \A j \in DOMAIN outputs : OrderFound(who, outputs[j], memos[j])
  BY <1>4
<1> QED
  BY <1>1, <1>2, <1>3, <1>4 DEF OptionalOrder

-----------------------------------------------------------------------------
\* The memos of a settlement are as many as its outputs, and each opens for
\* the owner of the output beside it and for nobody else of the two, whichever
\* of the reborn and refunds there are.
THEOREM SettlementIsDelivered ==
    ASSUME NEW m,
           m.buy.quote = m.sell.quote,
           \A o \in {m.buy, m.sell} : \A outcome, nonce :
             /\ Residual(o, outcome, nonce).owner = o.owner
             /\ Residual(o, outcome, nonce).side \in {BUY, SELL}
    PROVE  Delivered(m)
<1> DEFINE bl == fillBlindings(m)
           pub == assembleMatchInputs(m)
           memos == buildMatchMemos(m)
           leaves == leaf_commitments(pub)
           reborn == residual_commitments(pub)
<1>1. ASSUME NEW who
      PROVE  /\ MemosBound(pub, memos)
             /\ \A i \in DOMAIN leaves : NoteFound(who, leaves[i], memos.leafMemos[i])
             /\ \A j \in DOMAIN reborn :
                  OrderFound(who, reborn[j], memos.residualMemos[j])
  <2> DEFINE fill == fillMemo(m.buy, m.buy.base, m.fill, bl.buyerFill, pub.fill_buyer)
             quote == fillMemo(m.sell, m.sell.quote, m.quoteFilled, bl.sellerFill,
                               pub.fill_seller)
             ra == refundMemo(m.buy, m.a, bl.refundA, pub.refund_a)
             rb == refundMemo(m.sell, m.b, bl.refundB, pub.refund_b)
             oa == residualMemo(m.buy, m.a, bl.residualANonce, pub.residual_a)
             ob == residualMemo(m.sell, m.b, bl.residualBNonce, pub.residual_b)
  <2>1. NoteFound(who, pub.fill_buyer, fill)
    <3> DEFINE n == Note(m.buy.base, m.fill, m.buy.owner, bl.buyerFill)
    <3>1. n.owner = m.buy.owner
      BY DEF Note
    <3>2. pub.fill_buyer = computeCommitment(n)
      BY DEF assembleMatchInputs
    <3>3. fill = noteMemo(encPubOf(m.buy), n, pub.fill_buyer)
      BY DEF fillMemo
    <3> HIDE DEF n, fill, pub
    <3> QED
      BY <3>1, <3>2, <3>3, SealedNoteFound
  <2>2. NoteFound(who, pub.fill_seller, quote)
    <3> DEFINE n == Note(m.sell.quote, m.quoteFilled, m.sell.owner, bl.sellerFill)
    <3>1. n.owner = m.sell.owner
      BY DEF Note
    <3>2. pub.fill_seller = computeCommitment(n)
      BY DEF assembleMatchInputs
    <3>3. quote = noteMemo(encPubOf(m.sell), n, pub.fill_seller)
      BY DEF fillMemo
    <3> HIDE DEF n, quote, pub
    <3> QED
      BY <3>1, <3>2, <3>3, SealedNoteFound
  <2>3. /\ OptionalNote(who, opt_nonzero(pub.refund_a), ra)
        /\ OptionalNote(who, opt_nonzero(pub.refund_b), rb)
    <3>1. /\ pub.refund_a = IF m.a.refundAmount # 0
                            THEN computeCommitment(Note(m.buy.quote, m.a.refundAmount,
                                                        m.buy.owner, bl.refundA))
                            ELSE Nothing
          /\ pub.refund_b = IF m.b.refundAmount # 0
                            THEN computeCommitment(Note(m.sell.quote, m.b.refundAmount,
                                                        m.sell.owner, bl.refundB))
                            ELSE Nothing
      BY DEF assembleMatchInputs
    <3> HIDE DEF pub, bl
    <3> QED
      BY <3>1, RefundFound
  <2>4. /\ OptionalOrder(who, opt_nonzero(pub.residual_a), oa)
        /\ OptionalOrder(who, opt_nonzero(pub.residual_b), ob)
    <3>1. /\ pub.residual_a = IF m.a.residualAmount # 0
                              THEN computeOrderCommitment(
                                     Residual(m.buy, m.a, bl.residualANonce))
                              ELSE Nothing
          /\ pub.residual_b = IF m.b.residualAmount # 0
                              THEN computeOrderCommitment(
                                     Residual(m.sell, m.b, bl.residualBNonce))
                              ELSE Nothing
      BY DEF assembleMatchInputs
    <3> HIDE DEF pub, bl
    <3> QED
      BY <3>1, ResidualFound
  <2>5. /\ memos.leafMemos = <<fill, quote>> \o ra \o rb
        /\ memos.residualMemos = oa \o ob
    BY DEF buildMatchMemos, leafMemos, residualMemos
  <2>6. /\ leaves = <<pub.fill_buyer, pub.fill_seller>>
                     \o opt_nonzero(pub.refund_a) \o opt_nonzero(pub.refund_b)
        /\ reborn = opt_nonzero(pub.residual_a) \o opt_nonzero(pub.residual_b)
    BY DEF leaf_commitments, residual_commitments
  <2> HIDE DEF bl, pub, memos, leaves, reborn, fill, quote, ra, rb, oa, ob
  <2>7. /\ Len(memos.leafMemos) = Len(leaves)
        /\ \A i \in DOMAIN leaves : NoteFound(who, leaves[i], memos.leafMemos[i])
    <3> DEFINE outputs == <<pub.fill_buyer, pub.fill_seller>>
                            \o opt_nonzero(pub.refund_a) \o opt_nonzero(pub.refund_b)
               sealed == <<fill, quote>> \o ra \o rb
    <3>1. /\ Len(sealed) = Len(outputs)
          /\ \A i \in DOMAIN outputs : NoteFound(who, outputs[i], sealed[i])
      BY <2>1, <2>2, <2>3, LeavesFound
    <3> QED
      BY <3>1, <2>5, <2>6
  <2>8. /\ Len(memos.residualMemos) = Len(reborn)
        /\ \A j \in DOMAIN reborn :
             OrderFound(who, reborn[j], memos.residualMemos[j])
    BY <2>4, <2>5, <2>6, ResidualsFound
  <2> QED
    BY <2>7, <2>8 DEF MemosBound, leaves, reborn
<1> HIDE DEF pub, memos, leaves, reborn
<1>2. ASSUME NEW who
      PROVE  UNION {recoverResidualOrder(who, memos.residualMemos[j]) :
                      j \in DOMAIN reborn}
               = {StoredOrder(reborn[j]) :
                    j \in {k \in DOMAIN reborn : reborn[k].opening.owner = who}}
  <2>1. \A j \in DOMAIN reborn :
          recoverResidualOrder(who, memos.residualMemos[j])
            = IF reborn[j].opening.owner = who THEN {StoredOrder(reborn[j])} ELSE {}
    BY <1>1 DEF OrderFound
  <2> DEFINE found(j) == recoverResidualOrder(who, memos.residualMemos[j])
  <2>2. \A x : (\E j \in DOMAIN reborn : x \in found(j))
               <=> \E j \in DOMAIN reborn :
                     reborn[j].opening.owner = who /\ x = StoredOrder(reborn[j])
    BY <2>1
  <2> HIDE DEF found
  <2>3. UNION {found(j) : j \in DOMAIN reborn}
          = {StoredOrder(reborn[j]) :
               j \in {k \in DOMAIN reborn : reborn[k].opening.owner = who}}
    BY <2>2
  <2> QED
    BY <2>3 DEF found
<1>3. ASSUME NEW who, NEW i \in DOMAIN leaves
      PROVE  ownTransferOutput(who, leaves[i], memos.leafMemos[i])
               <=> leaves[i].opening.owner = who
  BY <1>1 DEF NoteFound
<1> QED
  BY <1>1, <1>2, <1>3 DEF Delivered, pub, memos, leaves, reborn

-----------------------------------------------------------------------------
(* The engine and the circuit                                              *)

\* Between two values that both fit 64 bits the truncating comparisons of the
\* circuit are the comparisons of the engine, so both find the same fill,
\* price and quote; the lock of the buy bounds the quote below 2^64.
THEOREM CrossingIsProvable ==
    ASSUME NEW buy, NEW sell, OrderValues(buy), OrderValues(sell),
           buy.side = BUY, sell.side = SELL,
           buy.base = sell.base, buy.quote = sell.quote,
           buy.price >= sell.price, LockedAmount(buy) \in Amounts
    PROVE  Provable(computeMatch(buy, sell))
<1> DEFINE fill == Fill(buy, sell)
           quote == QuoteFilled(buy, sell)
           m == computeMatch(buy, sell)
<1>1. /\ buy.amount \in Nat /\ sell.amount \in Nat
      /\ buy.price \in Nat /\ sell.price \in Nat
      /\ buy.amount \in Amounts /\ sell.amount \in Amounts
      /\ buy.price \in Amounts /\ sell.price \in Amounts
  BY WidthAssumption DEF OrderValues, Amounts
<1>2. BUY # SELL
  BY DEF BUY, SELL
<1>3. Compatible(buy, sell)
  BY <1>1, <1>2, Trunc64Identity DEF Compatible, assert_64, geq64
<1>4. fill = IF buy.amount < sell.amount THEN buy.amount ELSE sell.amount
  BY <1>1, Trunc64Identity DEF Fill, min64
<1>5. quote = (fill * ((buy.price + sell.price) \div 2)) \div PRICE_SCALE
  BY DEF QuoteFilled, mul_div_price, ExecPrice, midpoint
<1>6. /\ fill \in Nat /\ fill <= buy.amount /\ fill <= sell.amount
      /\ fill \in Amounts
  BY <1>1, <1>4
<1>7. /\ ResidualAmount(buy, fill) \in Amounts
      /\ ResidualAmount(sell, fill) \in Amounts
  BY <1>1, <1>6, WidthAssumption DEF ResidualAmount, Amounts
<1>8. /\ quote \in Nat
      /\ RefundAmount(buy, fill, quote) \in Nat
      /\ quote <= LockedAmount(buy)
  <2>1. /\ quote \in Nat
        /\ quote <= mul_div_price(fill, buy.price)
    BY <1>3, QuoteWithinLimits
  <2>2. /\ RefundAmount(buy, fill, quote) \in Nat
        /\ ResidualAmount(buy, fill) \in Nat
        /\ mul_div_price(ResidualAmount(buy, fill), buy.price) \in Nat
        /\ quote + RefundAmount(buy, fill, quote)
             + mul_div_price(ResidualAmount(buy, fill), buy.price)
             <= LockedAmount(buy)
    BY <1>3, SettlementCovered
  <2>3. LockedAmount(buy) \in Nat
    BY LockedAmountNat
  <2> HIDE DEF fill, quote
  <2> QED
    BY <2>1, <2>2, <2>3
<1>9. quote \in Amounts
  BY <1>8, WidthAssumption DEF Amounts
<1>10. MatchFits(buy, sell)
  BY <1>6, <1>7, <1>9 DEF MatchFits, assert_64
<1>11. /\ m.buy = buy /\ m.sell = sell
       /\ m.fill = fill /\ m.quoteFilled = quote
       /\ m.a = settleOrder(buy, fill, quote)
       /\ m.b = settleOrder(sell, fill, quote)
  BY <1>4, <1>5 DEF computeMatch
<1>12. Settles(buy, settleOrder(buy, fill, quote), fill, quote)
  <2>1. LockedAmount(buy) = (buy.amount * buy.price) \div PRICE_SCALE
    BY DEF LockedAmount, mul_div_price
  <2>2. ResidualAmount(buy, fill) = 0 =>
          RefundAmount(buy, fill, quote) = LockedAmount(buy) - quote
    BY DEF RefundAmount
  <2>3. ResidualAmount(buy, fill) # 0 => RefundAmount(buy, fill, quote) = 0
    BY DEF RefundAmount
  <2>4. LockedAmount(buy) \in Nat
    BY LockedAmountNat
  <2> HIDE DEF fill, quote
  <2> QED
    BY <1>8, <2>1, <2>2, <2>3, <2>4 DEF Settles, settleOrder, ResidualAmount
<1>13. Settles(sell, settleOrder(sell, fill, quote), fill, quote)
  BY <1>2 DEF Settles, settleOrder, ResidualAmount, RefundAmount
<1> HIDE DEF fill, quote, m
<1> QED
  <2>1. Provable(m)
    BY <1>3, <1>10, <1>11, <1>12, <1>13, <1>4, <1>5 DEF Provable, fill, quote
  <2> QED
    BY <2>1 DEF m

-----------------------------------------------------------------------------
(* One side of the book of a pair, and what sorting makes of it            *)

\* Entries of one side, told apart by their sequence numbers.
OneSide(S) == /\ IsFiniteSet(S)
              /\ S \subseteq Entries
              /\ \A x, y \in S : x.order.side = y.order.side
              /\ \A x, y \in S : x.seq = y.seq => x = y

Ahead(S, x) == {y \in S : Precedes(y, x)}

LEMMA PrecedesIsTotal ==
    ASSUME NEW S, OneSide(S)
    PROVE  /\ \A x \in S : ~ Precedes(x, x)
           /\ \A x, y \in S : x = y \/ Precedes(x, y) \/ Precedes(y, x)
           /\ \A x, y, z \in S : Precedes(x, y) /\ Precedes(y, z) => Precedes(x, z)
<1>1. \A x \in S : x.order.price \in Int /\ x.seq \in Int
  BY WidthAssumption DEF OneSide, Entries, Orders, Amounts
<1> QED
  BY <1>1 DEF OneSide, Precedes, ByBuyPriority, BySellPriority

\* How many come first says which place an entry has, and every place is taken.
LEMMA Ranking ==
    ASSUME NEW S, OneSide(S)
    PROVE  /\ \A x \in S : Cardinality(Ahead(S, x)) \in 0 .. Cardinality(S) - 1
           /\ \A x, y \in S : Precedes(x, y) =>
                Cardinality(Ahead(S, x)) < Cardinality(Ahead(S, y))
           /\ \A i \in 1 .. Cardinality(S) :
                \E x \in S : Cardinality(Ahead(S, x)) = i - 1
<1> DEFINE n == Cardinality(S)
           f == [x \in S |-> Cardinality(Ahead(S, x)) + 1]
<1>1. IsFiniteSet(S) /\ n \in Nat
  BY FS_CardinalityType DEF OneSide
<1>2. ASSUME NEW x \in S
      PROVE  /\ IsFiniteSet(Ahead(S, x))
             /\ Cardinality(Ahead(S, x)) \in Nat
             /\ Cardinality(Ahead(S, x)) < n
  <2>1. Ahead(S, x) \in SUBSET S /\ x \notin Ahead(S, x)
    BY PrecedesIsTotal DEF Ahead
  <2>2. /\ IsFiniteSet(Ahead(S, x))
        /\ Cardinality(Ahead(S, x)) <= n
        /\ Cardinality(Ahead(S, x)) # n
    BY <1>1, <2>1, FS_Subset
  <2>3. Cardinality(Ahead(S, x)) \in Nat
    BY <2>2, FS_CardinalityType
  <2> QED
    BY <1>1, <2>2, <2>3
<1>3. ASSUME NEW x \in S, NEW y \in S, Precedes(x, y)
      PROVE  Cardinality(Ahead(S, x)) < Cardinality(Ahead(S, y))
  <2>1. /\ Ahead(S, x) \in SUBSET Ahead(S, y)
        /\ x \in Ahead(S, y) /\ x \notin Ahead(S, x)
    BY <1>3, PrecedesIsTotal DEF Ahead
  <2>2. /\ Cardinality(Ahead(S, x)) <= Cardinality(Ahead(S, y))
        /\ Cardinality(Ahead(S, x)) # Cardinality(Ahead(S, y))
    BY <1>2, <2>1, FS_Subset
  <2> QED
    BY <1>2, <2>2
<1>4. f \in Injection(S, 1 .. n)
  <2>1. f \in [S -> 1 .. n]
    BY <1>1, <1>2
  <2>2. ASSUME NEW x \in S, NEW y \in S, x # y PROVE f[x] # f[y]
    <3>1. Precedes(x, y) \/ Precedes(y, x)
      BY <2>2, PrecedesIsTotal
    <3>2. Cardinality(Ahead(S, x)) # Cardinality(Ahead(S, y))
      BY <1>2, <1>3, <3>1
    <3> QED
      BY <1>2, <3>2
  <2> HIDE DEF f
  <2> QED
    BY <2>1, <2>2 DEF Injection, IsInjective
<1>5. f \in Surjection(S, 1 .. n)
  <2>1. IsFiniteSet(1 .. n) /\ Cardinality(1 .. n) = n
    BY <1>1, FS_Interval
  <2> HIDE DEF f
  <2> QED
    BY <1>1, <1>4, <2>1, FS_Injection
<1>6. ASSUME NEW i \in 1 .. n PROVE \E x \in S : Cardinality(Ahead(S, x)) = i - 1
  <2>1. PICK x \in S : f[x] = i
    <3> HIDE DEF f
    <3> QED
      BY <1>5 DEF Surjection
  <2> QED
    BY <1>2, <2>1
<1> QED
  BY <1>1, <1>2, <1>3, <1>6

\* Sorting lists every entry, each before those that it precedes.
LEMMA SortedInOrder ==
    ASSUME NEW S, OneSide(S)
    PROVE  /\ Cardinality(S) \in Nat
           /\ Sorted(S) \in [1 .. Cardinality(S) -> S]
           /\ \A x \in S : \E i \in 1 .. Cardinality(S) : Sorted(S)[i] = x
           /\ \A i, j \in 1 .. Cardinality(S) :
                i < j <=> Precedes(Sorted(S)[i], Sorted(S)[j])
<1> DEFINE n == Cardinality(S)
           s == Sorted(S)
           at(x) == Cardinality(Ahead(S, x))
<1>1. n \in Nat
  BY FS_CardinalityType DEF OneSide
<1>2. s = [i \in 1 .. n |-> CHOOSE x \in S : at(x) = i - 1]
  BY DEF Sorted, Ahead
<1> HIDE DEF s
<1>3. \A i \in 1 .. n : s[i] \in S /\ at(s[i]) = i - 1
  <2> TAKE i \in 1 .. n
  <2>1. \E x \in S : at(x) = i - 1
    BY Ranking
  <2> HIDE DEF at, n
  <2>2. (CHOOSE x \in S : at(x) = i - 1) \in S
        /\ at(CHOOSE x \in S : at(x) = i - 1) = i - 1
    BY <2>1
  <2> QED
    BY <1>2, <2>2
<1>4. s \in [1 .. n -> S]
  <2> HIDE DEF at, n
  <2> QED
    BY <1>2, <1>3
<1>5. \A x \in S : at(x) \in 0 .. n - 1
  BY Ranking
<1>6. \A x, y \in S : Precedes(x, y) => at(x) < at(y)
  BY Ranking
<1>7. \A x, y \in S : x = y \/ Precedes(x, y) \/ Precedes(y, x)
  BY PrecedesIsTotal
<1>8. \A x \in S : ~ Precedes(x, x)
  BY PrecedesIsTotal
<1> HIDE DEF at, n
<1>9. ASSUME NEW x \in S PROVE \E i \in 1 .. n : s[i] = x
  <2> DEFINE i == at(x) + 1
  <2>1. i \in 1 .. n /\ at(s[i]) = at(x) /\ s[i] \in S
    BY <1>1, <1>3, <1>5
  <2>2. s[i] = x
    BY <1>5, <1>6, <1>7, <2>1
  <2> QED
    BY <2>1, <2>2
<1>10. ASSUME NEW i \in 1 .. n, NEW j \in 1 .. n
       PROVE  i < j <=> Precedes(s[i], s[j])
  <2>1. /\ s[i] \in S /\ s[j] \in S
        /\ at(s[i]) = i - 1 /\ at(s[j]) = j - 1
    BY <1>3
  <2>2. Precedes(s[i], s[j]) => i < j
    BY <1>1, <1>6, <2>1
  <2>3. Precedes(s[j], s[i]) => j < i
    BY <1>1, <1>6, <2>1
  <2>4. s[i] = s[j] => i = j
    BY <1>1, <2>1
  <2> QED
    BY <1>1, <1>7, <2>1, <2>2, <2>3, <2>4
<1> QED
  BY <1>1, <1>4, <1>9, <1>10 DEF n, s

-----------------------------------------------------------------------------
(* What a pass finds in one pair                                           *)

Orderly(S) == /\ IsFiniteSet(S)
              /\ S \subseteq Entries
              /\ \A x, y \in S : x.order = y.order \/ x.seq = y.seq => x = y

\* The settlements of a buy and a sell of the pair that cross.
Made(S, pair) ==
    {computeMatch(q[1].order, q[2].order) :
       q \in {r \in Book(S, BUY, pair) \X Book(S, SELL, pair) :
                Crosses(r[1].order, r[2].order)}}

Taken(b, e) == \E i \in DOMAIN b : e.order \in {b[i].buy, b[i].sell}

\* No order is in two matches, none is passed over for one that comes after it,
\* and what is left does not cross.
Prioritised(S, b) ==
    /\ \A i, j \in DOMAIN b :
         i # j => {b[i].buy, b[i].sell} \cap {b[j].buy, b[j].sell} = {}
    /\ \A x, y \in S : Taken(b, x) /\ ~ Taken(b, y) /\ SameBook(x, y) => Better(x, y)
    /\ \A x, y \in S :
         /\ ~ Taken(b, x) /\ ~ Taken(b, y)
         /\ x.order.side = BUY /\ y.order.side = SELL
         /\ x.order.quote = y.order.quote
         => x.order.price < y.order.price

LEMMA SideIsOrderly ==
    ASSUME NEW S, Orderly(S), NEW side, NEW pair
    PROVE  OneSide(Book(S, side, pair))
<1>1. Book(S, side, pair) \in SUBSET S
  BY DEF Book
<1>2. IsFiniteSet(Book(S, side, pair))
  BY <1>1, FS_Subset DEF Orderly
<1> QED
  BY <1>1, <1>2 DEF Orderly, OneSide, Book

LEMMA PrecedesIsBetter ==
    ASSUME NEW x \in Entries, NEW y \in Entries,
           x.order.side = y.order.side, Precedes(x, y)
    PROVE  Better(x, y)
BY DEF Precedes, ByBuyPriority, BySellPriority, Better, Entries, Orders, BUY, SELL

\* The pairs that cross are the first k, and the next one does not.
LEMMA FirstPairs ==
    ASSUME NEW n \in Nat, NEW C
    PROVE  LET reached == {i \in 1 .. n : \A j \in 1 .. i : j \in C}
           IN \E k \in 0 .. n : /\ reached = 1 .. k
                                /\ \A i \in 1 .. k : i \in C
                                /\ k < n => k + 1 \notin C
<1> DEFINE reached == {i \in 1 .. n : \A j \in 1 .. i : j \in C}
           T == {i \in 1 .. n + 1 : i = n + 1 \/ i \notin C}
<1>1. PICK m \in T : \A i \in T : m <= i
  <2>1. T \in SUBSET Nat /\ n + 1 \in T
    OBVIOUS
  <2> HIDE DEF T
  <2> QED
    BY <2>1, Least
<1>2. m - 1 \in 0 .. n
  OBVIOUS
<1>3. \A i \in 1 .. m - 1 : i \in C /\ i \in 1 .. n
  BY <1>1
<1>4. reached = 1 .. m - 1
  <2>1. ASSUME NEW i \in 1 .. m - 1 PROVE i \in reached
    BY <1>2, <1>3, <2>1
  <2>2. ASSUME NEW i \in reached PROVE i \in 1 .. m - 1
    <3>1. m = n + 1 \/ m \notin C
      OBVIOUS
    <3>2. i < m
      BY <1>2, <2>2, <3>1
    <3> QED
      BY <1>2, <3>2
  <2> QED
    BY <2>1, <2>2
<1>5. m - 1 < n => (m - 1) + 1 \notin C
  BY <1>2
<1> QED
  BY <1>2, <1>3, <1>4, <1>5

LEMMA PairInOrder ==
    ASSUME NEW S, Orderly(S), NEW pair
    PROVE  /\ PairMatches(S, pair) \in Seq(Made(S, pair))
           /\ Prioritised(Book(S, BUY, pair) \cup Book(S, SELL, pair),
                          PairMatches(S, pair))
<1> DEFINE B == Book(S, BUY, pair)
           A == Book(S, SELL, pair)
           buys == Sorted(B)
           sells == Sorted(A)
           nb == Cardinality(B)
           na == Cardinality(A)
           n == IF nb < na THEN nb ELSE na
           C == {i \in 1 .. n : Crosses(buys[i].order, sells[i].order)}
           b == PairMatches(S, pair)
<1>1. /\ OneSide(B) /\ OneSide(A)
      /\ B \subseteq S /\ A \subseteq S
      /\ \A x \in B : x \in Entries /\ x.order.side = BUY
                      /\ <<x.order.base, x.order.quote>> = pair
      /\ \A x \in A : x \in Entries /\ x.order.side = SELL
                      /\ <<x.order.base, x.order.quote>> = pair
  <2>1. OneSide(B) /\ OneSide(A)
    BY SideIsOrderly
  <2>2. B \subseteq S /\ A \subseteq S /\ S \subseteq Entries
    BY DEF Book, Orderly
  <2>3. /\ \A x \in B : x.order.side = BUY /\ <<x.order.base, x.order.quote>> = pair
        /\ \A x \in A : x.order.side = SELL /\ <<x.order.base, x.order.quote>> = pair
    BY DEF Book
  <2> HIDE DEF B, A
  <2> QED
    BY <2>1, <2>2, <2>3
<1>2. /\ nb \in Nat /\ buys \in [1 .. nb -> B]
      /\ \A x \in B : \E i \in 1 .. nb : buys[i] = x
      /\ \A i, j \in 1 .. nb : i < j <=> Precedes(buys[i], buys[j])
  <2> HIDE DEF B
  <2> QED
    BY <1>1, SortedInOrder
<1>3. /\ na \in Nat /\ sells \in [1 .. na -> A]
      /\ \A x \in A : \E i \in 1 .. na : sells[i] = x
      /\ \A i, j \in 1 .. na : i < j <=> Precedes(sells[i], sells[j])
  <2> HIDE DEF A
  <2> QED
    BY <1>1, SortedInOrder
<1>4. b = [i \in {i \in DOMAIN buys \cap DOMAIN sells :
                    \A j \in 1 .. i : Crosses(buys[j].order, sells[j].order)} |->
             computeMatch(buys[i].order, sells[i].order)]
  BY DEF PairMatches
<1> HIDE DEF B, A, buys, sells, nb, na, b
<1>5. n \in Nat /\ n <= nb /\ n <= na /\ (n = nb \/ n = na)
  BY <1>2, <1>3
<1>6. DOMAIN buys \cap DOMAIN sells = 1 .. n
  <2>1. DOMAIN buys = 1 .. nb /\ DOMAIN sells = 1 .. na
    BY <1>2, <1>3
  <2> QED
    BY <1>2, <1>3, <2>1
<1> HIDE DEF n
<1>7. {i \in DOMAIN buys \cap DOMAIN sells :
         \A j \in 1 .. i : Crosses(buys[j].order, sells[j].order)}
        = {i \in 1 .. n : \A j \in 1 .. i : j \in C}
  BY <1>5, <1>6
<1>8. PICK k \in 0 .. n : /\ {i \in 1 .. n : \A j \in 1 .. i : j \in C} = 1 .. k
                          /\ \A i \in 1 .. k : i \in C
                          /\ k < n => k + 1 \notin C
  <2> HIDE DEF C
  <2> QED
    BY <1>5, FirstPairs
<1>9. b = [i \in 1 .. k |-> computeMatch(buys[i].order, sells[i].order)]
  BY <1>4, <1>7, <1>8
<1>10. \A i \in 1 .. k : /\ i \in 1 .. n /\ i \in 1 .. nb /\ i \in 1 .. na
                         /\ Crosses(buys[i].order, sells[i].order)
  BY <1>2, <1>3, <1>5, <1>8
<1>11. k < n => ~ Crosses(buys[k + 1].order, sells[k + 1].order)
  BY <1>5, <1>8
<1> HIDE DEF C
<1>12. \A i \in 1 .. k : /\ buys[i] \in B /\ sells[i] \in A
                         /\ b[i] = computeMatch(buys[i].order, sells[i].order)
                         /\ b[i].buy = buys[i].order /\ b[i].sell = sells[i].order
  BY <1>2, <1>3, <1>9, <1>10 DEF computeMatch
<1>13. b \in Seq(Made(S, pair))
  <2>1. \A i \in 1 .. k : b[i] \in Made(S, pair)
    <3> TAKE i \in 1 .. k
    <3> DEFINE q == <<buys[i], sells[i]>>
    <3>1. q \in B \X A /\ q[1] = buys[i] /\ q[2] = sells[i]
      BY <1>12
    <3> QED
      BY <1>10, <1>12, <3>1 DEF Made, B, A
  <2> QED
    BY <1>5, <1>9, <2>1
<1>14. DOMAIN b = 1 .. k
  BY <1>9
<1>15. BUY # SELL
  BY DEF BUY, SELL
<1>16. \A x, y \in S : x.order = y.order => x = y
  BY DEF Orderly
<1>17. \A x \in B : Taken(b, x) <=> \E i \in 1 .. k : x = buys[i]
  <2> TAKE x \in B
  <2>1. \A i \in 1 .. k : x.order # sells[i].order
    BY <1>1, <1>12, <1>15
  <2>2. \A i \in 1 .. k : x.order = buys[i].order <=> x = buys[i]
    BY <1>1, <1>12, <1>16
  <2> QED
    BY <1>12, <1>14, <2>1, <2>2 DEF Taken
<1>18. \A x \in A : Taken(b, x) <=> \E i \in 1 .. k : x = sells[i]
  <2> TAKE x \in A
  <2>1. \A i \in 1 .. k : x.order # buys[i].order
    BY <1>1, <1>12, <1>15
  <2>2. \A i \in 1 .. k : x.order = sells[i].order <=> x = sells[i]
    BY <1>1, <1>12, <1>16
  <2> QED
    BY <1>12, <1>14, <2>1, <2>2 DEF Taken
<1>19. ASSUME NEW i \in DOMAIN b, NEW j \in DOMAIN b, i # j
       PROVE  {b[i].buy, b[i].sell} \cap {b[j].buy, b[j].sell} = {}
  <2>1. i \in 1 .. k /\ j \in 1 .. k /\ (i < j \/ j < i)
    BY <1>14, <1>19
  <2>2. buys[i] # buys[j] /\ sells[i] # sells[j]
    <3>1. \A x \in B : ~ Precedes(x, x)
      BY <1>1, PrecedesIsTotal
    <3>2. \A x \in A : ~ Precedes(x, x)
      BY <1>1, PrecedesIsTotal
    <3> QED
      BY <1>2, <1>3, <1>10, <1>12, <2>1, <3>1, <3>2
  <2>3. /\ buys[i].order # buys[j].order /\ sells[i].order # sells[j].order
        /\ buys[i].order # sells[j].order /\ sells[i].order # buys[j].order
    BY <1>1, <1>12, <1>15, <1>16, <2>1, <2>2
  <2> QED
    BY <1>12, <2>1, <2>3
<1>20. ASSUME NEW x \in B \cup A, NEW y \in B \cup A,
              Taken(b, x), ~ Taken(b, y), SameBook(x, y)
       PROVE  Better(x, y)
  <2>1. CASE x \in B /\ y \in B
    <3>1. PICK i \in 1 .. k : x = buys[i]
      BY <1>17, <1>20, <2>1
    <3>2. PICK j \in 1 .. nb : y = buys[j]
      BY <1>2, <2>1
    <3>3. ~ (j <= k)
      BY <1>17, <1>20, <2>1, <3>2
    <3>4. Precedes(x, y)
      BY <1>2, <1>10, <3>1, <3>2, <3>3
    <3> QED
      BY <1>1, <2>1, <3>4, PrecedesIsBetter
  <2>2. CASE x \in A /\ y \in A
    <3>1. PICK i \in 1 .. k : x = sells[i]
      BY <1>18, <1>20, <2>2
    <3>2. PICK j \in 1 .. na : y = sells[j]
      BY <1>3, <2>2
    <3>3. ~ (j <= k)
      BY <1>18, <1>20, <2>2, <3>2
    <3>4. Precedes(x, y)
      BY <1>3, <1>10, <3>1, <3>2, <3>3
    <3> QED
      BY <1>1, <2>2, <3>4, PrecedesIsBetter
  <2>3. (x \in B /\ y \in B) \/ (x \in A /\ y \in A)
    BY <1>1, <1>15, <1>20 DEF SameBook
  <2> QED
    BY <2>1, <2>2, <2>3
<1>21. ASSUME NEW x \in B \cup A, NEW y \in B \cup A,
              ~ Taken(b, x), ~ Taken(b, y),
              x.order.side = BUY, y.order.side = SELL
       PROVE  x.order.price < y.order.price
  <2>1. x \in B /\ y \in A
    BY <1>1, <1>15, <1>21
  <2>2. PICK i \in 1 .. nb : x = buys[i]
    BY <1>2, <2>1
  <2>3. PICK j \in 1 .. na : y = sells[j]
    BY <1>3, <2>1
  <2>4. k < i /\ k < j
    BY <1>17, <1>18, <1>21, <2>1, <2>2, <2>3
  <2>5. k < n /\ k + 1 \in 1 .. nb /\ k + 1 \in 1 .. na
    BY <1>2, <1>3, <1>5, <2>2, <2>3, <2>4
  <2>6. ~ Crosses(buys[k + 1].order, sells[k + 1].order)
    BY <1>11, <2>5
  <2> DEFINE u == buys[k + 1]
             v == sells[k + 1]
  <2>7. u \in B /\ v \in A
    BY <1>2, <1>3, <2>5
  <2>8. (u = x \/ Precedes(u, x)) /\ (v = y \/ Precedes(v, y))
    BY <1>2, <1>3, <2>2, <2>3, <2>4, <2>5
  <2>9. \A z \in B \cup A : z.order.price \in Int
    BY <1>1, WidthAssumption DEF Entries, Orders, Amounts
  <2> HIDE DEF u, v
  <2>10. u.order.price >= x.order.price
    BY <1>1, <2>1, <2>7, <2>8, <2>9 DEF Precedes, ByBuyPriority
  <2>11. v.order.price <= y.order.price
    BY <1>1, <1>15, <2>1, <2>7, <2>8, <2>9 DEF Precedes, BySellPriority
  <2>12. u.order.price < v.order.price
    BY <2>6, <2>7, <2>9 DEF Crosses, u, v
  <2> QED
    BY <2>1, <2>7, <2>9, <2>10, <2>11, <2>12
<1>22. Prioritised(B \cup A, b)
  BY <1>19, <1>20, <1>21 DEF Prioritised
<1> QED
  BY <1>13, <1>22 DEF B, A, b

-----------------------------------------------------------------------------
(* One pair after the other                                                *)

\* F lists the elements of the first m sequences of bs, each once: h says where
\* each of its elements is from.
Lists(F, bs, m, h) ==
    /\ h \in [1 .. Len(F) -> (1 .. m) \X Nat]
    /\ \A k \in 1 .. Len(F) : /\ h[k][2] \in 1 .. Len(bs[h[k][1]])
                              /\ F[k] = bs[h[k][1]][h[k][2]]
    /\ \A k, l \in 1 .. Len(F) : h[k] = h[l] => k = l
    /\ \A i \in 1 .. m : \A j \in 1 .. Len(bs[i]) :
         \E k \in 1 .. Len(F) : h[k] = <<i, j>>

Concatenates(f, bs, m) ==
    f = [i \in 1 .. m |-> IF i = 1 THEN bs[i] ELSE f[i - 1] \o bs[i]]

LEMMA ConcatenationExists ==
    ASSUME NEW n \in Nat, NEW bs
    PROVE  \E f : Concatenates(f, bs, n)
<1> DEFINE T == {m \in 0 .. n : \E f : Concatenates(f, bs, m)}
<1>1. 0 \in T
  <2> DEFINE f == [i \in 1 .. 0 |-> bs[i]]
  <2>1. Concatenates(f, bs, 0)
    BY DEF Concatenates
  <2> QED
    BY <2>1
<1>2. ASSUME NEW m \in 0 .. n - 1, m \in T PROVE m + 1 \in T
  <2>1. PICK f : f = [i \in 1 .. m |-> IF i = 1 THEN bs[i] ELSE f[i - 1] \o bs[i]]
    BY <1>2 DEF Concatenates
  <2>2. \A i \in 1 .. m : f[i] = IF i = 1 THEN bs[i] ELSE f[i - 1] \o bs[i]
    BY <2>1
  <2> DEFINE g == [i \in 1 .. m + 1 |->
                     IF i <= m THEN f[i]
                     ELSE IF i = 1 THEN bs[i] ELSE f[i - 1] \o bs[i]]
  <2>3. ASSUME NEW i \in 1 .. m + 1
        PROVE  g[i] = IF i = 1 THEN bs[i] ELSE g[i - 1] \o bs[i]
    <3>1. CASE i = 1
      <4>1. i <= m => f[i] = bs[i]
        BY <2>2, <3>1
      <4> QED
        BY <3>1, <4>1
    <3>2. CASE i # 1
      <4>1. i - 1 \in 1 .. m + 1 /\ i - 1 <= m
        BY <3>2
      <4>2. g[i - 1] = f[i - 1]
        BY <4>1
      <4>3. i <= m => f[i] = f[i - 1] \o bs[i]
        <5>1. i <= m => i \in 1 .. m
          OBVIOUS
        <5> QED
          BY <2>2, <3>2, <5>1
      <4> QED
        BY <3>2, <4>2, <4>3
    <3> QED
      BY <3>1, <3>2
  <2>4. DOMAIN g = 1 .. m + 1 /\ g = [i \in 1 .. m + 1 |-> g[i]]
    OBVIOUS
  <2> HIDE DEF g
  <2>5. Concatenates(g, bs, m + 1)
    BY <2>3, <2>4 DEF Concatenates
  <2> QED
    BY <2>5
<1>3. n \in T
  <2> HIDE DEF T
  <2>1. \A k \in 0 .. n - 1 : k \in T => k + 1 \in T
    BY <1>2
  <2> QED
    BY <1>1, <2>1, UpTo
<1> QED
  BY <1>3

LEMMA ListsOneMore ==
    ASSUME NEW X, NEW m \in Nat, NEW bs, NEW F \in Seq(X), NEW h,
           bs[m + 1] \in Seq(X), Lists(F, bs, m, h)
    PROVE  \E g : Lists(F \o bs[m + 1], bs, m + 1, g)
<1> DEFINE b == bs[m + 1]
           G == F \o b
           g == [k \in 1 .. Len(G) |->
                   IF k <= Len(F) THEN h[k] ELSE <<m + 1, k - Len(F)>>]
<1>1. /\ Len(F) \in Nat /\ Len(b) \in Nat /\ Len(G) = Len(F) + Len(b)
      /\ \A k \in 1 .. Len(F) : G[k] = F[k]
      /\ \A k \in 1 .. Len(G) : k > Len(F) => G[k] = b[k - Len(F)]
  BY ConcatProperties
<1> HIDE DEF b, G
<1>2. /\ \A k \in 1 .. Len(F) : /\ h[k] \in (1 .. m) \X Nat
                                /\ h[k][2] \in 1 .. Len(bs[h[k][1]])
                                /\ F[k] = bs[h[k][1]][h[k][2]]
      /\ \A k, l \in 1 .. Len(F) : h[k] = h[l] => k = l
      /\ \A i \in 1 .. m : \A j \in 1 .. Len(bs[i]) :
           \E k \in 1 .. Len(F) : h[k] = <<i, j>>
  BY DEF Lists
<1>3. ASSUME NEW k \in 1 .. Len(G), k <= Len(F)
      PROVE  k \in 1 .. Len(F) /\ g[k] = h[k] /\ G[k] = F[k]
  BY <1>1, <1>3
<1>4. ASSUME NEW k \in 1 .. Len(G), k > Len(F)
      PROVE  /\ g[k] = <<m + 1, k - Len(F)>>
             /\ k - Len(F) \in 1 .. Len(b) /\ G[k] = b[k - Len(F)]
  BY <1>1, <1>4
<1>5. DOMAIN g = 1 .. Len(G)
  OBVIOUS
<1>6. \A k \in 1 .. Len(G) : k <= Len(F) \/ k > Len(F)
  BY <1>1
<1>7. g = [k \in 1 .. Len(G) |-> g[k]]
  OBVIOUS
<1>8. \A k \in 1 .. Len(F) : k \in 1 .. Len(G) /\ k <= Len(F)
  BY <1>1
<1>9. \A j \in 1 .. Len(b) : /\ Len(F) + j \in 1 .. Len(G) /\ Len(F) + j > Len(F)
                             /\ (Len(F) + j) - Len(F) = j
  BY <1>1
<1> HIDE DEF g
<1>10. ASSUME NEW k \in 1 .. Len(G)
       PROVE  /\ g[k] \in (1 .. m + 1) \X Nat
              /\ g[k][2] \in 1 .. Len(bs[g[k][1]])
              /\ G[k] = bs[g[k][1]][g[k][2]]
  <2>1. CASE k <= Len(F)
    <3>1. k \in 1 .. Len(F) /\ g[k] = h[k] /\ G[k] = F[k]
      BY <1>3, <2>1
    <3>2. h[k] \in (1 .. m) \X Nat
      BY <1>2, <3>1
    <3>3. h[k] \in (1 .. m + 1) \X Nat
      BY <3>2
    <3> QED
      BY <1>2, <3>1, <3>3
  <2>2. CASE k > Len(F)
    <3>1. /\ g[k] = <<m + 1, k - Len(F)>>
          /\ g[k][1] = m + 1 /\ g[k][2] = k - Len(F)
      BY <1>4, <2>2
    <3>2. m + 1 \in 1 .. m + 1 /\ k - Len(F) \in Nat
      BY <1>1, <1>4, <2>2
    <3>3. k - Len(F) \in 1 .. Len(bs[m + 1]) /\ G[k] = bs[m + 1][k - Len(F)]
      BY <1>4, <2>2 DEF b
    <3> QED
      BY <3>1, <3>2, <3>3
  <2> QED
    BY <1>6, <2>1, <2>2
<1>11. ASSUME NEW k \in 1 .. Len(G), NEW l \in 1 .. Len(G), g[k] = g[l]
       PROVE  k = l
  <2>1. ASSUME NEW i \in 1 .. Len(G), i <= Len(F)
        PROVE  i \in 1 .. Len(F) /\ g[i] = h[i] /\ g[i][1] # m + 1
    BY <1>2, <1>3, <2>1
  <2>2. ASSUME NEW i \in 1 .. Len(G), i > Len(F)
        PROVE  g[i][1] = m + 1 /\ g[i][2] = i - Len(F)
    BY <1>4, <2>2
  <2>3. CASE k <= Len(F) /\ l <= Len(F)
    BY <1>2, <1>11, <2>1, <2>3
  <2>4. CASE k > Len(F) /\ l > Len(F)
    BY <1>1, <1>11, <2>2, <2>4
  <2> QED
    BY <1>6, <1>11, <2>1, <2>2, <2>3, <2>4
<1>12. ASSUME NEW i \in 1 .. m + 1, NEW j \in 1 .. Len(bs[i])
       PROVE  \E k \in 1 .. Len(G) : g[k] = <<i, j>>
  <2>1. CASE i = m + 1
    <3>1. j \in 1 .. Len(b)
      BY <2>1 DEF b
    <3>2. PICK k : k = Len(F) + j
      OBVIOUS
    <3>3. k \in 1 .. Len(G) /\ k > Len(F) /\ k - Len(F) = j
      BY <1>9, <3>1, <3>2
    <3>4. g[k] = <<m + 1, j>>
      BY <1>4, <3>3
    <3> QED
      BY <2>1, <3>3, <3>4
  <2>2. CASE i # m + 1
    <3>1. i \in 1 .. m
      BY <2>2
    <3>2. PICK k \in 1 .. Len(F) : h[k] = <<i, j>>
      BY <1>2, <3>1
    <3> QED
      BY <1>3, <1>8, <3>2
  <2> QED
    BY <2>1, <2>2
<1>13. g \in [1 .. Len(G) -> (1 .. m + 1) \X Nat]
  BY <1>7, <1>10
<1>14. Lists(G, bs, m + 1, g)
  BY <1>10, <1>11, <1>12, <1>13 DEF Lists
<1> QED
  BY <1>14 DEF G, b

LEMMA FlattenLists ==
    ASSUME NEW X, NEW n \in Nat, NEW bs \in [1 .. n -> Seq(X)]
    PROVE  /\ FlattenSeq(bs) \in Seq(X)
           /\ \E h : Lists(FlattenSeq(bs), bs, n, h)
<1> DEFINE none == [k \in 1 .. 0 |-> <<1, 1>>]
<1>1. Len(bs) = n /\ bs \in Seq(Seq(X))
  OBVIOUS
<1>2. Lists(<<>>, bs, 0, none)
  BY DEF Lists
<1>3. CASE n = 0
  <2>1. FlattenSeq(bs) = bs /\ bs = <<>>
    BY <1>1, <1>3 DEF FlattenSeq
  <2> QED
    BY <1>2, <1>3, <2>1
<1>4. CASE n # 0
  <2> DEFINE flatten == CHOOSE f : Concatenates(f, bs, n)
  <2>1. Concatenates(flatten, bs, n)
    BY ConcatenationExists
  <2>2. FlattenSeq(bs) = flatten[n]
    BY <1>1, <1>4 DEF FlattenSeq, Concatenates
  <2> HIDE DEF flatten, none
  <2>3. \A i \in 1 .. n : flatten[i] = IF i = 1 THEN bs[i] ELSE flatten[i - 1] \o bs[i]
    BY <2>1 DEF Concatenates
  <2> DEFINE T == {m \in 0 .. n :
                     m = 0 \/ /\ flatten[m] \in Seq(X)
                              /\ \E h : Lists(flatten[m], bs, m, h)}
  <2>4. ASSUME NEW m \in 0 .. n - 1, m \in T PROVE m + 1 \in T
    <3>1. /\ m + 1 \in 1 .. n /\ m \in Nat /\ bs[m + 1] \in Seq(X)
          /\ (m + 1) - 1 = m
      OBVIOUS
    <3>2. CASE m = 0
      <4> DEFINE e == <<>>
      <4>1. e \in Seq(X) /\ Lists(e, bs, m, none)
        BY <1>2, <3>2
      <4>2. e \o bs[m + 1] = bs[m + 1]
        BY <3>1, ConcatEmptySeq
      <4> HIDE DEF e
      <4>3. \E g : Lists(e \o bs[m + 1], bs, m + 1, g)
        BY <3>1, <4>1, ListsOneMore
      <4>4. flatten[m + 1] = bs[m + 1]
        BY <2>3, <3>1, <3>2
      <4> QED
        BY <3>1, <4>2, <4>3, <4>4
    <3>3. CASE m # 0
      <4>1. PICK h : Lists(flatten[m], bs, m, h)
        BY <2>4, <3>3
      <4>2. flatten[m] \in Seq(X)
        BY <2>4, <3>3
      <4>3. \E g : Lists(flatten[m] \o bs[m + 1], bs, m + 1, g)
        BY <3>1, <4>1, <4>2, ListsOneMore
      <4>4. flatten[m + 1] = flatten[m] \o bs[m + 1]
        <5>1. m + 1 # 1
          BY <3>3
        <5> QED
          BY <2>3, <3>1, <5>1
      <4>5. flatten[m] \o bs[m + 1] \in Seq(X)
        BY <3>1, <4>2, ConcatProperties
      <4>6. m + 1 \in 0 .. n
        BY <3>1
      <4> QED
        BY <4>3, <4>4, <4>5, <4>6
    <3> QED
      BY <3>2, <3>3
  <2>5. n \in T
    <3>1. 0 \in T
      OBVIOUS
    <3> HIDE DEF T
    <3>2. \A k \in 0 .. n - 1 : k \in T => k + 1 \in T
      BY <2>4
    <3>3. \A k \in 0 .. n : k \in T
      BY <3>1, <3>2, UpTo
    <3> QED
      BY <3>3
  <2> QED
    BY <1>4, <2>2, <2>5
<1> QED
  BY <1>3, <1>4

-----------------------------------------------------------------------------
(* What a pass finds                                                       *)

PairOf(o) == <<o.base, o.quote>>

LEMMA MadeOf ==
    ASSUME NEW S, S \subseteq Entries, NEW pair, NEW m \in Made(S, pair)
    PROVE  /\ PairOf(m.buy) = pair /\ PairOf(m.sell) = pair
           /\ \E x, y \in S : /\ m = computeMatch(x.order, y.order)
                              /\ m.buy = x.order /\ m.sell = y.order
                              /\ x.order.side = BUY /\ y.order.side = SELL
                              /\ Crosses(x.order, y.order)
<1>1. PICK q \in Book(S, BUY, pair) \X Book(S, SELL, pair) :
             m = computeMatch(q[1].order, q[2].order)
             /\ Crosses(q[1].order, q[2].order)
  BY DEF Made
<1>2. m.buy = q[1].order /\ m.sell = q[2].order
  BY <1>1 DEF computeMatch
<1>3. /\ q[1] \in S /\ q[1].order.side = BUY /\ PairOf(q[1].order) = pair
      /\ q[2] \in S /\ q[2].order.side = SELL /\ PairOf(q[2].order) = pair
  BY DEF Book, PairOf
<1> QED
  BY <1>1, <1>2, <1>3

\* Whichever way the pairs come, a pass matches the book in priority.
THEOREM PassInOrder ==
    ASSUME NEW S, Orderly(S), NEW b \in findMatches(S)
    PROVE  /\ b \in Seq(UNION {Made(S, PairOf(e.order)) : e \in S})
           /\ Prioritised(S, b)
<1> DEFINE P == {<<e.order.base, e.order.quote>> : e \in S}
           n == Cardinality(P)
           X == UNION {Made(S, PairOf(e.order)) : e \in S}
           H(p) == Book(S, BUY, p) \cup Book(S, SELL, p)
<1>1. PICK pairs \in SetToSeqs(P) :
             b = FlattenSeq([i \in DOMAIN pairs |-> PairMatches(S, pairs[i])])
  BY DEF findMatches
<1>2. IsFiniteSet(P) /\ n \in Nat
  <2> DEFINE f == [e \in S |-> <<e.order.base, e.order.quote>>]
  <2>1. f \in Surjection(S, P)
    BY DEF Surjection
  <2>2. IsFiniteSet(S)
    BY DEF Orderly
  <2> HIDE DEF f, P
  <2> QED
    BY <2>1, <2>2, FS_Surjection, FS_CardinalityType
<1>3. /\ pairs \in [1 .. n -> P]
      /\ \A i, j \in 1 .. n : pairs[i] = pairs[j] => i = j
      /\ \A p \in P : \E i \in 1 .. n : pairs[i] = p
  <2> HIDE DEF P
  <2>1. /\ pairs \in [1 .. n -> P]
        /\ \A i, j \in 1 .. n : i # j => pairs[i] # pairs[j]
    BY DEF SetToSeqs
  <2>2. pairs \in Injection(1 .. n, P)
    BY <2>1 DEF Injection, IsInjective
  <2>3. Cardinality(1 .. n) = n
    BY <1>2, FS_Interval
  <2> HIDE DEF n
  <2>4. pairs \in Surjection(1 .. n, P)
    BY <1>2, <2>2, <2>3, FS_Injection DEF n
  <2> QED
    BY <2>1, <2>4 DEF Surjection
<1>4. \A e \in S : PairOf(e.order) \in P
  BY DEF PairOf
<1>5. \A p \in P : \E e \in S : p = PairOf(e.order)
  BY DEF PairOf
<1> DEFINE bs == [i \in 1 .. n |-> PairMatches(S, pairs[i])]
<1>6. b = FlattenSeq(bs)
  <2>1. DOMAIN pairs = 1 .. n
    BY <1>3
  <2> QED
    BY <1>1, <2>1
<1> HIDE DEF P, n
<1>7. \A i \in 1 .. n : /\ bs[i] \in Seq(Made(S, pairs[i]))
                        /\ Prioritised(H(pairs[i]), bs[i])
  BY PairInOrder
<1>8. \A i \in 1 .. n : Made(S, pairs[i]) \subseteq X
  <2> TAKE i \in 1 .. n
  <2>1. PICK e \in S : pairs[i] = PairOf(e.order)
    BY <1>3, <1>5
  <2> QED
    BY <2>1
<1> HIDE DEF X, H
<1>9. bs \in [1 .. n -> Seq(X)]
  <2>1. \A i \in 1 .. n : bs[i] \in Seq(X)
    BY <1>7, <1>8
  <2> QED
    BY <2>1
<1> HIDE DEF bs
<1>10. b \in Seq(X) /\ \E h : Lists(b, bs, n, h)
  BY <1>2, <1>6, <1>9, FlattenLists
<1>11. PICK h : Lists(b, bs, n, h)
  BY <1>10
<1>12. /\ DOMAIN b = 1 .. Len(b) /\ Len(b) \in Nat
       /\ \A i \in 1 .. n : DOMAIN bs[i] = 1 .. Len(bs[i])
  BY <1>7, <1>10
<1>13. \A k \in DOMAIN b : /\ h[k] \in (1 .. n) \X Nat
                           /\ h[k][1] \in 1 .. n
                           /\ h[k][2] \in DOMAIN bs[h[k][1]]
                           /\ b[k] = bs[h[k][1]][h[k][2]]
  BY <1>11, <1>12 DEF Lists
<1>14. \A k, l \in DOMAIN b : h[k] = h[l] => k = l
  BY <1>11, <1>12 DEF Lists
<1>15. \A i \in 1 .. n : \A j \in DOMAIN bs[i] : \E k \in DOMAIN b : h[k] = <<i, j>>
  BY <1>11, <1>12 DEF Lists
<1>16. ASSUME NEW i \in 1 .. n, NEW j \in DOMAIN bs[i]
       PROVE  /\ bs[i][j] \in Made(S, pairs[i])
              /\ PairOf(bs[i][j].buy) = pairs[i] /\ PairOf(bs[i][j].sell) = pairs[i]
  <2>1. bs[i][j] \in Made(S, pairs[i])
    BY <1>7
  <2>2. S \subseteq Entries
    BY DEF Orderly
  <2> QED
    BY <2>1, <2>2, MadeOf
<1>17. ASSUME NEW k \in DOMAIN b, NEW l \in DOMAIN b, k # l
       PROVE  {b[k].buy, b[k].sell} \cap {b[l].buy, b[l].sell} = {}
  <2> DEFINE i == h[k][1]  j == h[k][2]  u == h[l][1]  v == h[l][2]
  <2>1. /\ i \in 1 .. n /\ j \in DOMAIN bs[i] /\ b[k] = bs[i][j]
        /\ u \in 1 .. n /\ v \in DOMAIN bs[u] /\ b[l] = bs[u][v]
    BY <1>13
  <2>2. i # u \/ j # v
    <3>1. h[k] = <<i, j>> /\ h[l] = <<u, v>>
      BY <1>13
    <3> QED
      BY <1>14, <1>17, <3>1
  <2> HIDE DEF i, j, u, v
  <2>3. CASE i = u
    BY <1>7, <2>1, <2>2, <2>3 DEF Prioritised
  <2>4. CASE i # u
    <3>1. pairs[i] # pairs[u]
      BY <1>3, <2>1, <2>4
    <3> QED
      BY <1>16, <2>1, <3>1
  <2> QED
    BY <2>3, <2>4
<1>18. ASSUME NEW x \in S, NEW i \in 1 .. n, pairs[i] = PairOf(x.order)
       PROVE  Taken(b, x) <=> Taken(bs[i], x)
  <2>1. ASSUME NEW k \in DOMAIN b, x.order \in {b[k].buy, b[k].sell}
        PROVE  Taken(bs[i], x)
    <3>1. h[k][1] = i
      BY <1>3, <1>13, <1>16, <1>18, <2>1
    <3> QED
      BY <1>13, <2>1, <3>1 DEF Taken
  <2>2. ASSUME NEW j \in DOMAIN bs[i], x.order \in {bs[i][j].buy, bs[i][j].sell}
        PROVE  Taken(b, x)
    <3>1. PICK k \in DOMAIN b : h[k] = <<i, j>>
      BY <1>15
    <3>2. b[k] = bs[i][j]
      BY <1>13, <3>1
    <3> QED
      BY <2>2, <3>2 DEF Taken
  <2> QED
    BY <2>1, <2>2 DEF Taken
<1>19. \A x \in S : x.order.base = "base" /\ x.order.side \in {BUY, SELL}
  BY DEF Orderly, Entries, Orders
<1>20. \A x \in S : x \in H(PairOf(x.order))
  BY <1>19 DEF H, Book, PairOf
<1>21. ASSUME NEW x \in S, NEW y \in S, x.order.quote = y.order.quote
       PROVE  \E i \in 1 .. n : /\ x \in H(pairs[i]) /\ y \in H(pairs[i])
                                /\ Taken(b, x) <=> Taken(bs[i], x)
                                /\ Taken(b, y) <=> Taken(bs[i], y)
  <2>1. PairOf(x.order) = PairOf(y.order)
    BY <1>19, <1>21 DEF PairOf
  <2>2. PICK i \in 1 .. n : pairs[i] = PairOf(x.order)
    BY <1>3, <1>4
  <2>3. x \in H(pairs[i]) /\ y \in H(pairs[i])
    BY <1>20, <2>1, <2>2
  <2>4. (Taken(b, x) <=> Taken(bs[i], x)) /\ (Taken(b, y) <=> Taken(bs[i], y))
    BY <1>18, <2>1, <2>2
  <2> QED
    BY <2>3, <2>4
<1>22. ASSUME NEW x \in S, NEW y \in S, Taken(b, x), ~ Taken(b, y), SameBook(x, y)
       PROVE  Better(x, y)
  BY <1>7, <1>21, <1>22 DEF Prioritised, SameBook
<1>23. ASSUME NEW x \in S, NEW y \in S, ~ Taken(b, x), ~ Taken(b, y),
              x.order.side = BUY, y.order.side = SELL, x.order.quote = y.order.quote
       PROVE  x.order.price < y.order.price
  BY <1>7, <1>21, <1>23 DEF Prioritised
<1>24. Prioritised(S, b)
  BY <1>17, <1>22, <1>23 DEF Prioritised
<1> QED
  BY <1>10, <1>24 DEF X

-----------------------------------------------------------------------------
(* The service                                                             *)

\* The amounts of a settlement are in range, whatever the two orders.
Sized(m) == m.a.residualAmount \in Amounts /\ m.b.residualAmount \in Amounts

LEMMA MatchTyped ==
    ASSUME NEW buy \in Orders, NEW sell \in Orders
    PROVE  computeMatch(buy, sell) \in Matches /\ Sized(computeMatch(buy, sell))
<1> DEFINE price == (buy.price + sell.price) \div 2
           fill == IF buy.amount < sell.amount THEN buy.amount ELSE sell.amount
           quote == (fill * price) \div PRICE_SCALE
           m == computeMatch(buy, sell)
<1>1. \A o \in {buy, sell} : o.price \in Nat /\ o.amount \in Amounts /\ o.amount \in Nat
  BY WidthAssumption DEF Orders, Amounts
<1>2. fill \in Amounts /\ fill \in Nat /\ fill <= buy.amount /\ fill <= sell.amount
  BY <1>1
<1>3. price \in Nat
  BY <1>1
<1> HIDE DEF fill, price
<1>4. quote \in Nat
  BY <1>2, <1>3, FloorBounds
<1> HIDE DEF quote
<1>5. ASSUME NEW o \in {buy, sell}
      PROVE  /\ settleOrder(o, fill, quote) \in Outcomes
             /\ settleOrder(o, fill, quote).residualAmount \in Amounts
  <2> DEFINE lock == (o.amount * o.price) \div PRICE_SCALE
             residual == o.amount - fill
  <2>1. lock \in Nat
    BY <1>1, FloorBounds
  <2>2. residual \in Amounts /\ residual \in Int
    <3>1. \A x, y \in Nat : y <= x /\ x \in Amounts => x - y \in Amounts /\ x - y \in Int
      BY WidthAssumption DEF Amounts
    <3> QED
      BY <1>1, <1>2, <3>1
  <2> HIDE DEF lock, residual
  <2>3. /\ lock - quote \in Int
        /\ lock - quote > 0 => lock - quote \in Nat
    BY <1>4, <2>1
  <2>4. settleOrder(o, fill, quote)
          = [residualAmount |-> residual,
             refundAmount |-> IF residual = 0 /\ o.side = BUY /\ lock - quote > 0
                              THEN lock - quote ELSE 0]
    BY DEF settleOrder, lock, residual
  <2> QED
    BY <2>2, <2>3, <2>4 DEF Outcomes
<1>6. m = [buy |-> buy, sell |-> sell, fill |-> fill, quoteFilled |-> quote,
           a |-> settleOrder(buy, fill, quote), b |-> settleOrder(sell, fill, quote)]
  BY DEF computeMatch, fill, quote, price
<1> HIDE DEF m
<1>7. m \in Matches /\ Sized(m)
  BY <1>2, <1>4, <1>5, <1>6 DEF Matches, Sized
<1> QED
  BY <1>7 DEF m

\* The residual orders of a settlement whose amounts are in range are orders.
LEMMA ResidualsTyped ==
    ASSUME NEW m \in Matches, Sized(m)
    PROVE  residuals(m) \subseteq Orders
<1> DEFINE pub == assembleMatchInputs(m)
           Good(c) == c = Nothing \/ (c # Nothing /\ c.opening \in Orders)
<1>1. ASSUME NEW o \in Orders, NEW outcome, NEW nonce \in Nat,
             outcome.residualAmount \in Amounts
      PROVE  Good(computeOrderCommitment(Residual(o, outcome, nonce)))
  <2>1. Residual(o, outcome, nonce) \in Orders
    BY <1>1 DEF Residual, Orders
  <2> QED
    BY <2>1 DEF computeOrderCommitment, Nothing
<1>2. /\ m.buy \in Orders /\ m.sell \in Orders
      /\ m.buy.nonce + 1 \in Nat /\ m.sell.nonce + 1 \in Nat
      /\ m.a.residualAmount \in Amounts /\ m.b.residualAmount \in Amounts
  BY DEF Sized, Matches, Orders
<1>3. Good(pub.residual_a) /\ Good(pub.residual_b)
  <2>1. /\ pub.residual_a = IF m.a.residualAmount # 0
                            THEN computeOrderCommitment(
                                   Residual(m.buy, m.a, m.buy.nonce + 1))
                            ELSE Nothing
        /\ pub.residual_b = IF m.b.residualAmount # 0
                            THEN computeOrderCommitment(
                                   Residual(m.sell, m.b, m.sell.nonce + 1))
                            ELSE Nothing
    BY DEF assembleMatchInputs, fillBlindings
  <2> HIDE DEF pub
  <2>2. /\ Good(computeOrderCommitment(Residual(m.buy, m.a, m.buy.nonce + 1)))
        /\ Good(computeOrderCommitment(Residual(m.sell, m.b, m.sell.nonce + 1)))
    BY <1>1, <1>2
  <2>3. Good(Nothing)
    OBVIOUS
  <2> HIDE DEF Good
  <2> QED
    BY <2>1, <2>2, <2>3
<1> DEFINE cs == opt_nonzero(pub.residual_a) \o opt_nonzero(pub.residual_b)
<1>4. residuals(m) = {c.opening : c \in Range(cs)}
  BY DEF residuals, residual_commitments
<1> HIDE DEF pub
<1>5. \A c \in Range(cs) : c.opening \in Orders
  <2>1. CASE pub.residual_a = Nothing /\ pub.residual_b = Nothing
    BY <2>1 DEF opt_nonzero, Range
  <2>2. CASE pub.residual_a # Nothing /\ pub.residual_b = Nothing
    BY <1>3, <2>2 DEF opt_nonzero, Range
  <2>3. CASE pub.residual_a = Nothing /\ pub.residual_b # Nothing
    BY <1>3, <2>3 DEF opt_nonzero, Range
  <2>4. CASE pub.residual_a # Nothing /\ pub.residual_b # Nothing
    <3>1. ASSUME NEW x, NEW y
          PROVE  \A c \in Range(<<x>> \o <<y>>) : c \in {x, y}
      <4> DEFINE s == <<x>> \o <<y>>
      <4>1. DOMAIN s = 1 .. 2 /\ s[1] = x /\ s[2] = y
        OBVIOUS
      <4> HIDE DEF s
      <4>2. \A c \in Range(s) : c \in {x, y}
        BY <4>1 DEF Range
      <4> QED
        BY <4>2 DEF s
    <3>2. /\ opt_nonzero(pub.residual_a) = <<pub.residual_a>>
          /\ opt_nonzero(pub.residual_b) = <<pub.residual_b>>
      BY <2>4 DEF opt_nonzero
    <3>3. \A c \in Range(cs) : c \in {pub.residual_a, pub.residual_b}
      BY <3>1, <3>2
    <3> QED
      BY <1>3, <2>4, <3>3
  <2> QED
    BY <2>1, <2>2, <2>3, <2>4
<1> QED
  BY <1>4, <1>5

-----------------------------------------------------------------------------
(* The invariant: where an order can be.  The book and the pass have posted   *)
(* orders; one whose settlement was acknowledged is in neither any more.      *)

OrdersOf(m) == {m.buy, m.sell}

\* The lock of a placed order fits.
Lockable == \A o \in placed : assert_64(LockedAmount(o))

\* No two entries have the same order or the same number.
Entered == Orderly(book) /\ \A e \in book : e.order \in posted

\* The amounts of what waits and of what was sent are in range.
Amounting == /\ \A i \in DOMAIN batch : Sized(batch[i])
             /\ \A tx \in sent : Sized(tx.match)

\* What waits has nothing in common, nor with what was acknowledged.
Waiting ==
    \A i \in DOMAIN batch :
       /\ OrdersOf(batch[i]) \subseteq posted
       /\ \A j \in DOMAIN batch : i # j => OrdersOf(batch[i]) \cap OrdersOf(batch[j]) = {}
       /\ \A tx \in sent : tx.answered => OrdersOf(batch[i]) \cap OrdersOf(tx.match) = {}

\* An order whose settlement was acknowledged is not in the book.
Acknowledged ==
    \A tx \in sent : tx.answered =>
       /\ OrdersOf(tx.match) \subseteq posted
       /\ \A e \in book : e.order \notin OrdersOf(tx.match)

IInv == /\ TypeOK /\ Lockable /\ Entered /\ Amounting
        /\ Waiting /\ Acknowledged /\ ClaimsExclusive

LEMMA InitIInv == Init => IInv
<1> SUFFICES ASSUME Init PROVE IInv
  OBVIOUS
<1>1. TypeOK
  BY FaultsAssumption DEF Init, TypeOK
<1>2. Orderly(book)
  BY FS_EmptySet DEF Init, Orderly
<1> QED
  BY <1>1, <1>2
  DEF Init, IInv, Lockable, Entered, Amounting, Waiting, Acknowledged, ClaimsExclusive

\* Some of the entries of the book.
LEMMA BookShrinks ==
    ASSUME Entered, NEW B \in SUBSET book
    PROVE  Orderly(B) /\ \A e \in B : e.order \in posted
<1>1. IsFiniteSet(B)
  BY FS_Subset DEF Entered, Orderly
<1> QED
  BY <1>1 DEF Entered, Orderly

LEMMA PlaceKeeps ==
    ASSUME IInv, NEW o \in Offers, place(o)
    PROVE  IInv'
<1> USE DEF IInv
<1>1. /\ o \in Orders /\ assert_64(LockedAmount(o))
      /\ placed' = placed \cup {o} /\ active' = active \cup {o}
      /\ UNCHANGED <<posted, book, sequence, batch, phase, sent, faults>>
  BY OffersAssumption DEF place, bookVars, passVars
<1>2. TypeOK'
  BY <1>1 DEF TypeOK
<1>3. Lockable'
  BY <1>1 DEF Lockable
<1>4. Entered' /\ Amounting' /\ Waiting' /\ Acknowledged' /\ ClaimsExclusive'
  BY <1>1 DEF Entered, Amounting, Waiting, Acknowledged, ClaimsExclusive
<1> QED
  BY <1>2, <1>3, <1>4

LEMMA SubmitKeeps ==
    ASSUME IInv, NEW o \in Offers, submit(o)
    PROVE  IInv'
<1> USE DEF IInv
<1> DEFINE e == [order |-> o, seq |-> sequence]
<1>1. /\ o \in Orders /\ o \notin posted
      /\ posted' = posted \cup {o}
      /\ book' = book \cup {e} /\ sequence' = sequence + 1
      /\ UNCHANGED <<active, placed, batch, phase, sent, faults>>
  BY OffersAssumption DEF submit, passVars
<1>2. e \in Entries /\ e.order = o /\ e.seq = sequence
  BY <1>1 DEF TypeOK, Entries
<1> HIDE DEF e
<1>3. TypeOK'
  <2>1. /\ sequence' \in Nat /\ book' \subseteq Entries
        /\ \A x \in book' : x.seq < sequence'
    BY <1>1, <1>2 DEF TypeOK, Entries
  <2> QED
    BY <1>1, <2>1 DEF TypeOK
<1>4. Entered'
  <2>1. \A x \in book : x.order # o /\ x.seq # sequence
    BY <1>1 DEF Entered, TypeOK, Entries
  <2>2. IsFiniteSet(book')
    BY <1>1, FS_AddElement DEF Entered, Orderly
  <2>3. book' \subseteq Entries
    BY <1>3 DEF TypeOK
  <2>4. \A x, y \in book' : x.order = y.order \/ x.seq = y.seq => x = y
    BY <1>1, <1>2, <2>1 DEF Entered, Orderly
  <2>5. \A x \in book' : x.order \in posted'
    BY <1>1, <1>2 DEF Entered
  <2> QED
    BY <2>2, <2>3, <2>4, <2>5 DEF Entered, Orderly
<1>5. Acknowledged'
  BY <1>1, <1>2 DEF Acknowledged
<1>6. Lockable' /\ Amounting' /\ Waiting' /\ ClaimsExclusive'
  BY <1>1 DEF Lockable, Amounting, Waiting, ClaimsExclusive
<1> QED
  BY <1>3, <1>4, <1>5, <1>6

LEMMA CancelKeeps ==
    ASSUME IInv, NEW o \in active, cancel(o)
    PROVE  IInv'
<1> USE DEF IInv
<1>1. /\ active' \subseteq active
      /\ UNCHANGED <<placed, posted, book, sequence, batch, phase, sent, faults>>
  BY DEF cancel, bookVars, passVars
<1>2. TypeOK'
  BY <1>1 DEF TypeOK
<1>3. /\ Lockable' /\ Entered' /\ Amounting' /\ Waiting' /\ Acknowledged'
      /\ ClaimsExclusive'
  BY <1>1 DEF Lockable, Entered, Amounting, Waiting, Acknowledged, ClaimsExclusive
<1> QED
  BY <1>2, <1>3

\* A settlement ends, in a ledger or not: nothing is claimed that was not.
LEMMA EndingKeeps ==
    ASSUME IInv, active' \subseteq Orders, sent' \subseteq sent,
           faults' \in 0 .. MaxFaults,
           UNCHANGED <<placed, posted, book, sequence, batch, phase>>
    PROVE  IInv'
<1> USE DEF IInv
<1>1. TypeOK'
  BY DEF TypeOK
<1>2. /\ Lockable' /\ Entered' /\ Amounting' /\ Waiting' /\ Acknowledged'
      /\ ClaimsExclusive'
  BY DEF Lockable, Entered, Amounting, Waiting, Acknowledged, ClaimsExclusive
<1> QED
  BY <1>1, <1>2

LEMMA FaultCounted ==
    ASSUME TypeOK, fault
    PROVE  faults' \in 0 .. MaxFaults
BY FaultsAssumption DEF TypeOK, fault

LEMMA ApplyKeeps ==
    ASSUME IInv, NEW tx \in sent, apply(tx)
    PROVE  IInv'
<1>1. tx.match \in Matches /\ Sized(tx.match)
  BY DEF IInv, TypeOK, Amounting
<1>2. residuals(tx.match) \subseteq Orders
  BY <1>1, ResidualsTyped
<1>3. active' \subseteq Orders
  BY <1>2 DEF apply, IInv, TypeOK
<1>4. faults' \in 0 .. MaxFaults
  BY DEF apply, IInv, TypeOK
<1> QED
  BY <1>3, <1>4, EndingKeeps DEF apply, bookVars, passVars

LEMMA ExpireKeeps ==
    ASSUME IInv, NEW tx \in sent, expire(tx)
    PROVE  IInv'
<1>1. faults' \in 0 .. MaxFaults
  BY FaultCounted DEF IInv, expire
<1>2. active' \subseteq Orders
  BY DEF IInv, TypeOK, expire, chainVars
<1> QED
  BY <1>1, <1>2, EndingKeeps DEF expire, chainVars, bookVars, passVars

\* A pass takes its orders from the book, where no claimed order is.
LEMMA TickKeeps ==
    ASSUME IInv, tick
    PROVE  IInv'
<1> USE DEF IInv
<1>1. /\ batch' \in findMatches(book) /\ phase' = Phase(batch')
      /\ UNCHANGED <<active, placed, posted, book, sequence, sent, faults>>
  BY DEF tick, chainVars, bookVars
<1> DEFINE X == UNION {Made(book, PairOf(e.order)) : e \in book}
           b == batch'
<1>2. Orderly(book) /\ book \subseteq Entries
  BY DEF Entered, Orderly
<1>3. b \in Seq(X) /\ Prioritised(book, b)
  BY <1>1, <1>2, PassInOrder
<1>4. ASSUME NEW m \in X
      PROVE  m \in Matches /\ Sized(m)
             /\ \E x, y \in book : OrdersOf(m) = {x.order, y.order}
  <2>1. PICK e \in book : m \in Made(book, PairOf(e.order))
    OBVIOUS
  <2>2. PICK x \in book, y \in book :
               /\ m = computeMatch(x.order, y.order)
               /\ m.buy = x.order /\ m.sell = y.order
    BY <1>2, <2>1, MadeOf
  <2>3. x.order \in Orders /\ y.order \in Orders
    BY <1>2 DEF Entries
  <2> QED
    BY <2>2, <2>3, MatchTyped DEF OrdersOf
<1> HIDE DEF X
<1>5. \A i \in DOMAIN b : b[i] \in X
  BY <1>3
<1>6. b \in Seq(Matches)
  <2>1. X \subseteq Matches
    BY <1>4
  <2> QED
    BY <1>3, <2>1
<1>7. phase' \in {"idle", "proving"} /\ (phase' = "idle" <=> b = <<>>)
  BY <1>1 DEF Phase
<1>8. TypeOK'
  BY <1>1, <1>6, <1>7 DEF TypeOK
<1>9. Amounting'
  BY <1>1, <1>4, <1>5 DEF Amounting
<1>10. Waiting'
  <2>1. \A i \in DOMAIN b : \E x, y \in book : OrdersOf(b[i]) = {x.order, y.order}
    BY <1>4, <1>5
  <2>2. \A i \in DOMAIN b : OrdersOf(b[i]) \subseteq posted
    BY <2>1 DEF Entered
  <2>3. \A i \in DOMAIN b : \A tx \in sent :
          tx.answered => OrdersOf(b[i]) \cap OrdersOf(tx.match) = {}
    BY <2>1 DEF Acknowledged
  <2>4. \A i, j \in DOMAIN b : i # j => OrdersOf(b[i]) \cap OrdersOf(b[j]) = {}
    BY <1>3 DEF Prioritised, OrdersOf
  <2> QED
    BY <1>1, <2>2, <2>3, <2>4 DEF Waiting
<1>11. Lockable' /\ Entered' /\ Acknowledged' /\ ClaimsExclusive'
  BY <1>1 DEF Lockable, Entered, Acknowledged, ClaimsExclusive
<1> QED
  BY <1>8, <1>9, <1>10, <1>11

\* The pass goes to its next match: what waits is what waited behind the first.
LEMMA NextMatchMoves ==
    ASSUME IInv, phase # "idle", NextMatch
    PROVE  /\ batch' \in Seq(Matches)
           /\ phase' \in {"idle", "proving"}
           /\ phase' = "idle" <=> batch' = <<>>
           /\ \A i \in DOMAIN batch' : i + 1 \in DOMAIN batch /\ batch'[i] = batch[i + 1]
           /\ 1 \in DOMAIN batch /\ Head(batch) = batch[1]
           /\ \A i \in DOMAIN batch' : i + 1 # 1
<1>1. batch \in Seq(Matches) /\ batch # <<>>
  BY DEF IInv, TypeOK
<1>2. batch' = Tail(batch) /\ phase' = Phase(batch')
  BY DEF NextMatch
<1>3. Tail(batch) \in Seq(Matches)
  BY <1>1
<1>4. \A i \in DOMAIN Tail(batch) :
        i + 1 \in DOMAIN batch /\ Tail(batch)[i] = batch[i + 1] /\ i + 1 # 1
  BY <1>1
<1>5. 1 \in DOMAIN batch /\ Head(batch) = batch[1]
  BY <1>1
<1>6. phase' \in {"idle", "proving"} /\ (phase' = "idle" <=> batch' = <<>>)
  BY <1>2 DEF Phase
<1> QED
  BY <1>2, <1>3, <1>4, <1>5, <1>6

\* A match is given up, or sent without an answer.
LEMMA GivingUpKeeps ==
    ASSUME IInv, phase # "idle", NextMatch, faults' \in 0 .. MaxFaults,
           sent' \in {sent, sent \cup {[match |-> Head(batch), answered |-> FALSE]}},
           UNCHANGED <<active, placed, posted, book, sequence>>
    PROVE  IInv'
<1> USE DEF IInv
<1> DEFINE tx == [match |-> Head(batch), answered |-> FALSE]
<1>1. /\ batch' \in Seq(Matches) /\ phase' \in {"idle", "proving"}
      /\ phase' = "idle" <=> batch' = <<>>
  BY NextMatchMoves
<1>2. \A i \in DOMAIN batch' : i + 1 \in DOMAIN batch /\ batch'[i] = batch[i + 1]
  BY NextMatchMoves
<1>3. 1 \in DOMAIN batch /\ Head(batch) = batch[1]
  BY NextMatchMoves
<1>4. /\ tx \in [match : Matches, answered : BOOLEAN]
      /\ Sized(tx.match) /\ ~ tx.answered
  BY <1>3 DEF TypeOK, Amounting
<1>5. \A t \in sent' : t \in sent \/ t = tx
  OBVIOUS
<1> HIDE DEF tx
<1>6. TypeOK'
  BY <1>1, <1>4, <1>5 DEF TypeOK
<1>7. Amounting'
  BY <1>2, <1>4, <1>5 DEF Amounting
<1>8. Waiting'
  <2>1. ASSUME NEW i \in DOMAIN batch', NEW j \in DOMAIN batch', i # j
        PROVE  OrdersOf(batch'[i]) \cap OrdersOf(batch'[j]) = {}
    <3>1. i + 1 # j + 1
      <4>1. i \in Int /\ j \in Int
        BY <1>1
      <4> QED
        BY <2>1, <4>1
    <3> QED
      BY <1>2, <3>1 DEF Waiting
  <2>2. \A i \in DOMAIN batch' : OrdersOf(batch'[i]) \subseteq posted
    BY <1>2 DEF Waiting
  <2>3. \A i \in DOMAIN batch' : \A t \in sent' :
          t.answered => OrdersOf(batch'[i]) \cap OrdersOf(t.match) = {}
    BY <1>2, <1>4, <1>5 DEF Waiting
  <2> QED
    BY <2>1, <2>2, <2>3 DEF Waiting
<1>9. Acknowledged'
  BY <1>4, <1>5 DEF Acknowledged
<1>10. ClaimsExclusive'
  BY <1>4, <1>5 DEF ClaimsExclusive
<1>11. Lockable' /\ Entered'
  BY DEF Lockable, Entered
<1> QED
  BY <1>6, <1>7, <1>8, <1>9, <1>10, <1>11

\* A match goes on to the next step of its own.
LEMMA GoingOnKeeps ==
    ASSUME IInv, phase # "idle", phase' \in {"preparing", "sending"},
           UNCHANGED <<active, placed, posted, book, sequence, batch, sent, faults>>
    PROVE  IInv'
<1> USE DEF IInv
<1>1. TypeOK'
  BY DEF TypeOK
<1>2. /\ Lockable' /\ Entered' /\ Amounting' /\ Waiting' /\ Acknowledged'
      /\ ClaimsExclusive'
  BY DEF Lockable, Entered, Amounting, Waiting, Acknowledged, ClaimsExclusive
<1> QED
  BY <1>1, <1>2

LEMMA ProveKeeps ==
    ASSUME IInv, prove
    PROVE  IInv'
<1>1. /\ phase # "idle"
      /\ UNCHANGED <<active, placed, posted, book, sequence, sent>>
  BY DEF prove, chainVars, bookVars
<1>2. CASE phase' = "preparing" /\ UNCHANGED <<batch, faults>>
  BY <1>1, <1>2, GoingOnKeeps
<1>3. CASE NextMatch /\ (UNCHANGED faults \/ fault)
  <2>1. faults' \in 0 .. MaxFaults
    BY <1>3, FaultCounted DEF IInv, TypeOK
  <2> QED
    BY <1>1, <1>3, <2>1, GivingUpKeeps
<1> QED
  BY <1>2, <1>3 DEF prove

LEMMA PrepareKeeps ==
    ASSUME IInv, prepare
    PROVE  IInv'
<1>1. /\ phase # "idle"
      /\ UNCHANGED <<active, placed, posted, book, sequence, sent>>
  BY DEF prepare, chainVars, bookVars
<1>2. CASE phase' = "sending" /\ UNCHANGED <<batch, faults>>
  BY <1>1, <1>2, GoingOnKeeps
<1>3. CASE NextMatch /\ (UNCHANGED faults \/ fault)
  <2>1. faults' \in 0 .. MaxFaults
    BY <1>3, FaultCounted DEF IInv, TypeOK
  <2> QED
    BY <1>1, <1>3, <2>1, GivingUpKeeps
<1> QED
  BY <1>2, <1>3 DEF prepare

LEMMA SendFailsKeeps ==
    ASSUME IInv, send_fails
    PROVE  IInv'
<1>1. /\ phase # "idle" /\ NextMatch
      /\ UNCHANGED <<active, placed, posted, book, sequence>>
  BY DEF send_fails, chainVars, bookVars
<1>2. faults' \in 0 .. MaxFaults
  BY FaultCounted DEF IInv, send_fails
<1> QED
  BY <1>1, <1>2, GivingUpKeeps DEF send_fails

\* The network acknowledges a settlement: its orders leave the book, and
\* neither what waits nor what was acknowledged has them.
LEMMA SendKeeps ==
    ASSUME IInv, send
    PROVE  IInv'
<1> USE DEF IInv
<1> DEFINE m == Head(batch)
           tx == [match |-> m, answered |-> TRUE]
<1>1. /\ phase # "idle" /\ NextMatch
      /\ sent' = sent \cup {tx}
      /\ book' = {e \in book : e.order \notin OrdersOf(m)}
      /\ UNCHANGED <<active, placed, posted, sequence, faults>>
  BY DEF send, remove, OrdersOf, chainVars
<1>2. /\ batch' \in Seq(Matches) /\ phase' \in {"idle", "proving"}
      /\ phase' = "idle" <=> batch' = <<>>
  BY <1>1, NextMatchMoves
<1>3. \A i \in DOMAIN batch' : /\ i + 1 \in DOMAIN batch
                               /\ batch'[i] = batch[i + 1] /\ i + 1 # 1
  BY <1>1, NextMatchMoves
<1>4. 1 \in DOMAIN batch /\ m = batch[1]
  BY <1>1, NextMatchMoves
<1>5. m \in Matches /\ Sized(m) /\ tx.match = m
      /\ tx \in [match : Matches, answered : BOOLEAN]
  BY <1>4 DEF TypeOK, Amounting
<1>6. /\ OrdersOf(m) \subseteq posted
      /\ \A t \in sent : t.answered => OrdersOf(m) \cap OrdersOf(t.match) = {}
  BY <1>4 DEF Waiting
<1>7. \A t \in sent' : t \in sent \/ t = tx
  BY <1>1
<1> HIDE DEF m, tx
<1>8. TypeOK'
  BY <1>1, <1>2, <1>5 DEF TypeOK
<1>9. Entered'
  <2>1. book' \in SUBSET book
    BY <1>1
  <2>2. Orderly(book') /\ \A e \in book' : e.order \in posted
    BY <2>1, BookShrinks
  <2> QED
    BY <1>1, <2>2 DEF Entered, Orderly
<1>10. Amounting'
  BY <1>3, <1>5, <1>7 DEF Amounting
<1>11. Waiting'
  <2>1. ASSUME NEW i \in DOMAIN batch', NEW j \in DOMAIN batch', i # j
        PROVE  OrdersOf(batch'[i]) \cap OrdersOf(batch'[j]) = {}
    <3>1. i + 1 # j + 1
      <4>1. i \in Int /\ j \in Int
        BY <1>2
      <4> QED
        BY <2>1, <4>1
    <3> QED
      BY <1>3, <3>1 DEF Waiting
  <2>2. \A i \in DOMAIN batch' : OrdersOf(batch'[i]) \subseteq posted'
    BY <1>1, <1>3 DEF Waiting
  <2>3. \A i \in DOMAIN batch' : OrdersOf(batch'[i]) \cap OrdersOf(m) = {}
    BY <1>3, <1>4 DEF Waiting
  <2>4. \A i \in DOMAIN batch' : \A t \in sent :
          t.answered => OrdersOf(batch'[i]) \cap OrdersOf(t.match) = {}
    BY <1>3 DEF Waiting
  <2> QED
    BY <1>5, <1>7, <2>1, <2>2, <2>3, <2>4 DEF Waiting
<1>12. Acknowledged'
  BY <1>1, <1>5, <1>6, <1>7 DEF Acknowledged
<1>13. ClaimsExclusive'
  BY <1>5, <1>6, <1>7 DEF ClaimsExclusive, OrdersOf
<1>14. Lockable'
  BY <1>1 DEF Lockable
<1> QED
  BY <1>8, <1>9, <1>10, <1>11, <1>12, <1>13, <1>14

LEMMA RestartKeeps ==
    ASSUME IInv, restart
    PROVE  IInv'
<1> USE DEF IInv
<1>1. /\ book' = {} /\ sequence' = 0 /\ batch' = <<>> /\ phase' = "idle"
      /\ UNCHANGED <<active, placed, posted, sent>>
  BY DEF restart, chainVars
<1>2. faults' \in 0 .. MaxFaults
  BY FaultCounted DEF restart
<1>3. TypeOK'
  BY <1>1, <1>2 DEF TypeOK
<1>4. Entered'
  BY <1>1, FS_EmptySet DEF Entered, Orderly
<1>5. Lockable' /\ Amounting' /\ Waiting' /\ Acknowledged' /\ ClaimsExclusive'
  BY <1>1 DEF Lockable, Amounting, Waiting, Acknowledged, ClaimsExclusive
<1> QED
  BY <1>3, <1>4, <1>5

LEMMA NextIInv == IInv /\ [Next]_vars => IInv'
<1> SUFFICES ASSUME IInv, [Next]_vars PROVE IInv'
  OBVIOUS
<1>1. CASE UNCHANGED vars
  BY <1>1
  DEF vars, IInv, TypeOK, Lockable, Entered, Amounting, Waiting, Acknowledged,
      ClaimsExclusive
<1>2. CASE Next
  BY <1>2, PlaceKeeps, SubmitKeeps, CancelKeeps, ApplyKeeps, ExpireKeeps, TickKeeps,
     ProveKeeps, PrepareKeeps, SendKeeps, SendFailsKeeps, RestartKeeps
  DEF Next, Service
<1> QED
  BY <1>1, <1>2

\* Type correctness of the service.
THEOREM MatcherTyped == Spec => []TypeOK
BY InitIInv, NextIInv, PTL DEF Spec, IInv

\* An order whose settlement was acknowledged is in no other one that was,
\* whatever the prover, the network and the host do.
THEOREM ClaimsAlwaysExclusive == Spec => []ClaimsExclusive
BY InitIInv, NextIInv, PTL DEF Spec, IInv

\* Every pass matches its book in price-time priority.
THEOREM PriorityAlways == Spec => PriceTimePriority
<1> DEFINE matched(b) == {e \in book : \E m \in Range(b) : e.order \in {m.buy, m.sell}}
<1>1. ASSUME IInv, [Next]_vars, phase = "idle", phase' = "proving"
      PROVE  LET taken == matched(batch')
             IN /\ \A i, j \in DOMAIN batch' :
                     i # j => {batch'[i].buy, batch'[i].sell}
                                \cap {batch'[j].buy, batch'[j].sell} = {}
                /\ \A x \in taken, y \in book \ taken : SameBook(x, y) => Better(x, y)
                /\ \A x, y \in book \ taken :
                     /\ x.order.side = BUY /\ y.order.side = SELL
                     /\ x.order.quote = y.order.quote
                     => x.order.price < y.order.price
  <2>1. tick
    <3>1. CASE UNCHANGED vars
      BY <1>1, <3>1 DEF vars
    <3>2. CASE Next
      BY <1>1, <3>2
      DEF Next, Service, place, submit, cancel, apply, expire, prove, prepare, send,
          send_fails, restart, passVars
    <3> QED
      BY <1>1, <3>1, <3>2
  <2>2. Prioritised(book, batch')
    BY <1>1, <2>1, PassInOrder DEF tick, IInv, Entered
  <2>3. \A e \in book : e \in matched(batch') <=> Taken(batch', e)
    BY DEF Taken, Range
  <2>4. matched(batch') \subseteq book
    OBVIOUS
  <2> HIDE DEF matched
  <2> QED
    BY <2>2, <2>3, <2>4 DEF Prioritised
<1>2. IInv /\ [Next]_vars =>
        [phase = "idle" /\ phase' = "proving" =>
         LET matched_ == {e \in book : \E m \in Range(batch') :
                                        e.order \in {m.buy, m.sell}}
         IN /\ \A i, j \in DOMAIN batch' :
                  i # j => {batch'[i].buy, batch'[i].sell}
                             \cap {batch'[j].buy, batch'[j].sell} = {}
            /\ \A x \in matched_, y \in book \ matched_ :
                  SameBook(x, y) => Better(x, y)
            /\ \A x, y \in book \ matched_ :
                  /\ x.order.side = BUY /\ y.order.side = SELL
                  /\ x.order.quote = y.order.quote
                  => x.order.price < y.order.price]_vars
  BY <1>1
<1> QED
  BY <1>2, InitIInv, NextIInv, PTL DEF Spec, PriceTimePriority

LEMMA OffersAreOrders ==
    \A o \in Offers : OrderValues(o) /\ o.base = "base"
BY OffersAssumption DEF Orders, OrderValues

LEMMA BookOffered == IInv => \A e \in book : e.order \in Offers
BY DEF IInv, Entered, TypeOK

\* Whatever two placed orders of the book cross, the prover finds a witness
\* for the settlement that the engine computes.
THEOREM EngineMirrorsAlways == Spec => []EngineMirrorsCircuit
<1>1. IInv => EngineMirrorsCircuit
  <2> SUFFICES ASSUME IInv, NEW x \in book, NEW y \in book,
                      {x.order, y.order} \subseteq placed,
                      x.order.side = BUY, y.order.side = SELL,
                      x.order.quote = y.order.quote,
                      Crosses(x.order, y.order)
               PROVE  Provable(computeMatch(x.order, y.order))
    BY DEF EngineMirrorsCircuit
  <2>1. /\ OrderValues(x.order) /\ OrderValues(y.order)
        /\ x.order.base = y.order.base
    BY OffersAreOrders, BookOffered
  <2>2. LockedAmount(x.order) \in Amounts
    BY DEF IInv, Lockable, assert_64
  <2> QED
    BY <2>1, <2>2, CrossingIsProvable DEF Crosses
<1> QED
  BY <1>1, InitIInv, NextIInv, PTL DEF Spec

\* Whatever two orders of the book cross, the memos of their settlement reach
\* the owners of its outputs.
THEOREM SettlementDeliversAlways == Spec => []SettlementDelivers
<1>1. IInv => SettlementDelivers
  <2> SUFFICES ASSUME IInv, NEW x \in book, NEW y \in book,
                      x.order.side = BUY, y.order.side = SELL,
                      x.order.quote = y.order.quote
               PROVE  Delivered(computeMatch(x.order, y.order))
    BY DEF SettlementDelivers
  <2> DEFINE m == computeMatch(x.order, y.order)
  <2>1. m.buy = x.order /\ m.sell = y.order
    BY DEF computeMatch
  <2>2. x.order \in Orders /\ y.order \in Orders
    BY OffersAssumption, BookOffered
  <2>3. ASSUME NEW o \in Orders, NEW outcome, NEW nonce
        PROVE  /\ Residual(o, outcome, nonce).owner = o.owner
               /\ Residual(o, outcome, nonce).side \in {BUY, SELL}
    BY DEF Residual, Orders
  <2> HIDE DEF m
  <2>4. Delivered(m)
    BY <2>1, <2>2, <2>3, SettlementIsDelivered
  <2> QED
    BY <2>4 DEF m
<1> QED
  BY <1>1, InitIInv, NextIInv, PTL DEF Spec
=============================================================================
