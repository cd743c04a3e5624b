----------------------------- MODULE Settlement -----------------------------
(***************************************************************************)
(* How the two owners learn what a match gave them.  The matcher draws the *)
(* blindings and nonces of the new notes and orders, computes their        *)
(* commitments (matcher/src/prover.ts) and seals each opening to its owner *)
(* (memo.ts, sdk/src/note-crypto.ts); the pool inserts the commitments and *)
(* emits them with the memos, position by position; each wallet tries      *)
(* every memo with its own key (frontend/src/lib/indexer.ts).              *)
(*                                                                         *)
(* A commitment carries what it opens to.  A wallet is named by its owner  *)
(* key, and a viewing key opens what was sealed to its public half.        *)
(***************************************************************************)
EXTENDS MatchingEngine, Sequences

deriveEncKeypair(owner) == [priv |-> <<owner>>, pub |-> <<owner, "public">>]
encodeReceiveCode(owner) ==
    [ownerKey |-> owner, encPub |-> deriveEncKeypair(owner).pub]

computeCommitment(note) == [of |-> "note", opening |-> note]
computeOrderCommitment(order) == [of |-> "order", opening |-> order]
Nothing == [of |-> "nothing"]       \* the zero field element

Note(asset, amount, owner, blinding) ==
    [asset |-> asset, amount |-> amount, owner |-> owner, blinding |-> blinding]

-----------------------------------------------------------------------------
(* The matcher                                                             *)

\* Drawn at random: what is told apart is only that no two coincide.
fillBlindings(m) ==
    [buyerFill |-> "fill", sellerFill |-> "quote",
     refundA |-> "refund a", refundB |-> "refund b",
     residualANonce |-> m.buy.nonce + 1, residualBNonce |-> m.sell.nonce + 1]

Residual(o, outcome, nonce) ==
    [o EXCEPT !.amount = outcome.residualAmount, !.nonce = nonce]

\* The public inputs.  That the two orders reopen to their commitments is
\* granted: an order stands for its commitment.
assembleMatchInputs(m) ==
    LET bl == fillBlindings(m)
        unless0(amount, c) == IF amount # 0 THEN c ELSE Nothing
    IN [fill_buyer |-> computeCommitment(
          Note(m.buy.base, m.fill, m.buy.owner, bl.buyerFill)),
        fill_seller |-> computeCommitment(
          Note(m.buy.quote, m.quoteFilled, m.sell.owner, bl.sellerFill)),
        residual_a |-> unless0(m.a.residualAmount,
          computeOrderCommitment(Residual(m.buy, m.a, bl.residualANonce))),
        residual_b |-> unless0(m.b.residualAmount,
          computeOrderCommitment(Residual(m.sell, m.b, bl.residualBNonce))),
        refund_a |-> unless0(m.a.refundAmount, computeCommitment(
          Note(m.buy.quote, m.a.refundAmount, m.buy.owner, bl.refundA))),
        refund_b |-> unless0(m.b.refundAmount, computeCommitment(
          Note(m.buy.quote, m.b.refundAmount, m.sell.owner, bl.refundB)))]

seal(recipientPub, payload) == [to |-> recipientPub, payload |-> payload]

\* The receive code that came with the order.
encPubOf(o) == encodeReceiveCode(o.owner).encPub

noteMemo(encPub, note, commitment) ==
    seal(encPub, [kind |-> "note", opening |-> note, commitment |-> commitment])
orderMemo(encPub, order, commitment) ==
    seal(encPub, [kind |-> "order", opening |-> order, commitment |-> commitment])

fillMemo(o, asset, amount, blinding, c) ==
    noteMemo(encPubOf(o), Note(asset, amount, o.owner, blinding), c)

refundMemo(o, outcome, blinding, c) ==
    IF outcome.refundAmount = 0 THEN <<>>
    ELSE <<fillMemo(o, o.quote, outcome.refundAmount, blinding, c)>>

residualMemo(o, outcome, nonce, c) ==
    IF outcome.residualAmount = 0 THEN <<>>
    ELSE <<orderMemo(encPubOf(o), Residual(o, outcome, nonce), c)>>

leafMemos_ByOwner(m, pub) ==
    LET bl == fillBlindings(m)
    IN <<fillMemo(m.buy, m.buy.base, m.fill, bl.buyerFill, pub.fill_buyer)>>
         \o refundMemo(m.buy, m.a, bl.refundA, pub.refund_a)
         \o <<fillMemo(m.sell, m.sell.quote, m.quoteFilled, bl.sellerFill, pub.fill_seller)>>
         \o refundMemo(m.sell, m.b, bl.refundB, pub.refund_b)

\* Ordering is load-bearing: fills, then refunds; residuals a, then b.
leafMemos(m, pub) ==
    LET bl == fillBlindings(m)
    IN <<fillMemo(m.buy, m.buy.base, m.fill, bl.buyerFill, pub.fill_buyer),
         fillMemo(m.sell, m.sell.quote, m.quoteFilled, bl.sellerFill, pub.fill_seller)>>
         \o refundMemo(m.buy, m.a, bl.refundA, pub.refund_a)
         \o refundMemo(m.sell, m.b, bl.refundB, pub.refund_b)

residualMemos(m, pub) ==
    LET bl == fillBlindings(m)
    IN residualMemo(m.buy, m.a, bl.residualANonce, pub.residual_a)
         \o residualMemo(m.sell, m.b, bl.residualBNonce, pub.residual_b)

buildMatchMemos(m) ==
    LET pub == assembleMatchInputs(m)
    IN [leafMemos |-> leafMemos(m, pub), residualMemos |-> residualMemos(m, pub)]

-----------------------------------------------------------------------------
(* The pool                                                                *)

opt_nonzero(c) == IF c = Nothing THEN <<>> ELSE <<c>>

leaf_commitments(pub) ==
    <<pub.fill_buyer, pub.fill_seller>>
      \o opt_nonzero(pub.refund_a) \o opt_nonzero(pub.refund_b)
residual_commitments(pub) ==
    opt_nonzero(pub.residual_a) \o opt_nonzero(pub.residual_b)

\* The memo lists are bound by count to the outputs.
MemosBound(pub, memos) ==
    /\ Len(memos.leafMemos) = Len(leaf_commitments(pub))
    /\ Len(memos.residualMemos) = Len(residual_commitments(pub))

-----------------------------------------------------------------------------
(* The wallet                                                              *)

open(recipient, memo) == memo.to = recipient.pub
decryptNote(recipient, memo) == open(recipient, memo) /\ memo.payload.kind # "order"
decryptOrder(recipient, memo) == open(recipient, memo) /\ memo.payload.kind = "order"

\* The wallet has found its note behind the leaf, with the memo beside it.
ownTransferOutput(who, leaf, memo) ==
    /\ decryptNote(deriveEncKeypair(who), memo)
    /\ memo.payload.opening.owner = who
    /\ computeCommitment(memo.payload.opening) = memo.payload.commitment
    /\ memo.payload.commitment = leaf

\* What the order store keeps of an order that can be cancelled.
StoredOrder(c) ==
    [commitment |-> c, order |-> c.opening, lockedAsset |-> LockedAsset(c.opening),
     lockedAmount |-> LockedAmount(c.opening)]

\* A sell locks base; a buy locks quote.
recoverResidualOrder(who, memo) ==
    LET p == memo.payload
        lockedIsBase == p.opening.side = SELL
    IN IF ~ (decryptOrder(deriveEncKeypair(who), memo) /\ p.opening.owner = who) THEN {}
       ELSE {[commitment |-> p.commitment, order |-> p.opening,
              lockedAsset |-> IF lockedIsBase THEN p.opening.base ELSE p.opening.quote,
              lockedAmount |-> IF lockedIsBase THEN p.opening.amount
                               ELSE (p.opening.amount * p.opening.price) \div PRICE_SCALE]}

-----------------------------------------------------------------------------
\* The pool takes the memos, and each of the two owners finds exactly his
\* leaves among those of the event and stores exactly his residual, with the
\* opening and the locked amount that the cancel_order circuit asks for.
Delivered(m) ==
    LET pub == assembleMatchInputs(m)
        memos == buildMatchMemos(m)
        leaves == leaf_commitments(pub)
        residuals == residual_commitments(pub)
    IN /\ MemosBound(pub, memos)
       /\ \A who \in {m.buy.owner, m.sell.owner} :
            /\ \A i \in DOMAIN leaves :
                 ownTransferOutput(who, leaves[i], memos.leafMemos[i])
                   <=> leaves[i].opening.owner = who
            /\ UNION {recoverResidualOrder(who, memos.residualMemos[j]) :
                         j \in DOMAIN residuals}
                 = {StoredOrder(residuals[j]) :
                      j \in {k \in DOMAIN residuals : residuals[k].opening.owner = who}}
=============================================================================
