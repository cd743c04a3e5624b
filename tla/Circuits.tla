------------------------------ MODULE Circuits ------------------------------
(***************************************************************************)
(* The circuits of the dark pool (circuits/noir) as relations of their     *)
(* inputs, by the names their main functions give them.  A hash is the     *)
(* record of what it was made from.  A Merkle path is named by the leaf    *)
(* and the index it leads up from and the root it folds to (PoolMerkle).   *)
(***************************************************************************)
EXTENDS SwapArithmetic

owner_key(spending_key) == [of |-> "owner", secret |-> spending_key]

note_commitment(asset_id, amount, owner, blinding) ==
    [of |-> "note", asset |-> asset_id, amount |-> amount, owner |-> owner,
     blinding |-> blinding]

order_commitment(side, price, amount, asset_base, asset_quote, owner, nonce) ==
    [of |-> "order", side |-> side, price |-> price, amount |-> amount,
     base |-> asset_base, quote |-> asset_quote, owner |-> owner,
     nonce |-> nonce]

nullifier(commitment, spending_key) ==
    [of |-> "nullifier", note |-> commitment, secret |-> spending_key]

ZeroField == [of |-> "zero"]

compute_merkle_root(leaf, path, index) ==
    IF path.leaf = leaf /\ path.index = index THEN path.root ELSE ZeroField

-----------------------------------------------------------------------------
withdraw_main(in) ==
    LET note == note_commitment(in.note_asset_id, in.note_amount,
                                owner_key(in.spending_key), in.note_blinding)
    IN  /\ in.nullifier = nullifier(note, in.spending_key)
        /\ in.merkle_root = compute_merkle_root(note, in.merkle_path, in.merkle_indices)
        /\ in.note_amount = in.amount /\ in.note_asset_id = in.asset_id
        /\ assert_64(in.amount)

\* Membership and asset are asked of inputs that carry value only.
transfer_main(in) ==
    LET note == [i \in 1 .. 2 |->
            note_commitment(in.in_asset_id[i], in.in_amount[i],
                            owner_key(in.in_spending_key[i]), in.in_blinding[i])]
        out == [j \in 1 .. 2 |->
            note_commitment(in.out_asset_id[j], in.out_amount[j],
                            in.out_owner_key[j], in.out_blinding[j])]
        nullifiers == <<in.nullifier_0, in.nullifier_1>>
    IN  /\ \A i \in 1 .. 2 :
              /\ assert_64(in.in_amount[i])
              /\ nullifiers[i] = nullifier(note[i], in.in_spending_key[i])
              /\ in.in_amount[i] # 0 =>
                    /\ in.merkle_root = compute_merkle_root(note[i],
                           in.in_merkle_path[i], in.in_merkle_indices[i])
                    /\ in.in_asset_id[i] = in.in_asset_id[1]
        /\ \A j \in 1 .. 2 :
              /\ assert_64(in.out_amount[j])
              /\ out[j] = <<in.out_commitment_0, in.out_commitment_1>>[j]
              /\ in.out_amount[j] # 0 => in.out_asset_id[j] = in.in_asset_id[1]
        /\ (in.in_amount[1] + in.in_amount[2]) % FIELD
              = (in.out_amount[1] + in.out_amount[2]) % FIELD
        /\ in.nullifier_0 # in.nullifier_1

place_order_main(in) ==
    LET owner == owner_key(in.spending_key)
        note == note_commitment(in.note_asset_id, in.note_amount, owner, in.note_blinding)
        order == order_commitment(in.order_side, in.order_price, in.order_amount,
                     in.order_asset_base, in.order_asset_quote, owner, in.order_nonce)
    IN  /\ in.nullifier = nullifier(note, in.spending_key)
        /\ in.merkle_root = compute_merkle_root(note, in.merkle_path, in.merkle_indices)
        /\ in.order_commitment = order
        /\ in.order_side \in {BUY, SELL}
        /\ LockRelation(note, order)
        /\ in.change_amount = Change(note, order)
        /\ in.locked_asset_id = LockedAsset(order)
        /\ in.change_commitment =
              IF in.change_amount = 0 THEN ZeroField
              ELSE note_commitment(in.note_asset_id, in.change_amount, owner,
                                   in.change_blinding)

cancel_order_main(in) ==
    LET owner == owner_key(in.spending_key)
        order == order_commitment(in.side, in.price, in.amount, in.asset_base,
                                  in.asset_quote, owner, in.nonce)
    IN  /\ in.order_commitment = order
        /\ in.side \in {BUY, SELL}
        /\ assert_64(in.amount) /\ assert_64(in.price)
        /\ in.refund_commitment = note_commitment(LockedAsset(order),
               LockedAmount(order), owner, in.refund_blinding)
        /\ in.refund_asset_id = LockedAsset(order)

settle_order(o, fill, quote, nonce, blinding) ==
    [residual |-> IF ResidualAmount(o, fill) = 0 THEN ZeroField
                  ELSE [o EXCEPT !.amount = ResidualAmount(o, fill), !.nonce = nonce],
     refund |-> IF RefundAmount(o, fill, quote) = 0 THEN ZeroField
                ELSE note_commitment(o.quote, RefundAmount(o, fill, quote),
                                     o.owner, blinding)]

match_orders_main(in) ==
    LET a == order_commitment(in.a_side, in.a_price, in.a_amount, in.a_asset_base,
                              in.a_asset_quote, in.a_owner_key, in.a_nonce)
        b == order_commitment(in.b_side, in.b_price, in.b_amount, in.b_asset_base,
                              in.b_asset_quote, in.b_owner_key, in.b_nonce)
        buyer == IF a.side = BUY THEN a.owner ELSE b.owner
        seller == IF a.side = BUY THEN b.owner ELSE a.owner
        fill == Fill(a, b)
        quote == QuoteFilled(a, b)
    IN  /\ in.order_commitment_a = a /\ in.order_commitment_b = b
        /\ {a.side, b.side} \subseteq {BUY, SELL}
        /\ Compatible(a, b) /\ MatchFits(a, b)
        /\ in.fill_note_buyer = note_commitment(a.base, fill, buyer, in.buyer_fill_blinding)
        /\ in.fill_note_seller = note_commitment(a.quote, quote, seller, in.seller_fill_blinding)
        /\ [residual |-> in.residual_order_a, refund |-> in.refund_note_a]
              = settle_order(a, fill, quote, in.residual_a_nonce, in.refund_a_blinding)
        /\ [residual |-> in.residual_order_b, refund |-> in.refund_note_b]
              = settle_order(b, fill, quote, in.residual_b_nonce, in.refund_b_blinding)
=============================================================================
