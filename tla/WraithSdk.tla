----------------------------- MODULE WraithSdk -----------------------------
(***************************************************************************)
(* The client library of the dark pool (sdk/src): the notes and orders it  *)
(* makes, its wallet, and the inputs it builds for the circuits.  An       *)
(* operation is the set of what it may return, empty where it throws; what *)
(* it draws at random (blindings, nonces) is a parameter.  An optional     *)
(* field is a set of at most one value.  `tree` is the sequence of leaves  *)
(* of the mirror (NoteTree has its roots, PoolMerkle its paths).           *)
(***************************************************************************)
EXTENDS Circuits, SequencesExt, FiniteSetsExt

TreeDepth == 20

-----------------------------------------------------------------------------
(* note.ts and order.ts                                                    *)

createOutputNote(assetId, amount, ownerKey, blinding) ==
    {[assetId |-> assetId, amount |-> a, ownerKey |-> ownerKey, blinding |-> blinding,
      commitment |-> note_commitment(assetId, a, ownerKey, blinding)]
        : a \in {amount} \cap Amounts}

createNote(assetId, amount, spendingKey, blinding) ==
    {n @@ [spendingKey |-> spendingKey, leafIndex |-> {}, assetAddress |-> {}]
        : n \in createOutputNote(assetId, amount, owner_key(spendingKey), blinding)}

noteNullifier(note) == nullifier(note.commitment, note.spendingKey)

computeOrderCommitment(o) ==
    order_commitment(o.side, o.price, o.amount, o.assetBase, o.assetQuote,
                     o.ownerKey, o.nonce)

\* params: [side, price, amount, assetBase, assetQuote]
createOrder(params, ownerKey, nonce) ==
    LET o == params @@ [ownerKey |-> ownerKey, nonce |-> nonce]
    IN  IF {params.price, params.amount} \subseteq Amounts
        THEN {o @@ [commitment |-> computeOrderCommitment(o)]} ELSE {}

orderLockedAmount(o) ==
    IF o.side = BUY
    THEN [assetId |-> o.assetQuote, amount |-> mul_div_price(o.amount, o.price)]
    ELSE [assetId |-> o.assetBase, amount |-> o.amount]

-----------------------------------------------------------------------------
(* wallet.ts                                                               *)

EmptyWallet == [notes |-> {}, spent |-> {}, orders |-> {}]

removeNote(wallet, commitment) ==
    [wallet EXCEPT !.notes = {n \in @ : n.commitment # commitment}]
addNote(wallet, note) ==
    [removeNote(wallet, note.commitment) EXCEPT !.notes = @ \cup {note}]
markNoteSpent(wallet, note) ==
    [removeNote(wallet, note.commitment) EXCEPT !.spent = @ \cup {noteNullifier(note)}]

removeOrder(wallet, commitment) ==
    [wallet EXCEPT !.orders = {o \in @ : o.commitment # commitment}]
addOrder(wallet, order) ==
    [removeOrder(wallet, order.commitment) EXCEPT !.orders = @ \cup {order}]

Sum(notes) == MapThenSumSet(LAMBDA n : n.amount, notes)

getNotes(wallet, assetId) == {n \in wallet.notes : n.assetId = assetId}
getBalance(wallet, assetId) == Sum(getNotes(wallet, assetId))

\* Largest first, until the amount is covered; notes of one amount come in
\* the order in which the wallet stored them, which is left open.
selectNotes(wallet, assetId, amount) ==
    LET candidates == getNotes(wallet, assetId)
        LargestFirst(S) == \A n \in S, m \in candidates \ S : n.amount >= m.amount
        Smallest(S) == {n \in S : \A m \in S : m.amount >= n.amount}
    IN  {S \in SUBSET candidates :
            /\ LargestFirst(S)
            /\ Sum(S) >= amount
            /\ \A n \in Smallest(S) : Sum(S \ {n}) < amount}

-----------------------------------------------------------------------------
(* prover.ts: what is handed to the circuits, by the circuits' names       *)

buildWithdrawInputs(note, path) ==
    [merkle_root |-> path.root, nullifier |-> noteNullifier(note),
     amount |-> note.amount, asset_id |-> note.assetId,
     note_amount |-> note.amount, note_asset_id |-> note.assetId,
     note_owner_key |-> note.ownerKey, note_blinding |-> note.blinding,
     spending_key |-> note.spendingKey,
     merkle_path |-> path, merkle_indices |-> path.index]

buildTransferInputs(root, in, paths, out) ==
    [merkle_root |-> root,
     nullifier_0 |-> noteNullifier(in[1]), nullifier_1 |-> noteNullifier(in[2]),
     out_commitment_0 |-> out[1].commitment, out_commitment_1 |-> out[2].commitment,
     in_amount |-> [i \in 1 .. 2 |-> in[i].amount],
     in_asset_id |-> [i \in 1 .. 2 |-> in[i].assetId],
     in_spending_key |-> [i \in 1 .. 2 |-> in[i].spendingKey],
     in_blinding |-> [i \in 1 .. 2 |-> in[i].blinding],
     in_merkle_path |-> paths,
     in_merkle_indices |-> [i \in 1 .. 2 |-> paths[i].index],
     out_amount |-> [i \in 1 .. 2 |-> out[i].amount],
     out_owner_key |-> [i \in 1 .. 2 |-> out[i].ownerKey],
     out_blinding |-> [i \in 1 .. 2 |-> out[i].blinding],
     out_asset_id |-> [i \in 1 .. 2 |-> out[i].assetId]]

\* change: the change note, or nothing.
buildPlaceOrderInputs(note, path, order, change) ==
    [merkle_root |-> path.root, nullifier |-> noteNullifier(note),
     order_commitment |-> order.commitment,
     change_commitment |-> IF change = {} THEN ZeroField
                           ELSE (CHOOSE c \in change : TRUE).commitment,
     locked_asset_id |-> orderLockedAmount(order).assetId,
     note_amount |-> note.amount, note_asset_id |-> note.assetId,
     note_blinding |-> note.blinding, spending_key |-> note.spendingKey,
     merkle_path |-> path, merkle_indices |-> path.index,
     order_side |-> order.side, order_price |-> order.price,
     order_amount |-> order.amount, order_asset_base |-> order.assetBase,
     order_asset_quote |-> order.assetQuote, order_nonce |-> order.nonce,
     change_amount |-> note.amount - orderLockedAmount(order).amount,
     change_blinding |-> IF change = {} THEN ZeroField
                         ELSE (CHOOSE c \in change : TRUE).blinding]

buildCancelOrderInputs(order, spendingKey, refund) ==
    [order_commitment |-> order.commitment, refund_commitment |-> refund.commitment,
     refund_asset_id |-> refund.assetId, side |-> order.side,
     price |-> order.price, amount |-> order.amount,
     asset_base |-> order.assetBase, asset_quote |-> order.assetQuote,
     nonce |-> order.nonce, spending_key |-> spendingKey,
     refund_blinding |-> refund.blinding]

\* secrets: the blindings and nonces of what the match creates.
buildMatchOrdersInputs(a, b, m, secrets) ==
    [order_commitment_a |-> a.commitment, order_commitment_b |-> b.commitment,
     fill_note_buyer |-> m.fillNoteBuyer, fill_note_seller |-> m.fillNoteSeller,
     residual_order_a |-> m.settled[1].residual, residual_order_b |-> m.settled[2].residual,
     refund_note_a |-> m.settled[1].refund, refund_note_b |-> m.settled[2].refund,
     a_side |-> a.side, a_price |-> a.price, a_amount |-> a.amount,
     a_asset_base |-> a.assetBase, a_asset_quote |-> a.assetQuote,
     a_owner_key |-> a.ownerKey, a_nonce |-> a.nonce,
     b_side |-> b.side, b_price |-> b.price, b_amount |-> b.amount,
     b_asset_base |-> b.assetBase, b_asset_quote |-> b.assetQuote,
     b_owner_key |-> b.ownerKey, b_nonce |-> b.nonce,
     buyer_fill_blinding |-> secrets.buyer_fill,
     seller_fill_blinding |-> secrets.seller_fill,
     residual_a_nonce |-> secrets.residual[1], residual_b_nonce |-> secrets.residual[2],
     refund_a_blinding |-> secrets.refund[1], refund_b_blinding |-> secrets.refund[2]]

-----------------------------------------------------------------------------
(* match.ts                                                                *)

settleOrder(order, fill, quoteFilled, residualNonce, refundBlinding) ==
    LET residualAmount == order.amount - fill
        refundAmount == IF residualAmount = 0 /\ order.side = BUY
                        THEN mul_div_price(order.amount, order.price) - quoteFilled
                        ELSE 0
    IN  [residualAmount |-> residualAmount, refundAmount |-> refundAmount,
         residual |-> IF residualAmount = 0 THEN ZeroField
                      ELSE computeOrderCommitment(
                             [order EXCEPT !.amount = residualAmount,
                                           !.nonce = residualNonce]),
         refund |-> IF refundAmount = 0 THEN ZeroField
                    ELSE note_commitment(order.assetQuote, refundAmount,
                                         order.ownerKey, refundBlinding)]

\* Plain integers: nothing is cast to 64 bits here.
computeMatch(a, b, secrets) ==
    LET buy == IF a.side = BUY THEN a ELSE b
        sell == IF a.side = BUY THEN b ELSE a
        execPrice == (buy.price + sell.price) \div 2
        fill == IF buy.amount < sell.amount THEN buy.amount ELSE sell.amount
        quoteFilled == (fill * execPrice) \div PRICE_SCALE
        pair == <<a, b>>
    IN  IF a.side = b.side \/ a.assetBase # b.assetBase \/ a.assetQuote # b.assetQuote
              \/ buy.price < sell.price
        THEN {}
        ELSE {[execPrice |-> execPrice, fill |-> fill, quoteFilled |-> quoteFilled,
               fillNoteBuyer |-> note_commitment(a.assetBase, fill, buy.ownerKey,
                                                 secrets.buyer_fill),
               fillNoteSeller |-> note_commitment(a.assetQuote, quoteFilled, sell.ownerKey,
                                                  secrets.seller_fill),
               settled |-> [i \in 1 .. 2 |->
                   settleOrder(pair[i], fill, quoteFilled, secrets.residual[i],
                               secrets.refund[i])]]}

-----------------------------------------------------------------------------
(* index.ts: the operations of a wallet.  sdk: [spendingKey, wallet, tree] *)

Start(spendingKey) == [spendingKey |-> spendingKey, wallet |-> EmptyWallet, tree |-> <<>>]

Root(tree) == [of |-> "root", leaves |-> tree]
ZerosPath == [leaf |-> ZeroField, index |-> 0, root |-> Root(<<>>)]

generateProof(tree, leafIndex) ==
    {[leaf |-> tree[i + 1], index |-> i, root |-> Root(tree)]
        : i \in {leafIndex} \cap (0 .. Len(tree) - 1)}

\* A note without an index cannot be proved: it throws.
merkleProofFor(sdk, note) == UNION {generateProof(sdk.tree, i) : i \in note.leafIndex}

observeCommitment(sdk, commitment) ==
    IF Len(sdk.tree) >= 2 ^ TreeDepth THEN {}
    ELSE {[sdk EXCEPT
             !.tree = Append(@, commitment),
             !.wallet.notes =
                 {IF n.commitment = commitment /\ n.leafIndex = {}
                  THEN [n EXCEPT !.leafIndex = {Len(sdk.tree)}] ELSE n : n \in @}]}

\* asset: [assetId, address]
deposit(sdk, asset, amount, blinding) ==
    {[sdk |-> [sdk EXCEPT !.wallet = addNote(@, note)], outputNotes |-> {note}]
        : note \in {[n EXCEPT !.assetAddress = asset.address] :
                n \in {c \in createNote(asset.assetId, amount, sdk.spendingKey, blinding) :
                         asset.address # {}}}}

\* The address of the asset is asked for after the proof has been made.
withdraw(sdk, note) ==
    {[sdk |-> [sdk EXCEPT !.wallet = markNoteSpent(@, note)],
      inputs |-> buildWithdrawInputs(note, path), outputNotes |-> {}]
        : path \in merkleProofFor(sdk, note), address \in note.assetAddress}

\* draws: the blindings of the payment, the change and the padding.
transfer(sdk, fromNotes, recipientOwnerKey, amount, draws) ==
    LET assetId == fromNotes[1].assetId
        total == FoldSeq(LAMBDA n, s : s + n.amount, 0, fromNotes)
        Path(n) == IF n.amount = 0 THEN {ZerosPath} ELSE merkleProofFor(sdk, n)
        Paid == FoldSeq(LAMBDA n, w : markNoteSpent(w, n), sdk.wallet, fromNotes)
        Outcome(in, payment, change) ==
            {[sdk |-> [sdk EXCEPT !.wallet = addNote(Paid, change)],
              inputs |-> buildTransferInputs(Root(sdk.tree), in, <<p, q>>, <<payment, change>>),
              outputNotes |-> {change}] : p \in Path(in[1]), q \in Path(in[2])}
    IN  IF Len(fromNotes) \notin 1 .. 2 \/ total < amount THEN {}
        ELSE UNION {Outcome(SubSeq(Append(fromNotes, padding), 1, 2), payment, change)
                : payment \in createOutputNote(assetId, amount, recipientOwnerKey, draws[1]),
                  change \in createNote(assetId, total - amount, sdk.spendingKey, draws[2]),
                  padding \in createNote(assetId, 0, sdk.spendingKey, draws[3])}

placeOrder(sdk, note, params, nonce, blinding) ==
    LET ChangeNote(locked) ==     \* none, one, or a refusal
            IF note.amount = locked.amount THEN {{}}
            ELSE {{c} : c \in createNote(note.assetId, note.amount - locked.amount,
                                         note.spendingKey, blinding)}
        Backed(order) == /\ note.assetId = orderLockedAmount(order).assetId
                         /\ note.amount >= orderLockedAmount(order).amount
        Stored(order, change) ==
            LET w == addOrder(markNoteSpent(sdk.wallet, note), order)
            IN  FoldSet(LAMBDA c, x : addNote(x, c), w, change)
    IN  UNION {{[sdk |-> [sdk EXCEPT !.wallet = Stored(order, change)],
                 inputs |-> buildPlaceOrderInputs(note, path, order, change),
                 outputNotes |-> change, order |-> order]
                    : path \in merkleProofFor(sdk, note),
                      change \in ChangeNote(orderLockedAmount(order))}
            : order \in {o \in createOrder(params, owner_key(note.spendingKey), nonce) :
                            Backed(o)}}

cancelOrder(sdk, order, spendingKey, blinding) ==
    {[sdk |-> [sdk EXCEPT !.wallet = addNote(removeOrder(@, order.commitment), refund)],
      inputs |-> buildCancelOrderInputs(order, spendingKey, refund),
      outputNotes |-> {refund}]
        : refund \in createNote(orderLockedAmount(order).assetId,
                                orderLockedAmount(order).amount, spendingKey, blinding)}

-----------------------------------------------------------------------------
(***************************************************************************)
(* What the client library and the circuits must agree on, over every      *)
(* order and every pair of notes of a small instance.  MCPoolMerkle and    *)
(* MCMatcher assume its statements, so that TLC evaluates them.            *)
(***************************************************************************)

SdkAssets == {"base", "quote"}
Key == "key"

Only(S) == CHOOSE x \in S : TRUE

\* A wallet that deposits and then sees the commitment in the tree.
Receive(c, sdk) ==
    LET done == Only(deposit(sdk, [assetId |-> c.asset, address |-> {c.asset}],
                             c.amount, c.blinding))
    IN  Only(observeCommitment(done.sdk, Only(done.outputNotes).commitment))

\* Somebody else's note is the first leaf.
Funded(coins) ==
    FoldSeq(Receive, Only(observeCommitment(Start(Key), ZeroField)), coins)

Coins(blinding) == [asset : SdkAssets, amount : Amounts, blinding : {blinding}]
HeldNote(sdk, blinding) == Only({n \in sdk.wallet.notes : n.blinding = blinding})

OrderParams == [side : {BUY, SELL}, price : Amounts, amount : Amounts,
                assetBase : {"base"}, assetQuote : {"quote"}]

AsOrder(o) == [side |-> o.side, price |-> o.price, amount |-> o.amount,
               base |-> o.assetBase, quote |-> o.assetQuote]

-----------------------------------------------------------------------------
\* The library places an order exactly when the place_order circuit has a
\* proof of it, and what it hands over is one: its unbounded subtraction and
\* the circuit's casts and field subtraction draw the same line.
PlacesWhatIsProvable ==
    \A coin \in Coins("x"), params \in OrderParams :
        LET sdk == Funded(<<coin>>)
            placed == placeOrder(sdk, HeldNote(sdk, "x"), params, "n", "y")
        IN  /\ placed # {} <=> LockRelation(coin, AsOrder(params))
            /\ \A p \in placed : place_order_main(p.inputs)

\* An order that was placed can be cancelled, the circuit accepts what the
\* library builds for it, and the wallet then holds what it held before.
CancelRestores ==
    \A coin \in Coins("x"), params \in OrderParams :
        LET sdk == Funded(<<coin>>)
            Cancelled(p) == cancelOrder(p.sdk, p.order, Key, "z")
        IN  \A p \in placeOrder(sdk, HeldNote(sdk, "x"), params, "n", "y") :
                /\ Cancelled(p) # {}
                /\ \A c \in Cancelled(p) :
                      /\ cancel_order_main(c.inputs)
                      /\ c.sdk.wallet.orders = {}
                      /\ \A a \in SdkAssets :
                            getBalance(c.sdk.wallet, a) = getBalance(sdk.wallet, a)

\* The library asks of a transfer only that its notes cover the amount; the
\* circuit refuses two notes of different assets that both matter and a note
\* that is spent twice, after the library has added their amounts up.
TransfersProvableIf ==
    \A c \in Coins("x"), d \in Coins("y"), amount \in Amounts :
        LET sdk == Funded(<<c, d>>)
            x == HeldNote(sdk, "x")
            y == HeldNote(sdk, "y")
            Sent(notes) == transfer(sdk, notes, owner_key("other"), amount,
                                    <<"p", "q", "r">>)
        IN  /\ Sent(<<x>>) # {} <=> c.amount >= amount
            /\ \A t \in Sent(<<x>>) : transfer_main(t.inputs)
            /\ \A t \in Sent(<<x, y>>) :
                  transfer_main(t.inputs) <=> (c.asset = d.asset \/ d.amount = 0)
            /\ \A t \in Sent(<<x, x>>) : ~transfer_main(t.inputs)

\* selectNotes finds notes whenever the balance covers the amount, and never
\* more of them than are needed (wallet.ts: "to minimize the number of inputs").
SelectsFewest ==
    \A c \in Coins("x"), d \in Coins("y"), e \in Coins("z"), amount \in 1 .. 2 * U64 :
        LET wallet == Funded(<<c, d, e>>).wallet
            held == getNotes(wallet, "base")
            selected == selectNotes(wallet, "base", amount)
        IN  /\ selected # {} <=> getBalance(wallet, "base") >= amount
            /\ \A S \in selected, T \in SUBSET held :
                  Sum(T) >= amount => Cardinality(S) <= Cardinality(T)

\* A deposited note can be withdrawn once it is seen in the tree.  The change
\* of an order is seen there too, but has no token address: the library throws.
OnlyDepositsWithdraw ==
    \A coin \in Coins("x"), params \in OrderParams :
        LET sdk == Funded(<<coin>>)
            note == HeldNote(sdk, "x")
        IN  /\ \E w \in withdraw(sdk, note) : withdraw_main(w.inputs)
            /\ \A p \in placeOrder(sdk, note, params, "n", "y") :
                  \A change \in p.outputNotes :
                      \A seen \in observeCommitment(p.sdk, change.commitment) :
                          /\ merkleProofFor(seen, HeldNote(seen, "y")) # {}
                          /\ withdraw(seen, HeldNote(seen, "y")) = {}

-----------------------------------------------------------------------------
MatchSecrets == [buyer_fill |-> "fb", seller_fill |-> "fs",
                 residual |-> <<"ra", "rb">>, refund |-> <<"ua", "ub">>]

\* computeMatch settles two orders exactly when the circuit finds them
\* compatible, and what it builds is a proof unless an amount leaves 64 bits.
MatchesWhatIsProvable ==
    \A p, q \in OrderParams :
        LET a == Only(createOrder(p, owner_key("alice"), "na"))
            b == Only(createOrder(q, owner_key("bob"), "nb"))
            found == computeMatch(a, b, MatchSecrets)
        IN  /\ found # {} <=> Compatible(AsOrder(a), AsOrder(b))
            /\ \A m \in found :
                  match_orders_main(buildMatchOrdersInputs(a, b, m, MatchSecrets))
                      <=> MatchFits(AsOrder(a), AsOrder(b))
=============================================================================
