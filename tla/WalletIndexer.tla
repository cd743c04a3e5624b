--------------------------- MODULE WalletIndexer ----------------------------
(***************************************************************************)
(* The wallet in the browser: the indexer that rebuilds the note tree and  *)
(* the owner's notes from the pool's events (frontend/src/lib/indexer.ts,  *)
(* indexer-service.ts), the note store in localStorage (note-store.ts) and *)
(* the operations that create notes (real-sdk.ts, and the deposit from     *)
(* Ethereum in Bridge.tsx and bridge.ts), against a chain whose ledgers    *)
(* keep coming and a tab that may be reloaded between any two steps.       *)
(*                                                                         *)
(* A ledger holds one event of the pool.  A commitment is the note it      *)
(* opens to.  The wallet's own notes are the deposits, whose blinding is   *)
(* derived from a counter (the salt), the outputs that carry a memo for    *)
(* the owner, and the change and refunds of orders and the bridged notes,  *)
(* which carry neither; every other note is foreign.  One asset and one deposit amount stand    *)
(* for one key of depositCount.                                            *)
(***************************************************************************)
EXTENDS Integers, Sequences, FiniteSets

CONSTANTS
    MaxLedger,      \* bound: ledgers
    MaxTx,          \* bound: transactions that the wallet or others build
    MaxReloads,     \* bound: reloads of the tab
    MaxErrors       \* bound: passes cut short by a failing getEvents

ASSUME BoundsAssumption ==
    {MaxLedger, MaxTx, MaxReloads, MaxErrors} \subseteq Nat

Ids == 0 .. MaxTx
Dep(salt) == [kind |-> "deposit", id |-> salt]
Out(id) == [kind |-> "output", id |-> id]
Rest(id) == [kind |-> "rest", id |-> id]
Bridged(id) == [kind |-> "bridged", id |-> id]
Foreign(id) == [kind |-> "foreign", id |-> id]
Empty(id) == [kind |-> "empty", id |-> id]        \* change of amount 0
Kinds == {"deposit", "output", "rest", "bridged", "foreign", "empty"}
Notes == [kind : Kinds, id : Ids]

\* An index that a stored note has not got.
None == -1

VARIABLES
    chain,      \* the pool's events, ledger by ledger
    leaves,     \* the pool's note tree
    mempool,    \* transactions that were sent and may still be applied
    fresh,      \* transactions built so far: names notes and orders
    live,       \* the WraithIndexer in memory
    pass,       \* the sync pass in flight
    op,         \* the wallet operation that awaits its confirmation
    known,      \* notes in the store,
    leafIndex,  \*   the leaf index each has,
    marked,     \*   and the ones marked spent
    orders,     \* orders in the store
    open,       \*   and the ones with status 'open'
    disk,       \* the stored leaves and cursor
    reloads, errors

network == <<chain, leaves, mempool, fresh>>
store == <<known, leafIndex, marked, orders, open>>
counters == <<reloads, errors>>
vars == <<network, live, pass, op, store, disk, counters>>

Idle == [pc |-> "idle", latest |-> 0, next |-> 0, found |-> {}, spent |-> {}]
NoOp == [type |-> "none", id |-> 0, notes |-> <<>>, burns |-> {},
         closes |-> {}, opens |-> {}, base |-> 0]

Elements(s) == {s[i] : i \in 1 .. Len(s)}
Ledgers == 1 .. Len(chain)

-----------------------------------------------------------------------------
(* The chain                                                               *)

Burnt == UNION {chain[l].burns : l \in Ledgers}
Active == UNION {chain[l].opens : l \in Ledgers} \
          UNION {chain[l].closes : l \in Ledgers}

Tx(type, notes, burns, closes, opens) ==
    [type |-> type, id |-> fresh + 1, notes |-> notes, burns |-> burns,
     closes |-> closes, opens |-> opens, base |-> Len(leaves)]

\* A ledger closes with transaction t: its leaves go to the end of the tree.
close(t) ==
    /\ Len(chain) < MaxLedger
    /\ chain' = Append(chain, [t EXCEPT !.base = Len(leaves)])
    /\ leaves' = leaves \o t.notes

\* A transaction of the wallet is applied up to 120 s after it was built,
\* unless its input is spent or its order gone by then.
apply(t) ==
    /\ t.burns \cap Burnt = {}
    /\ t.closes \subseteq Active
    /\ close(t)
    /\ mempool' = mempool \ {t}
    /\ UNCHANGED <<fresh, live, pass, op, store, disk, counters>>

expire(t) ==
    /\ mempool' = mempool \ {t}
    /\ UNCHANGED <<chain, leaves, fresh, live, pass, op, store, disk, counters>>

\* What others do: deposits, orders, payments to the owner, and matches of
\* the owner's orders, which the matcher learns from the wallet, leaving a
\* residual order behind or not.
OthersTx ==
    LET id == fresh + 1
    IN {Tx("deposit", <<Foreign(id)>>, {}, {}, {}),
        Tx("order_placed", <<Foreign(id)>>, {}, {}, {}),
        Tx("transfer", <<Foreign(id), Out(id)>>, {}, {}, {})}
       \cup {Tx("order_matched", <<Out(id)>>, {}, {o}, residual) :
                o \in orders \cap Active, residual \in {{}, {id}}}

others(t) ==
    /\ fresh < MaxTx
    /\ close(t)
    /\ fresh' = fresh + 1
    /\ UNCHANGED <<mempool, live, pass, op, store, disk, counters>>

-----------------------------------------------------------------------------
(* The indexer: what it makes of one event                                 *)

StoredDeposits(notes) == Cardinality({n \in notes : n.kind = "deposit"})

\* hydrate: a fresh indexer from what is stored.
hydrate_NoSalts == [leaves |-> disk.leaves, cursor |-> disk.cursor,
                    count |-> 0, watch |-> known \ marked]

hydrate == [leaves |-> disk.leaves, cursor |-> disk.cursor,
            count |-> StoredDeposits(known), watch |-> known \ marked]

\* Orders insert change and refunds without publishing an index.
Indexed(e) == e.type \notin {"order_placed", "order_cancelled"}

NewLeaves_NoLeafSet(tree, e) ==
    IF Indexed(e)
    THEN SubSeq(e.notes, Len(tree) - e.base + 1, Len(e.notes))
    ELSE e.notes

\* The leaves of e that the tree has not got: by index (insertLeaf, which
\* throws at a gap), or else by commitment (appendLeaf: there is one at most).
NewLeaves(tree, e) ==
    IF Indexed(e)
    THEN SubSeq(e.notes, Len(tree) - e.base + 1, Len(e.notes))
    ELSE IF Elements(e.notes) \subseteq Elements(tree) THEN <<>> ELSE e.notes

\* The notes of e that the wallet recognises, with their index: a deposit is
\* matched against the next salt only, a memo speaks for itself.
Recognised(e) ==
    {<<e.notes[i], e.base + i - 1>> : i \in
        {j \in 1 .. Len(e.notes) :
            CASE e.type = "deposit" -> e.notes[j] = Dep(live.count)
              [] e.type \in {"transfer", "order_matched"} -> e.notes[j].kind = "output"
              [] OTHER -> FALSE}}

NotesOf(found) == {f[1] : f \in found}

\* Which of the owner's notes e reports as spent: place_order does not
\* publish its nullifier.
Published(e) == IF e.type \in {"transfer", "withdraw"} THEN e.burns ELSE {}

\* A recognised deposit uses up its salt.
CountAfter_EveryDeposit(e) ==
    IF e.type = "deposit" THEN live.count + 1 ELSE live.count

CountAfter(e) ==
    IF e.type = "deposit" THEN live.count + Cardinality(Recognised(e)) ELSE live.count

\* A match fills the owner's order (markMatchedOrder) and delivers its residual
\* (recoverResidualOrder), which is kept unless it is known.
OpenAfter_KeepsPartial(e) ==
    IF e.type # "order_matched" THEN open
    ELSE IF e.opens = {} THEN open \ e.closes ELSE open \cup (e.opens \ orders)

OpenAfter(e) ==
    IF e.type = "order_matched"
    THEN (open \ e.closes) \cup (e.opens \ orders) ELSE open

\* appendLeaf back-fills the index of a stored note that has none.
BackFill(e) ==
    LET new == NewLeaves(live.leaves, e)
    IN [n \in known |->
          IF ~Indexed(e) /\ n \in Elements(new) /\ leafIndex[n] = None
          THEN Len(live.leaves) ELSE leafIndex[n]]

-----------------------------------------------------------------------------
(* A sync pass: started by the interval, by connecting and by operations,  *)
(* one at a time                                                           *)

\* The pool's first ledger is 1.
StartAt(cursor) == IF cursor > 1 THEN cursor ELSE 1

\* getLatestLedger answered; an error there ends the pass without effect.
syncIndexer ==
    /\ pass.pc = "idle"
    /\ pass' = [Idle EXCEPT
                   !.pc = IF StartAt(live.cursor) > Len(chain) THEN "leaves" ELSE "read",
                   !.latest = Len(chain), !.next = StartAt(live.cursor)]
    /\ UNCHANGED <<network, live, op, store, disk, counters>>

applyEvent ==
    /\ pass.pc = "read"
    /\ pass.next \in Ledgers
    /\ LET e == chain[pass.next]
           mine == Recognised(e)
           watch == live.watch \cup NotesOf(mine)
           spent == watch \cap Published(e)
       IN /\ Indexed(e) => e.base <= Len(live.leaves)
          /\ live' = [live EXCEPT !.leaves = @ \o NewLeaves(@, e),
                                  !.count = CountAfter(e),
                                  !.watch = watch \ spent]
          /\ pass' = [pass EXCEPT !.next = @ + 1, !.found = @ \cup mine,
                                  !.spent = @ \cup spent]
          /\ leafIndex' = BackFill(e)
          /\ orders' = orders \cup IF e.type = "order_matched" THEN e.opens ELSE {}
          /\ open' = OpenAfter(e)
    /\ UNCHANGED <<network, op, known, marked, disk, counters>>

getEvents_fails_StaysInflight ==
    /\ pass.pc = "read"
    /\ errors < MaxErrors
    /\ errors' = errors + 1
    /\ pass' = [Idle EXCEPT !.pc = "read"]
    /\ UNCHANGED <<network, live, op, store, disk, reloads>>

\* getEvents fails between two pages: the pass throws, memory stays as it is.
getEvents_fails ==
    /\ pass.pc = "read"
    /\ errors < MaxErrors
    /\ errors' = errors + 1
    /\ pass' = Idle
    /\ UNCHANGED <<network, live, op, store, disk, reloads>>

persist_SavesCursor ==
    /\ pass.pc = "read"
    /\ pass.next > Len(chain)
    /\ known' = known \cup NotesOf(pass.found)
    /\ leafIndex' = [n \in known' |->
                       IF n \in known THEN leafIndex[n]
                       ELSE (CHOOSE f \in pass.found : f[1] = n)[2]]
    /\ marked' = marked \cup (pass.spent \cap known')
    /\ live' = [live EXCEPT !.cursor = pass.latest + 1]
    /\ pass' = [pass EXCEPT !.pc = "leaves"]
    /\ UNCHANGED <<network, op, orders, open, counters>>
    /\ disk' = [disk EXCEPT !.cursor = pass.latest + 1]

\* Caught up: found notes are stored unless known, spends are marked, and the
\* cursor in memory moves behind the ledger that was the latest at the start.
persist ==
    /\ pass.pc = "read"
    /\ pass.next > Len(chain)
    /\ known' = known \cup NotesOf(pass.found)
    /\ leafIndex' = [n \in known' |->
                       IF n \in known THEN leafIndex[n]
                       ELSE (CHOOSE f \in pass.found : f[1] = n)[2]]
    /\ marked' = marked \cup (pass.spent \cap known')
    /\ live' = [live EXCEPT !.cursor = pass.latest + 1]
    /\ pass' = [pass EXCEPT !.pc = "leaves"]
    /\ UNCHANGED <<network, op, orders, open, disk, counters>>

saveLeaves ==
    /\ pass.pc = "leaves"
    /\ disk' = [disk EXCEPT !.leaves = live.leaves]
    /\ pass' = [pass EXCEPT !.pc = "cursor"]
    /\ UNCHANGED <<network, live, op, store, counters>>

saveIndexCursor ==
    /\ pass.pc = "cursor"
    /\ disk' = [disk EXCEPT !.cursor = live.cursor]
    /\ pass' = Idle
    /\ UNCHANGED <<network, live, op, store, counters>>

\* The tab is reloaded or dies: what is in memory is lost, and the indexer
\* starts again from what is stored.
reload ==
    /\ reloads < MaxReloads
    /\ reloads' = reloads + 1
    /\ live' = hydrate
    /\ pass' = Idle
    /\ op' = NoOp
    /\ UNCHANGED <<network, store, disk, errors>>

\* reconcileSpentNotes: is_spent of the pool, note by note.
reconcile(n) ==
    /\ n \in (known \ marked) \cap Burnt
    /\ marked' = marked \cup {n}
    /\ UNCHANGED <<network, live, pass, op, known, leafIndex, orders, open,
                   disk, counters>>

-----------------------------------------------------------------------------
(* The operations                                                          *)

\* submitOp: the transaction is built, signed and sent.
submit(t) ==
    /\ op = NoOp
    /\ fresh < MaxTx
    /\ fresh' = fresh + 1
    /\ mempool' = mempool \cup {t}
    /\ op' = t
    /\ UNCHANGED <<chain, leaves, live, pass, store, disk, counters>>

\* A note the wallet can prove: its index is known and the indexer's tree has
\* it there (spendWitness, proveAndVerify).
Spendable(n) ==
    /\ n \in known \ marked
    /\ leafIndex[n] \in 0 .. Len(live.leaves) - 1
    /\ live.leaves[leafIndex[n] + 1] = n

\* The salt of a deposit is the number of deposits in the store.
deposit == submit(Tx("deposit", <<Dep(StoredDeposits(known))>>, {}, {}, {}))

transfer(n) ==
    /\ Spendable(n)
    /\ \E change \in {<<Empty(fresh + 1)>>, <<Out(fresh + 1)>>} :
         submit(Tx("transfer", <<Foreign(fresh + 1)>> \o change, {n}, {}, {}))

withdraw(n) == Spendable(n) /\ submit(Tx("withdraw", <<>>, {n}, {}, {}))

placeOrder(n) ==
    /\ Spendable(n)
    /\ \E change \in {<<>>, <<Rest(fresh + 1)>>} :
         submit(Tx("order_placed", change, {n}, {}, {fresh + 1}))

cancelOrder(o) ==
    /\ o \in open
    /\ submit(Tx("order_cancelled", <<Rest(fresh + 1)>>, {}, {o}, {}))

\* A deposit from Ethereum: the note is made, its commitment is locked on L1,
\* and the relayer may have it minted, soon, late or never.
createBridgeNote == Bridged(fresh + 1)
lockOnL1(n) == submit(Tx("bridge_mint", <<n>>, {}, {}, {}))
runEthIn == lockOnL1(createBridgeNote)

\* Each operation resumes when getTransaction reports success, the deposit from
\* Ethereum when a poll finds the commitment minted: the input is marked, the
\* owner's new notes go to the store as fresh copies, and orders are kept.  The
\* index of a transfer's change is where the tree ended when the transfer was
\* built; that of a deposit is the contract's return value; notes of orders and
\* bridged notes get none.
awaitConfirmation(l) == op.type # "bridge_mint" /\ chain[l].id = op.id
pollUntil(l) == op.type = "bridge_mint" /\ chain[l].id = op.id

OwnNotes(t) == {n \in Elements(t.notes) : n.kind \notin {"foreign", "empty"}}

IndexOf_ReadBefore(t, returned) ==
    CASE t.type \in {"deposit", "transfer"} -> t.base + 1
      [] OTHER -> None

IndexOf(t, returned) ==
    CASE t.type = "deposit" -> returned
      [] t.type = "transfer" -> t.base + 1
      [] OTHER -> None

confirm(l) ==
    /\ op # NoOp
    /\ awaitConfirmation(l) \/ pollUntil(l)
    /\ known' = known \cup OwnNotes(op)
    /\ leafIndex' = [n \in known' |-> IF n \in OwnNotes(op)
                                     THEN IndexOf(op, chain[l].base)
                                     ELSE leafIndex[n]]
    /\ marked' = (marked \cup (op.burns \cap known)) \ OwnNotes(op)
    /\ orders' = orders \cup op.opens
    /\ open' = (open \ op.closes) \cup op.opens
    /\ op' = NoOp
    /\ UNCHANGED <<network, live, pass, disk, counters>>

give_up_KeepsNote ==
    /\ op # NoOp
    /\ op' = NoOp
    /\ known' = known \cup OwnNotes(op)
    /\ leafIndex' = [n \in known' |-> IF n \in known THEN leafIndex[n] ELSE None]
    /\ UNCHANGED <<network, live, pass, marked, orders, open, disk, counters>>

\* After 90 s, or a refusal, the operation throws; the transaction may still
\* be applied.  The deposit from Ethereum waits for six minutes, twice.
give_up ==
    /\ op # NoOp
    /\ op' = NoOp
    /\ UNCHANGED <<network, live, pass, store, disk, counters>>

-----------------------------------------------------------------------------
Init ==
    /\ chain = <<>> /\ leaves = <<>> /\ mempool = {} /\ fresh = 0
    /\ live = [leaves |-> <<>>, cursor |-> 0, count |-> 0, watch |-> {}]
    /\ pass = Idle /\ op = NoOp
    /\ known = {} /\ marked = {} /\ orders = {} /\ open = {}
    /\ leafIndex = [n \in known |-> None]
    /\ disk = [leaves |-> <<>>, cursor |-> 0]
    /\ reloads = 0 /\ errors = 0

Chain ==
    \/ \E t \in mempool : apply(t) \/ expire(t)
    \/ \E t \in OthersTx : others(t)

Sync ==
    \/ syncIndexer \/ applyEvent \/ getEvents_fails
    \/ persist \/ saveLeaves \/ saveIndexCursor
    \/ reload
    \/ \E n \in known : reconcile(n)

Operation ==
    \/ deposit
    \/ \E n \in known : transfer(n) \/ withdraw(n) \/ placeOrder(n)
    \/ \E o \in open : cancelOrder(o)
    \/ runEthIn
    \/ \E l \in Ledgers : confirm(l)
    \/ give_up

Next == Chain \/ Sync \/ Operation

\* The interval keeps starting passes while the wallet is connected, and a
\* started pass goes on; nothing makes operations or ledgers happen.
Fairness ==
    WF_vars(syncIndexer \/ applyEvent \/ persist \/ saveLeaves \/ saveIndexCursor)

Spec == Init /\ [][Next]_vars /\ Fairness

-----------------------------------------------------------------------------
(* Properties                                                              *)

Trees == Seq(Notes)
Events == [type : {"deposit", "transfer", "withdraw", "order_placed",
                   "order_cancelled", "order_matched", "bridge_mint"},
           id : Ids, notes : Seq(Notes), burns : SUBSET Notes,
           closes : SUBSET Ids, opens : SUBSET Ids, base : Nat]

\* Type invariant.
TypeOK ==
    /\ chain \in Seq(Events) /\ leaves \in Trees
    /\ mempool \subseteq Events /\ fresh \in Ids
    /\ live \in [leaves : Trees, cursor : Nat, count : Ids, watch : SUBSET Notes]
    /\ pass \in [pc : {"idle", "read", "leaves", "cursor"}, latest : Nat,
                 next : Nat, found : SUBSET (Notes \X Nat), spent : SUBSET Notes]
    /\ op = NoOp \/ op \in Events
    /\ known \subseteq Notes /\ marked \subseteq known
    /\ leafIndex \in [known -> Nat \cup {None}]
    /\ open \subseteq orders /\ orders \subseteq Ids
    /\ disk \in [leaves : Trees, cursor : Nat]
    /\ reloads \in 0 .. MaxReloads /\ errors \in 0 .. MaxErrors

IsPrefixOf(s, t) == Len(s) <= Len(t) /\ \A i \in 1 .. Len(s) : s[i] = t[i]

\* The tree that witnesses are made from is a prefix of the pool's, in memory
\* and on disk, though events are read again, order leaves carry no index and
\* are told apart by commitment only, and the tab may be reloaded anywhere.
TreeIsPrefix == IsPrefixOf(live.leaves, leaves) /\ IsPrefixOf(disk.leaves, leaves)

\* Reading on never meets a gap: neither the running pass nor one that starts
\* from the stored leaves and cursor after a reload.  This is why the leaves
\* are saved before the cursor.
NoGap ==
    /\ StartAt(disk.cursor) \in Ledgers =>
         chain[StartAt(disk.cursor)].base <= Len(disk.leaves)
    /\ pass.pc = "read" /\ pass.next \in Ledgers =>
         chain[pass.next].base <= Len(live.leaves)

Read == {l \in Ledgers : l < disk.cursor}

\* A payment or a fill in a ledger that will not be read again is in the
\* store, although notes are kept in memory until the pass is caught up and
\* passes fail and tabs reload in between.  So is a deposit, as long as no pass
\* was cut short: counting salts survives reloads, deposits that were given up
\* and applied late, and passes that race the deposit which they discover.
Recovered ==
    \A l \in Read : \A n \in Elements(chain[l].notes) \ known :
        /\ n.kind # "output"
        /\ n.kind = "deposit" => errors > 0

\* The comment on sync: an RPC error in the middle is always safe to retry.  A
\* deposit that is read is in the store, or the operation that made it is there
\* to put it in.
RetryIsSafe ==
    \A l \in Read : \A n \in Elements(chain[l].notes) :
        n.kind = "deposit" => n \in known \cup Elements(op.notes)

\* The wallet shows no note that is not in the pool and hides none as spent
\* that is not: balances never count money that is not there, and never lose
\* any to an operation that failed.
StoreBacked == known \subseteq Elements(leaves) /\ marked \subseteq Burnt

\* A stored index is where the pool has the note, however it came to be known;
\* the exception is the change of a transfer, whose index is a guess.
TransferChange == {n \in Notes : \E l \in Ledgers :
                     /\ chain[l].type = "transfer" /\ chain[l].burns # {}
                     /\ n \in Elements(chain[l].notes)}
IndexTrue ==
    \A n \in known \ TransferChange :
        leafIndex[n] # None => leafIndex[n] < Len(leaves) /\ leaves[leafIndex[n] + 1] = n

\* An order that a match consumed is not offered for cancelling any more once
\* its ledger is read, residuals of residuals among them.
MatchedNotOpen ==
    \A l \in Read : chain[l].type = "order_matched" => chain[l].closes \cap open = {}

\* Every payment and, if no pass is cut short, every deposit of the owner that
\* is on chain is discovered, whether or not the operation that made it was
\* still waiting.
Undiscovered == {n \in Elements(leaves) \ known :
                   n.kind = "output" \/ (n.kind = "deposit" /\ errors = 0)}
Discovered == []<>(Undiscovered = {})

\* The comment on setLeafIndexForCommitment: a note created locally without an
\* index gets one when its leaf is indexed, so that it can be spent; and the
\* comment on createBridgeNote: the minted note interoperates with the pool.
Unindexed == {n \in (known \ marked) \cap Elements(leaves) : leafIndex[n] = None}
BackFilled == []<>(Unindexed = {})
=============================================================================
