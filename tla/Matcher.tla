------------------------------- MODULE Matcher -------------------------------
(***************************************************************************)
(* The off-chain matching service (matcher/src) between the wallets that   *)
(* post orders to it and the pool contract that settles them: the book,    *)
(* the background loop, and the asynchronous prove / prepare / send of     *)
(* each match, while orders arrive and owners cancel on chain.  An order   *)
(* stands for its commitment.                                              *)
(*                                                                         *)
(* Of the pool only the active order set is kept (WraithPool has the rest);*)
(* the service runs in its live mode with a real prover.                   *)
(***************************************************************************)
EXTENDS Settlement

CONSTANTS
    Owners,         \* owner keys
    Offers,         \* the orders that traders place and post, each once
    MaxFaults       \* how often the prover, the network or the host fails

Orders == [side : {BUY, SELL}, price : Amounts, amount : Amounts,
           base : {"base"}, quote : {"quote", "other"}, owner : Owners,
           nonce : Nat]

ASSUME OffersAssumption == Offers \subseteq Orders
ASSUME FaultsAssumption == MaxFaults \in Nat

VARIABLES
    active,      \* the pool's active order set
    placed,      \* the orders that were placed with place_order
    posted,      \* those that were posted to the matcher
    book,        \* the matcher's open orders, with their sequence numbers
    sequence,    \* the engine's submission counter
    batch,       \* the matches of the pass that are still to be processed
    phase,       \* where Head(batch) is; "idle" when no pass runs
    sent,        \* match_orders transactions that are neither applied nor expired
    faults       \* how many failures there have been

chainVars == <<active, placed, posted>>
bookVars == <<book, sequence>>
passVars == <<batch, phase>>
vars == <<active, placed, posted, book, sequence, batch, phase, sent, faults>>

-----------------------------------------------------------------------------
(* The pool and the traders                                                *)

\* place_order; the lock of a buy has to fit in 64 bits (OrdersRefundable).
place(o) ==
    /\ o \notin placed
    /\ assert_64(LockedAmount(o))
    /\ placed' = placed \cup {o}
    /\ active' = active \cup {o}
    /\ UNCHANGED <<posted, bookVars, passVars, sent, faults>>

\* cancel_order.  Nobody tells the matcher.
cancel(o) ==
    /\ o \in active
    /\ active' = active \ {o}
    /\ UNCHANGED <<placed, posted, bookVars, passVars, sent, faults>>

\* POST /orders.  The service checks the shape of an order, not that it is on
\* chain.  The wallet posts an order once: the request may never arrive.
submit(o) ==
    /\ o \notin posted
    /\ o.price > 0 /\ o.amount > 0
    /\ posted' = posted \cup {o}
    /\ book' = book \cup {[order |-> o, seq |-> sequence]}
    /\ sequence' = sequence + 1
    /\ UNCHANGED <<active, placed, passVars, sent, faults>>

\* The residual orders that come with a settlement.
residuals(m) == {c.opening : c \in Range(residual_commitments(assembleMatchInputs(m)))}

\* Both orders are active, and the memos are as many as the outputs.
Settleable(m) ==
    /\ {m.buy, m.sell} \subseteq active
    /\ MemosBound(assembleMatchInputs(m), buildMatchMemos(m))

\* match_orders is applied, or refused because an order is no longer active.
apply(tx) ==
    /\ tx \in sent
    /\ sent' = sent \ {tx}
    /\ LET m == tx.match
       IN active' = IF Settleable(m)
                    THEN (active \ {m.buy, m.sell}) \cup residuals(m) ELSE active
    /\ UNCHANGED <<placed, posted, bookVars, passVars, faults>>

-----------------------------------------------------------------------------
(* The book                                                                *)

remove(o) == {e \in book : e.order # o}

-----------------------------------------------------------------------------
(* The background loop.  Between two of its steps anything may happen.     *)

Phase(matches) == IF matches = <<>> THEN "idle" ELSE "proving"

\* A tick is skipped while the previous pass still runs.
tick ==
    /\ phase = "idle"
    /\ batch' \in findMatches(book)
    /\ phase' = Phase(batch')
    /\ UNCHANGED <<chainVars, bookVars, sent, faults>>

NextMatch_NeverIdle == batch' = Tail(batch) /\ phase' = "proving"
NextMatch_Again == UNCHANGED passVars
NextMatch == batch' = Tail(batch) /\ phase' = Phase(batch')

fault == faults < MaxFaults /\ faults' = faults + 1

\* The prover finds a witness exactly when the circuit accepts the amounts.
prove ==
    /\ phase = "proving"
    /\ \/ /\ Provable(Head(batch))
          /\ phase' = "preparing"
          /\ UNCHANGED <<batch, faults>>
       \/ /\ ~ Provable(Head(batch))
          /\ NextMatch /\ UNCHANGED faults
       \/ NextMatch /\ fault
    /\ UNCHANGED <<chainVars, bookVars, sent>>

\* prepareTransaction simulates the call against the ledger of the moment.
prepare ==
    /\ phase = "preparing"
    /\ LET m == Head(batch)
       IN \/ /\ Settleable(m)
             /\ phase' = "sending"
             /\ UNCHANGED <<batch, faults>>
          \/ /\ ~ Settleable(m)
             /\ NextMatch /\ UNCHANGED faults
          \/ NextMatch /\ fault
    /\ UNCHANGED <<chainVars, bookVars, sent>>

\* sendTransaction.  With a reply the orders leave the book, whatever becomes
\* of the transaction: any status but ERROR counts as sent.
send_KeepsBuy ==
    /\ phase = "sending"
    /\ sent' = sent \cup {[match |-> Head(batch), answered |-> TRUE]}
    /\ book' = remove(Head(batch).sell)
    /\ NextMatch
    /\ UNCHANGED <<chainVars, sequence, faults>>
send ==
    /\ phase = "sending"
    /\ sent' = sent \cup {[match |-> Head(batch), answered |-> TRUE]}
    /\ book' = remove(Head(batch).buy) \cap remove(Head(batch).sell)
    /\ NextMatch
    /\ UNCHANGED <<chainVars, sequence, faults>>

\* It throws: the transaction was refused, or it went out and the reply did
\* not come back.  The orders stay in the book.
send_fails ==
    /\ phase = "sending"
    /\ fault
    /\ sent' \in {sent, sent \cup {[match |-> Head(batch), answered |-> FALSE]}}
    /\ NextMatch
    /\ UNCHANGED <<chainVars, bookVars>>

\* A transaction was not taken into a ledger before its 30 seconds ran out.
expire(tx) ==
    /\ tx \in sent
    /\ fault
    /\ sent' = sent \ {tx}
    /\ UNCHANGED <<chainVars, bookVars, passVars>>

\* The book is in memory only.
restart ==
    /\ fault
    /\ book' = {} /\ sequence' = 0
    /\ batch' = <<>> /\ phase' = "idle"
    /\ UNCHANGED <<chainVars, sent>>

-----------------------------------------------------------------------------
Init == /\ active = {} /\ placed = {} /\ posted = {}
        /\ book = {} /\ sequence = 0
        /\ batch = <<>> /\ phase = "idle"
        /\ sent = {} /\ faults = 0

Service == prove \/ prepare \/ send \/ send_fails

Next == \/ \E o \in Offers : place(o) \/ submit(o)
        \/ \E o \in active : cancel(o)
        \/ \E tx \in sent : apply(tx) \/ expire(tx)
        \/ tick \/ Service \/ restart

\* setInterval fires again and again, and every awaited call settles; the
\* rest is up to traders, the host and the network.
Fairness == WF_vars(tick) /\ WF_vars(Service)

Spec == Init /\ [][Next]_vars /\ Fairness

-----------------------------------------------------------------------------
Entries == [order : Orders, seq : Nat]
Outcomes == [residualAmount : Int, refundAmount : Nat]
Matches == [buy : Orders, sell : Orders, fill : Amounts, quoteFilled : Nat,
            a : Outcomes, b : Outcomes]

TypeOK == /\ active \subseteq Orders
          /\ placed \subseteq Offers /\ posted \subseteq Offers
          /\ book \subseteq Entries /\ sequence \in Nat
          /\ \A e \in book : e.seq < sequence
          /\ batch \in Seq(Matches)
          /\ phase \in {"idle", "proving", "preparing", "sending"}
          /\ phase = "idle" <=> batch = <<>>
          /\ sent \subseteq [match : Matches, answered : BOOLEAN]
          /\ faults \in 0 .. MaxFaults

\* Whatever two placed orders of the book cross, the circuit accepts what the
\* engine makes of them: bigints without range checks against truncating
\* casts and 64-bit checks ("the matching math here MUST mirror").
EngineMirrorsCircuit ==
    \A x, y \in book :
       /\ {x.order, y.order} \subseteq placed
       /\ x.order.side = BUY /\ y.order.side = SELL
       /\ x.order.quote = y.order.quote
       /\ Crosses(x.order, y.order)
       => Provable(computeMatch(x.order, y.order))

\* Whatever two orders of the book cross, the memos that the matcher seals for
\* the settlement reach the owners of its outputs: matcher, pool and wallet
\* agree on the order of the outputs, on which are there, on who gets each and
\* on what a residual still locks, though each works them out by itself.
SettlementDelivers ==
    \A x, y \in book :
       /\ x.order.side = BUY /\ y.order.side = SELL
       /\ x.order.quote = y.order.quote
       /\ Crosses(x.order, y.order)
       => Delivered(computeMatch(x.order, y.order))

\* Once the network has acknowledged a settlement, no later pass and no later
\* match of the same pass sends another one for either of its orders, though
\* it is in no ledger yet and both orders are still active.
ClaimsExclusive ==
    \A t, u \in sent :
       t # u /\ t.answered /\ u.answered =>
         {t.match.buy, t.match.sell} \cap {u.match.buy, u.match.sell} = {}

Better(x, y) == \/ x.order.side = BUY /\ x.order.price > y.order.price
                \/ x.order.side = SELL /\ x.order.price < y.order.price
                \/ x.order.price = y.order.price /\ x.seq < y.seq
SameBook(x, y) == /\ x.order.side = y.order.side
                  /\ x.order.quote = y.order.quote

\* A pass matches each order at most once, in price-time priority: no order is
\* passed over for a worse or a later one of its book, and no two orders that
\* it leaves over cross.
PriceTimePriority ==
    [][phase = "idle" /\ phase' = "proving" =>
         LET matched == {e \in book : \E m \in Range(batch') :
                                        e.order \in {m.buy, m.sell}}
         IN /\ \A i, j \in DOMAIN batch' :
                  i # j => {batch'[i].buy, batch'[i].sell}
                             \cap {batch'[j].buy, batch'[j].sell} = {}
            /\ \A x \in matched, y \in book \ matched :
                  SameBook(x, y) => Better(x, y)
            /\ \A x, y \in book \ matched :
                  /\ x.order.side = BUY /\ y.order.side = SELL
                  /\ x.order.quote = y.order.quote
                  => x.order.price < y.order.price
      ]_vars

\* Every pass comes to an end, so that the loop ticks again, whichever of its
\* matches cannot be proved, prepared or sent.
PassEnds == phase # "idle" ~> phase = "idle"

\* The best buy and the best sell of a pair, both active, and they cross.
BestPair(buy, sell) ==
    \E x, y \in book :
       /\ x.order = buy /\ y.order = sell /\ {buy, sell} \subseteq active
       /\ buy.side = BUY /\ sell.side = SELL /\ buy.quote = sell.quote
       /\ buy.price >= sell.price
       /\ \A z \in book : /\ SameBook(z, x) /\ z # x => Better(x, z)
                          /\ SameBook(z, y) /\ z # y => Better(y, z)

\* The best pair of the book does not stay there for ever: it is settled or
\* sent, better orders come in, or an owner cancels.
BestPairProgress ==
    \A buy \in {o \in Offers : o.side = BUY}, sell \in {o \in Offers : o.side = SELL} :
       BestPair(buy, sell) ~> ~ BestPair(buy, sell)
=============================================================================
