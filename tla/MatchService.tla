---------------------------- MODULE MatchService ----------------------------
(***************************************************************************)
(* The matching service around its engine (matcher/src/index.ts and        *)
(* submitter.ts): what main() makes of the environment, what the HTTP      *)
(* intake lets into the book, and one whole pass of the loop in each mode. *)
(* Matcher interleaves the steps of a pass with the rest of the world, in  *)
(* the one mode that settles.                                              *)
(*                                                                         *)
(* A step maps the service to its successors: none where the code throws.  *)
(* Here an order keeps the commitment and the receive code that were       *)
(* posted with it; a receive code is the owner key that it decodes to.     *)
(***************************************************************************)
EXTENDS Settlement, FiniteSets

CONSTANT MAX_SAFE_INTEGER

Unset == "unset"                    \* a variable or a key that is not there
Garbled == "garbled"                \* a receive code that does not decode

When(guard, next) == IF guard THEN {next} ELSE {}

-----------------------------------------------------------------------------
(* The environment                                                         *)

\* a ?? b ?? c: the first that is there, were it empty.
Coalesce(values) ==
    LET given == SelectSeq(values, LAMBDA v : v # Unset)
    IN  IF given = <<>> THEN Unset ELSE Head(given)

Empty(v) == v \in {Unset, ""}

\* A deployments.json that cannot be read is one that names no pool.
resolveContractId(env, deployments) ==
    LET id == Coalesce(<<env.WRAITH_POOL_CONTRACT, deployments.wraithPoolMatchMemo,
                         deployments.wraithPoolMemo, deployments.wraithPool>>)
    IN  When(~ Empty(id), id)

\* Number(... ?? 2000): the empty string is zero.
intervalMs(env) ==
    CASE env.MATCH_INTERVAL_MS = Unset -> 2000
      [] env.MATCH_INTERVAL_MS \in {"", "0"} -> 0
      [] OTHER -> 100

MatcherService(submitter, mode, mock, interval) ==
    [submitter |-> submitter, mode |-> mode, mock |-> mock,
     loop |-> interval > 0,             \* start()
     book |-> {}, sequence |-> 0,
     active |-> {},                     \* on chain: the orders of each pool
     settled |-> {}]                    \* what the service has settled there

\* Without a contract it runs, without a submitter; live without a secret it
\* does not.  The prover is a mock unless there is a circuit.
main(env, deployments) ==
    LET live == env.WRAITH_SUBMIT = "live"
    IN  When(live => ~ Empty(env.WRAITH_MATCHER_SECRET),
             MatcherService(resolveContractId(env, deployments),
                            IF live THEN "live" ELSE "dry-run",
                            Empty(env.MATCH_CIRCUIT), intervalMs(env)))

-----------------------------------------------------------------------------
(* POST /orders                                                            *)

\* JSON.parse makes the nearest double of a number; a string keeps its digits.
toBigInt(v) ==
    CASE v.json = "string" -> {v.value}
      [] v.json = "number" -> {IF v.value > MAX_SAFE_INTEGER THEN 2 * (v.value \div 2)
                               ELSE v.value}
      [] OTHER -> {}

parseOrder(body) ==
    UNION {When(body.side \in {BUY, SELL} /\ body.receiveCode # "",
                [commitment |-> body.commitment, side |-> body.side,
                 price |-> price, amount |-> amount,
                 base |-> body.base, quote |-> body.quote, owner |-> body.owner,
                 nonce |-> body.nonce, code |-> body.receiveCode]) :
              price \in toBigInt(body.price), amount \in toBigInt(body.amount)}

\* The shape only: neither the preimage nor the chain is looked at.
submit(s, o) ==
    When(/\ {o.price, o.amount} \subseteq Amounts \ {0}
         /\ o.commitment # Nothing
         /\ "" \notin {o.base, o.quote, o.owner},
         [s EXCEPT !.book = @ \cup {[order |-> o, seq |-> s.sequence]},
                   !.sequence = @ + 1])

\* 201, or 400 and nothing has changed.
POST_orders(s, body) == UNION {submit(s, o) : o \in parseOrder(body)}

\* The first of the book with this commitment, buys before sells.
remove(entries, commitment) ==
    LET found == {e \in entries : e.order.commitment = commitment}
        Before(e, f) == \/ e.order.side < f.order.side
                        \/ e.order.side = f.order.side /\ e.seq < f.seq
    IN  {e \in entries : ~ (e \in found /\ \A f \in found \ {e} : Before(e, f))}

-----------------------------------------------------------------------------
(* A pass                                                                  *)

Opening(o) == [side |-> o.side, price |-> o.price, amount |-> o.amount,
               base |-> o.base, quote |-> o.quote, owner |-> o.owner, nonce |-> o.nonce]
Reopens(o) == o.commitment = computeOrderCommitment(Opening(o))

\* The mock proves anything whose inputs can be assembled.
Proves(s, match) ==
    /\ Reopens(match.buy) /\ Reopens(match.sell)
    /\ s.mock \/ Provable(match)

decodeReceiveCode(o) == o.code # Garbled /\ o.code = o.owner
Seals(match) == decodeReceiveCode(match.buy) /\ decodeReceiveCode(match.sell)

On(s, o) == {[pool |-> pool, commitment |-> o.commitment] : pool \in s.submitter}

\* prepareTransaction runs the call: the proof of the mock does not verify,
\* and both orders have to be active in the pool.
Submits(s, match) ==
    /\ ~ s.mock
    /\ match.buy.commitment # match.sell.commitment
    /\ On(s, match.buy) \cup On(s, match.sell) \subseteq s.active

\* match_orders is taken into a ledger.
settle(s, match) ==
    [s EXCEPT !.active = @ \ (On(s, match.buy) \cup On(s, match.sell)),
              !.settled = @ \cup {match}]

unbook(s, match) ==
    [s EXCEPT !.book = remove(remove(@, match.buy.commitment), match.sell.commitment)]

\* One match.  With a failure its orders stay; without a submitter, or in a dry
\* run, it is only logged and they go.
process(s, match) ==
    CASE ~ (Proves(s, match) /\ Seals(match)) -> s
      [] s.submitter = {} \/ s.mode = "dry-run" -> unbook(s, match)
      [] ~ Submits(s, match) -> s
      [] OTHER -> unbook(settle(s, match), match)

runOnce(s) == {FoldLeft(process, s, matches) : matches \in findMatches(s.book)}

tick(s) == IF s.loop THEN runOnce(s) ELSE {s}

-----------------------------------------------------------------------------
(***************************************************************************)
(* What becomes of orders that cross, in every configuration of the        *)
(* service and with every order that the intake lets in.  MCPoolMerkle     *)
(* assumes the statements.                                                 *)
(***************************************************************************)

Pool == "wraithPoolMatchMemo"       \* where the wallets place their orders

Deployments ==
    [wraithPoolMatchMemo : {Unset, Pool}, wraithPoolMemo : {Unset, "wraithPoolMemo"},
     wraithPool : {"wraithPool"}]
        \cup [wraithPoolMatchMemo : {Unset}, wraithPoolMemo : {Unset}, wraithPool : {Unset}]
Deployed == CHOOSE d \in Deployments : d.wraithPoolMatchMemo = Pool

Environments ==
    [WRAITH_POOL_CONTRACT : {Unset, "", Pool, "another"},
     WRAITH_SUBMIT : {Unset, "live"},
     WRAITH_MATCHER_SECRET : {Unset, "", "S..."},
     MATCH_CIRCUIT : {Unset, "match_orders.json"},
     MATCH_INTERVAL_MS : {Unset, "", "0", "100"}]

Live == CHOOSE env \in Environments :
            /\ env.WRAITH_POOL_CONTRACT = Unset /\ env.WRAITH_SUBMIT = "live"
            /\ env.WRAITH_MATCHER_SECRET = "S..." /\ env.MATCH_CIRCUIT # Unset
            /\ env.MATCH_INTERVAL_MS = Unset

Text(n) == [json |-> "string", value |-> n]
Number(n) == [json |-> "number", value |-> n]

Order(side, price, amount, nonce) ==
    [side |-> side, price |-> price, amount |-> amount, base |-> "base", quote |-> "quote",
     owner |-> IF side = BUY THEN "alice" ELSE "bob", nonce |-> nonce]

\* What the wallet posts.
Body(o) ==
    [side |-> o.side, price |-> Text(o.price), amount |-> Text(o.amount),
     base |-> o.base, quote |-> o.quote, owner |-> o.owner, nonce |-> o.nonce,
     commitment |-> computeOrderCommitment(o), receiveCode |-> o.owner]

place(s, o) ==
    [s EXCEPT !.active = @ \cup {[pool |-> Pool, commitment |-> computeOrderCommitment(o)]}]

\* Placed on chain and posted.
offer(s, o) == CHOOSE t \in POST_orders(place(s, o), Body(o)) : TRUE

Started == CHOOSE s \in main(Live, Deployed) : TRUE

Stays(s) == tick(s) = {s}
Orders(s) == {e.order.commitment : e \in s.book}
Settled(s) == UNION {{m.buy.commitment, m.sell.commitment} : m \in s.settled}

-----------------------------------------------------------------------------
Buy == Order(BUY, 4, 2, 0)
Sell == Order(SELL, 2, 2, 10)

\* Two orders that cross are settled by a service that knows the pool they
\* were placed in, submits, proves and loops, and by no other.  If it starts
\* and does not settle them they stay in its book if it goes live with a
\* contract or has no loop; otherwise it drops them, and no wallet posts again.
SettlesIfComplete ==
    \A env \in Environments, file \in Deployments :
        \A fresh \in main(env, file) :
            LET posted == offer(offer(fresh, Buy), Sell)
                \* the id comes from the variable, were it empty, or else the file
                id == IF env.WRAITH_POOL_CONTRACT # Unset THEN env.WRAITH_POOL_CONTRACT
                      ELSE IF file.wraithPoolMatchMemo # Unset THEN Pool
                      ELSE IF file.wraithPoolMemo # Unset THEN file.wraithPoolMemo
                      ELSE file.wraithPool
                loops == env.MATCH_INTERVAL_MS \in {Unset, "100"}
                live == env.WRAITH_SUBMIT = "live"
                complete == /\ loops /\ live /\ id = Pool
                            /\ env.MATCH_CIRCUIT # Unset
                drops == loops /\ ~ (live /\ id \notin {Unset, ""})
            IN  \A s \in tick(posted) :
                    /\ s.settled # {} <=> complete
                    /\ s.book = {} <=> complete \/ drops
                    /\ ~ (complete \/ drops) => s = posted

-----------------------------------------------------------------------------
\* Ways in which an order that the intake accepts, or that it accepted once,
\* can no longer be settled.
Bad == {"not placed", "cancelled", "settled", "rounded", "other preimage",
        "other's code", "garbled code"}

\* Posted in that way, at a price and after what the book already holds.
offerBad(s, o, bad) ==
    CASE bad = "not placed" -> CHOOSE t \in POST_orders(s, Body(o)) : TRUE
      [] bad = "cancelled" -> [offer(s, o) EXCEPT !.active = s.active]
         \* posted twice, and the other copy has been settled
      [] bad = "settled" ->
            LET taker == Order(1 - o.side, o.price, o.amount, 30)
                twice == CHOOSE t \in POST_orders(offer(offer(s, taker), o), Body(o)) : TRUE
            IN  CHOOSE t \in runOnce(twice) : TRUE
      [] bad = "rounded" ->
            CHOOSE t \in POST_orders(place(s, o), [Body(o) EXCEPT !.amount = Number(o.amount)]) :
                TRUE
      [] bad = "other preimage" ->
            CHOOSE t \in POST_orders(place(s, o), [Body(o) EXCEPT !.nonce = @ + 1]) : TRUE
      [] bad = "other's code" ->
            CHOOSE t \in POST_orders(place(s, o), [Body(o) EXCEPT !.receiveCode = "alice"]) :
                TRUE
      [] bad = "garbled code" ->
            CHOOSE t \in POST_orders(place(s, o), [Body(o) EXCEPT !.receiveCode = Garbled]) :
                TRUE

\* Such an order is never taken out of the book.  When it is the best of its
\* side, every pass matches it with the best order of the other, which then
\* goes without a settlement though a good order behind it would do.
DeadOrderBlocks ==
    \A bad \in Bad :
        LET dead == offerBad(Started, Order(SELL, 1, 5, 20), bad)
            s == offer(offer(dead, Buy), Sell)
        IN  /\ Cardinality(dead.book) = 1
            /\ Stays(s)
            /\ {Body(Buy).commitment, Body(Sell).commitment} \cap Settled(s) = {}

\* Without it, or with a worse price, the two good orders are settled: and a
\* second good buy matches the good sell, past the one that the dead blocks.
OnlyTheBestIsBlocked ==
    \A bad \in Bad, price \in {1, 2, 3} :
        LET dead == offerBad(Started, Order(SELL, price, 5, 20), bad)
            s == offer(offer(dead, Buy), Sell)
            second == offer(s, Order(BUY, 3, 2, 40))
            good == Body(Sell).commitment
            \* behind equal prices the one that came first is better
            blocks == price <= 2
        IN  /\ \A t \in runOnce(s) : good \in Settled(t) <=> ~ blocks
            /\ \A t \in runOnce(second) : good \in Settled(t)
            /\ \A t \in runOnce(second) :
                   Body(Buy).commitment \in Settled(t) <=> ~ blocks

\* Whatever dead order the book holds beside good ones, a pass settles no order
\* twice and none that is not active in the pool.
PassesSettleOnce ==
    \A bad \in Bad, price \in {1, 2, 3}, amount \in {1, 2} :
        LET dead == offerBad(Started, Order(SELL, price, 5, 20), bad)
            s == offer(offer(offer(dead, Buy), Order(BUY, 3, amount, 40)), Sell)
        IN  \A t \in runOnce(s) :
                /\ Cardinality(t.settled) * 2 = Cardinality(Settled(t))
                /\ \A c \in Settled(t) \ Settled(s) :
                      [pool |-> Pool, commitment |-> c] \in s.active
=============================================================================
