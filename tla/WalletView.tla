------------------------------ MODULE WalletView ------------------------------
(***************************************************************************)
(* The balances and the open orders that the pages show (useWraith.tsx):   *)
(* when they are read again, and what they say of the store (real-sdk.ts). *)
(* Session has the identities behind it, and WalletIndexer what a pass     *)
(* does; here the store of an identity is the number of changes made to    *)
(* it, and a reading is that number.                                       *)
(*                                                                         *)
(* A step maps a view to the set of its successors, empty when it cannot   *)
(* happen.  Between two awaits nothing else runs.                          *)
(***************************************************************************)
EXTENDS Naturals, FiniteSetsExt, SequencesExt

CONSTANT Wallets

NoOne == "null"
Nothing == [of |-> NoOne, at |-> 0]        \* setBalances([])
NoPass == [runs |-> FALSE, poll |-> FALSE, effect |-> NoOne]

When(guard, next) == IF guard THEN {next} ELSE {}

\* At the start refreshOrders has read the store of nobody.
Start ==
    [active |-> NoOne, effect |-> NoOne,   \* the wallet whose effect is not cancelled
     store |-> [w \in Wallets |-> 0],
     balances |-> Nothing, orders |-> Nothing,
     pass |-> NoPass,                      \* in flight, and who awaits it
     refreshes |-> <<>>]                   \* of the balances: are the orders next?

Reading(v) ==
    IF v.active = NoOne THEN Nothing ELSE [of |-> v.active, at |-> v.store[v.active]]

-----------------------------------------------------------------------------
(* useWraith.tsx                                                           *)

\* getOpenOrders reads the store at once.
refreshOrders(v) == [v EXCEPT !.orders = Reading(v)]

\* getShieldedBalances asks the pool about every unspent note first.
refreshBalances(v, orders_next) == [v EXCEPT !.refreshes = Append(@, orders_next)]

\* It has its answers and reads the store.
balances_read(v, i) ==
    LET read == [v EXCEPT !.balances = Reading(v), !.refreshes = RemoveAt(@, i)]
    IN  {IF v.refreshes[i] THEN refreshOrders(read) ELSE read}

\* The identity of a wallet is there: the effect starts a pass, or joins one.
identity_resolved(v, wallet) ==
    When(v.active = NoOne,
         [v EXCEPT !.active = wallet, !.effect = wallet,
                   !.pass = [@ EXCEPT !.runs = TRUE, !.effect = wallet]])

\* The effect for any status but connected: the indexer forgets its pass (what
\* a pass can do that outlives a switch is in Session).
disconnect(v) ==
    When(v.active # NoOne,
         [v EXCEPT !.active = NoOne, !.effect = NoOne, !.pass = NoPass,
                   !.balances = Nothing])

\* The interval of 15 s.
poll(v) ==
    When(v.active # NoOne, [v EXCEPT !.pass.runs = TRUE, !.pass.poll = TRUE])

\* A pass ends with so many deposits, payments and spends in the store.  The
\* effect refreshes both whatever it found, the poll if it found anything.
pass_ends(v, found) ==
    LET kept == [v EXCEPT !.pass = NoPass,
                          !.store[v.active] = @ + found]
        bound == IF v.pass.effect # NoOne /\ v.pass.effect = v.effect
                 THEN refreshBalances(kept, TRUE) ELSE kept
    IN  When(v.pass.runs,
             IF v.pass.poll /\ found > 0
             THEN refreshOrders(refreshBalances(bound, FALSE)) ELSE bound)

\* An operation is confirmed and stored, and starts a pass that nobody awaits;
\* the page that asked for it refreshes (Swap.tsx: the orders as well).
operation_ends(v) ==
    When(v.active # NoOne,
         refreshBalances(refreshOrders([v EXCEPT !.store[v.active] = @ + 1,
                                                 !.pass.runs = TRUE]), FALSE))

-----------------------------------------------------------------------------
(* The balances of a store: what is unspent, summed by the code of its     *)
(* asset, with the decimals of the last note of that code which has any.   *)
(* A note is [code, asset, amount, decimals, spent].                       *)

NoDecimals == 99
Registered == 1                            \* what assetMeta says of any code here

getShieldedBalances(notes) ==
    LET unspent == SelectSeq(notes, LAMBDA n : ~n.spent)
        Of(code) == SelectSeq(unspent, LAMBDA n : n.code = code)
        Given(code) == SelectSeq(Of(code), LAMBDA n : n.decimals # NoDecimals)
        total == [code \in {n.code : n \in Range(unspent)} |->
                    FoldLeft(LAMBDA sum, n : sum + n.amount, 0, Of(code))]
    IN  {[asset |-> code, units |-> total[code],
          decimals |-> IF Given(code) = <<>> THEN Registered ELSE Last(Given(code)).decimals]
            : code \in {c \in DOMAIN total : total[c] > 0}}

-----------------------------------------------------------------------------
(***************************************************************************)
(* How far what is shown is what the store of the connected wallet holds,  *)
(* over every sequence of at most MaxSteps steps.  MCBridge assumes the    *)
(* statements.                                                             *)
(***************************************************************************)

CONSTANTS MaxSteps, MaxChanges             \* changes of each wallet's store

Bounded(v) ==
    /\ \A w \in Wallets : v.store[w] <= MaxChanges
    /\ Len(v.refreshes) <= 2

Reachable(Steps(_)) ==
    LET Explored[n \in 0 .. MaxSteps] ==
            IF n = 0 THEN [all |-> {Start}, new |-> {Start}]
            ELSE LET before == Explored[n - 1]
                     new == {v \in UNION {Steps(w) : w \in before.new} : Bounded(v)}
                            \ before.all
                 IN  [all |-> before.all \cup new, new |-> new]
    IN  Explored[MaxSteps].all

Quiet(v) ==
    UNION ({identity_resolved(v, w) : w \in Wallets}
           \cup {balances_read(v, i) : i \in DOMAIN v.refreshes})
        \cup disconnect(v) \cup poll(v) \cup pass_ends(v, 0)

\* Passes find payments only where somebody awaits them.
Watched(v) == Quiet(v) \cup (IF v.pass.poll \/ v.pass.effect # NoOne
                             THEN pass_ends(v, 1) ELSE {})
Steps(v) == Watched(v) \cup pass_ends(v, 1) \cup operation_ends(v)

Watching == Reachable(Watched)
Views == Reachable(Steps)

Rests(v) == v.active # NoOne /\ ~v.pass.runs /\ v.refreshes = <<>>
Current(v) == v.balances = Reading(v) /\ v.orders = Reading(v)

\* No wallet sees the balances of another: they are cleared between the two,
\* and a refresh that ends late reads the store of who is connected then.
BalancesFollow(views) == \A v \in views : v.balances.of \in {NoOne, v.active}

\* The orders are not cleared: when a wallet has been disconnected, and until
\* the first pass of the next one is over, they are those of the one before.
OrdersLinger(views) ==
    /\ \E v \in views : v.active = NoOne /\ v.orders.of # NoOne
    /\ \E v \in views : v.active # NoOne /\ v.orders.of \notin {NoOne, v.active}
    /\ \A v \in views : Rests(v) => v.orders.of = v.active

\* What the effect or the poll finds is shown when everything has ended.
WatchedIsShown(watching) == \A v \in watching : Rests(v) => Current(v)

\* What the pass of an operation finds is not, and a poll that finds nothing
\* more does not show it either (useWraith.tsx:137 says that payments arrive
\* without a manual refresh).
OwnPassIsNotShown(views) ==
    \E v \in views :
        /\ Rests(v) /\ ~Current(v)
        /\ \A polled \in poll(v) : \A w \in pass_ends(polled, 0) : Rests(w) /\ ~Current(w)

-----------------------------------------------------------------------------
Notes == [code : {"XLM", "T"}, asset : {1, 2}, amount : {1, 3}, decimals : {1, 2, NoDecimals},
          spent : BOOLEAN]

OneAsset(notes) ==
    \A n, m \in Range(notes) :
        n.code = m.code => n.asset = m.asset /\ n.decimals = m.decimals

\* In hundredths of the token.
Shown(row) == row.units * 10 ^ (2 - row.decimals)
Worth(notes, code) ==
    FoldLeft(LAMBDA sum, n :
                sum + IF n.spent \/ n.code # code THEN 0
                      ELSE n.amount * 10 ^ (2 - IF n.decimals = NoDecimals THEN Registered
                                                ELSE n.decimals), 0, notes)

\* A balance is what its notes are worth as long as a code stands for one asset;
\* a token that was pasted may have the code of another, and then sums of both
\* are shown, above or below what they are worth.
BalancesAddUp ==
    LET stores == UNION {[1 .. n -> Notes] : n \in 0 .. 2} IN
    /\ \A notes \in stores : OneAsset(notes) =>
          /\ {row.asset : row \in getShieldedBalances(notes)}
                = {n.code : n \in {m \in Range(notes) : ~m.spent}}
          /\ \A row \in getShieldedBalances(notes) : Shown(row) = Worth(notes, row.asset)
    /\ \E notes \in stores : \E row \in getShieldedBalances(notes) :
          Shown(row) > Worth(notes, row.asset)
    /\ \E notes \in stores : \E row \in getShieldedBalances(notes) :
          Shown(row) < Worth(notes, row.asset)
=============================================================================
