------------------------------ MODULE TradePages ------------------------------
(***************************************************************************)
(* The pages that ask for an order or a payment (Swap.tsx, Pay.tsx): their *)
(* fields, the market price that fills one of them (usePriceQuote.ts), the *)
(* overlay of a proof (useProofFlow.ts), the buttons that cancel an order, *)
(* and what the text of a field is worth (format.ts, toBaseUnits).         *)
(*                                                                         *)
(* A page is a record; a step maps it to the set of its successors, empty  *)
(* when it cannot happen.  The effects of a render belong to the step that *)
(* made it render.  The text of a price keeps the pair that it was typed   *)
(* or quoted for.                                                          *)
(***************************************************************************)
EXTENDS Integers, SequencesExt

CONSTANT Tokens

When(guard, next) == IF guard THEN {next} ELSE {}

-----------------------------------------------------------------------------
(* The overlay: idle, running, done or error                               *)

\* run: nothing keeps it from being called again meanwhile.
run(p, request) == [p EXCEPT !.flow = "running", !.runs = Append(@, request)]

action_resolves(p, i) ==
    {[p EXCEPT !.flow = "done", !.runs = RemoveAt(@, i), !.made = Append(@, p.runs[i])]}
action_throws(p, i) == {[p EXCEPT !.flow = "error", !.runs = RemoveAt(@, i)]}

\* The button of the overlay; cleared is the page without what was sent.
closeOverlay(p, cleared) ==
    When(p.flow \in {"done", "error"},
         [(IF p.flow = "done" THEN cleared ELSE p) EXCEPT !.flow = "idle"])

-----------------------------------------------------------------------------
(* The order form                                                          *)

Blank == [of |-> <<>>, from |-> ""]
Pair(p) == <<p.base, p.quote>>

\* The feed has answered with prices, or with none: then there are estimates.
Feeds == {"est", "live", "later"}

\* quotePrice: every token of the form has an estimate.  A token is one of itself.
marketPrice(p) ==
    [of |-> Pair(p), from |-> IF p.base = p.quote THEN "est" ELSE p.usd]

SwapPage(base, quote) ==
    [base |-> base, quote |-> quote, price |-> [of |-> <<base, quote>>, from |-> "est"],
     amount |-> "", priceEdited |-> FALSE, usd |-> "est",
     flow |-> "idle", runs |-> <<>>, made |-> <<>>]

\* The effects: another pair forgets that the price was typed, and a price that
\* was not typed follows the market's when the pair or that price changes.
rendered(p, next) ==
    LET forgot == IF Pair(next) = Pair(p) THEN next
                  ELSE [next EXCEPT !.priceEdited = FALSE]
    IN  IF marketPrice(next) # marketPrice(p) /\ ~forgot.priceEdited
        THEN [forgot EXCEPT !.price = marketPrice(next)]
        ELSE forgot

setPair(p, base, quote) == {rendered(p, [p EXCEPT !.base = base, !.quote = quote])}

\* The poll of usePriceQuote.
load(p, usd) == {rendered(p, [p EXCEPT !.usd = usd])}

onPriceChange(p, text) == {[p EXCEPT !.priceEdited = TRUE, !.price = text]}
useMarketPrice(p) == {[p EXCEPT !.priceEdited = FALSE, !.price = marketPrice(p)]}
setAmount(p, text) == {[p EXCEPT !.amount = text]}

swapValid(p) == p.base # p.quote /\ p.price # Blank /\ p.amount # ""

\* The request is what the button was drawn with.
onPlace(p) ==
    When(swapValid(p),
         run(p, [base |-> p.base, quote |-> p.quote, price |-> p.price, amount |-> p.amount]))

closeSwap(p) == closeOverlay(p, [p EXCEPT !.price = Blank, !.amount = ""])

-----------------------------------------------------------------------------
(* The payment form                                                        *)

PayPage == [recipientKey |-> "", asset |-> CHOOSE t \in Tokens : TRUE, amount |-> "",
            flow |-> "idle", runs |-> <<>>, made |-> <<>>]

setPay(p, field, text) == {[p EXCEPT ![field] = text]}

onSend(p) ==
    When(p.recipientKey # "" /\ p.amount # "",
         run(p, [recipientKey |-> p.recipientKey, asset |-> p.asset, amount |-> p.amount]))

closePay(p) == closeOverlay(p, [p EXCEPT !.amount = "", !.recipientKey = ""])

-----------------------------------------------------------------------------
(* The list of open orders                                                 *)

Nobody == "null"

\* All orders are shown, and open.
OrderList(ids) ==
    [open |-> ids, shown |-> ids, cancelingId |-> Nobody, cancels |-> <<>>]

freed(q) == [q EXCEPT !.cancelingId = Nobody]

\* The button of the order that is being cancelled is off; the SDK refuses an
\* order that is not open any more.
onCancel(q, id) ==
    When(id \in q.shown /\ q.cancelingId # id,
         IF id \in q.open THEN [q EXCEPT !.cancelingId = id, !.cancels = Append(@, id)]
         ELSE freed(q))

\* The cancellation is confirmed, of an order that the pool still has, and the
\* list is read again.
cancelled(q, i) ==
    LET open == q.open \ {q.cancels[i]}
    IN  When(q.cancels[i] \in q.open,
             freed([q EXCEPT !.open = open, !.shown = open, !.cancels = RemoveAt(@, i)]))

cancel_fails(q, i) == {freed([q EXCEPT !.cancels = RemoveAt(@, i)])}

-----------------------------------------------------------------------------
(* What a text is worth.  A text is its sign, the digits on both sides of  *)
(* the point, if there is one, and the exponent, if there is one (0 if     *)
(* not).  Commas are taken out first.  A number is in units of             *)
(* 10^-Precision.                                                          *)

Precision == 4
Exponents == -1 .. 1

Digits(s) == FoldLeft(LAMBDA n, d : 10 * n + d, 0, s)
Padded(s, n) == [i \in 1 .. n |-> IF i <= Len(s) THEN s[i] ELSE 0]

\* Number(input), or nothing for NaN.
parseAmount(t) ==
    LET units == Digits(t.whole \o Padded(t.frac, Precision))
    IN  When(t.whole \o t.frac # <<>>,
             (IF t.sign = "-" THEN -1 ELSE 1)
                * (IF t.exponent < 0 THEN units \div 10 ELSE units * 10 ^ t.exponent))

isPositiveAmount(t) == \E n \in parseAmount(t) : n > 0

\* Digits and at most one point, or it throws; further digits are cut off.
toBaseUnits(t, decimals) ==
    When(t.sign = "" /\ t.exponent = 0 /\ t.whole \o t.frac # <<>>,
         Digits(t.whole \o Padded(t.frac, decimals)))

\* A price in units of 10^-8 as the text of the field, by its size: the units
\* that the text says.
formatPrice(price) ==
    LET dropped == IF price >= 10 ^ 8 THEN 10 ^ 4 ELSE IF price >= 10 ^ 6 THEN 100 ELSE 1
    IN  ((price + dropped \div 2) \div dropped) * dropped

\* And as the SDK places it: seven decimals.
priceScaled(price) == formatPrice(price) \div 10

-----------------------------------------------------------------------------
(***************************************************************************)
(* What the pages ask for, whatever their user does in at most MaxSteps    *)
(* steps, and how it relates to what they show.  MCBridge assumes the      *)
(* statements.                                                             *)
(***************************************************************************)

CONSTANTS MaxSteps, OrderIds

Reachable(Start, Steps(_)) ==
    LET Explored[n \in 0 .. MaxSteps] ==
            IF n = 0 THEN [all |-> Start, new |-> Start]
            ELSE LET before == Explored[n - 1]
                     new == UNION {Steps(p) : p \in before.new} \ before.all
                 IN  [all |-> before.all \cup new, new |-> new]
    IN  Explored[MaxSteps].all

Runs(p) == UNION {action_resolves(p, i) \cup action_throws(p, i) : i \in DOMAIN p.runs}

\* At most two orders, to keep it small.
SwapForm(p) ==
    UNION ({setPair(p, b, q) : b, q \in Tokens}
           \cup {onPriceChange(p, text) : text \in {Blank, [of |-> Pair(p), from |-> "user"]}}
           \cup {useMarketPrice(p), setAmount(p, "1")})
        \cup (IF Len(p.runs) + Len(p.made) < 2 THEN onPlace(p) ELSE {})

\* Under the overlay a pointer does not reach the form; the keyboard does, and
\* the button that was pressed last keeps the focus.
Pointer(p) ==
    Runs(p) \cup closeSwap(p) \cup UNION {load(p, usd) : usd \in Feeds}
        \cup (IF p.flow = "idle" THEN SwapForm(p) ELSE {})
Keyboard(p) == Pointer(p) \cup SwapForm(p)

SwapStart == {SwapPage(b, q) : b, q \in Tokens}

PayForm(p) ==
    UNION {setPay(p, "recipientKey", "wr1..."), setPay(p, "amount", "1")}
        \cup (IF Len(p.runs) + Len(p.made) < 2 THEN onSend(p) ELSE {})
PayPointer(p) ==
    Runs(p) \cup closePay(p) \cup (IF p.flow = "idle" THEN PayForm(p) ELSE {})
PayKeyboard(p) == PayPointer(p) \cup PayForm(p)

Requests(p) == Range(p.runs \o p.made)

\* The price of an order is one for its own pair: typed for it, or the
\* market's.  No price outlives a change of the pair, and none is overtaken by
\* the poll.
PriceIsForThePair(swaps) ==
    \A p \in swaps :
        /\ p.price = Blank \/ p.price.of = Pair(p)
        /\ \A r \in Requests(p) : r.price.of = <<r.base, r.quote>> /\ r.base # r.quote
        /\ p.price.from = "user" => \A usd \in Feeds : \A q \in load(p, usd) : q.price = p.price

\* A success empties the form.  A price that had been typed is then never filled
\* in by the poll; one that had not is, as soon as the market's changes.
TypedFormStaysEmpty(swaps) ==
    \A p \in swaps : \A q \in closeSwap(p) :
        p.flow = "done" =>
            /\ q.price = Blank
            /\ \A usd \in Feeds : \A r \in load(q, usd) :
                  r.price = Blank <=> p.priceEdited \/ usd = p.usd

\* One press, one request, as long as the overlay keeps the form away: until it
\* is closed nothing else runs, and then the fields of a success are empty.
OnePerPress(pages) ==
    \A p \in pages :
        /\ Len(p.runs) <= 1
        /\ p.runs # <<>> <=> p.flow = "running"

\* Reached by the keyboard, the same form is sent twice, and the overlay says
\* that all is done while the other order or payment is on its way.
SentTwice(pages) ==
    /\ \E p \in pages : Len(p.runs) = 2 /\ p.runs[1] = p.runs[2]
    /\ \E p \in pages : Len(p.made) = 2 /\ p.made[1] = p.made[2]
    /\ \E p \in pages : p.flow \in {"done", "idle"} /\ p.runs # <<>>

Pages == Reachable(SwapStart, Pointer)
AnyKeys == Reachable(SwapStart, Keyboard)
Pays == Reachable({PayPage}, PayPointer)
PaysAnyKeys == Reachable({PayPage}, PayKeyboard)

-----------------------------------------------------------------------------
Cancels(q) ==
    UNION ({onCancel(q, id) : id \in OrderIds}
           \cup {cancelled(q, i) \cup cancel_fails(q, i) : i \in DOMAIN q.cancels})

Twice(q) == \E i, j \in DOMAIN q.cancels : i # j /\ q.cancels[i] = q.cancels[j]

\* One order alone is not cancelled twice at a time.  Beside a second one it
\* is: the page knows one cancellation, so that the next one, or its end, gives
\* the button of the first back while that is on its way.  Then one of the two
\* fails.
CancelsInterfere ==
    /\ \A id \in OrderIds : \A q \in Reachable({OrderList({id})}, Cancels) : ~Twice(q)
    /\ LET lists == Reachable({OrderList(OrderIds)}, Cancels)
       IN  /\ \E q \in lists : Twice(q)
           /\ \A q \in lists : \A i, j \in DOMAIN q.cancels :
                 i # j /\ q.cancels[i] = q.cancels[j]
                    => \A after \in cancelled(q, i) :
                          cancelled(after, IF j > i THEN j - 1 ELSE j) = {}

-----------------------------------------------------------------------------
Texts ==
    [sign : {"", "-", "+"}, whole : {<<>>, <<0>>, <<1>>, <<1, 9>>},
     frac : {<<>>, <<0>>, <<5>>, <<0, 5>>, <<0, 0, 9>>, <<1, 2, 9>>}, exponent : Exponents]

\* Where form and SDK both take a text they agree, but for the digits that the
\* SDK cuts off: a limit of a sale may so be below what was typed.
UnitsAreCutOff ==
    \A t \in Texts, decimals \in {1, 2, 3} :
        \A n \in parseAmount(t), units \in toBaseUnits(t, decimals) :
            units = n \div 10 ^ (Precision - decimals)

\* The button is on for texts that the SDK then throws on: with an exponent or a
\* plus sign, or less than one unit.  It is off for no text that the SDK would take.
RefusedAfterThePress ==
    \A t \in Texts, decimals \in {1, 2, 3} :
        LET taken == \E units \in toBaseUnits(t, decimals) : units > 0
        IN  /\ taken => isPositiveAmount(t)
            /\ isPositiveAmount(t) /\ ~taken
                  <=> /\ t.sign # "-"
                      /\ \E n \in parseAmount(t) :
                            /\ n > 0
                            /\ \/ t.sign = "+" \/ t.exponent # 0
                               \/ n < 10 ^ (Precision - decimals)

\* A market price that fills the field is placed as it is shown if it is at
\* least a hundredth; below, its eighth decimal is shown and not placed, and
\* the lowest ones are placed as no price at all.
SmallPricesAreCutOff ==
    \A price \in 1 .. 2000 \cup {999949, 999950, 1234567, 99999950, 123456789} :
        LET shown == formatPrice(price)
            lost == shown - 10 * priceScaled(price)
        IN  /\ price >= 10 ^ 6 => lost = 0
            /\ price < 10 ^ 6 => shown = price /\ lost = price % 10
            /\ priceScaled(price) = 0 <=> price < 10
=============================================================================
