------------------------------ MODULE MCMatcher ------------------------------
(* Prices are multiples of 1/2 and "64-bit" values are 0 .. 7.             *)
EXTENDS Matcher

MCOwners == {"alice", "bob"}

\* Alice buys and bob sells, but one sell is alice's own.
Offer(side, price, amount, quote, nonce) ==
    [side |-> side, price |-> price, amount |-> amount,
     base |-> "base", quote |-> quote, nonce |-> nonce,
     owner |-> IF side = BUY \/ nonce = 30 THEN "alice" ELSE "bob"]

\* One buy, one that is too large to be placed or proved, two sells of equal
\* price that it fills in part, and a sell of another pair.
MCOffers == {Offer(BUY, 4, 3, "quote", 0), Offer(BUY, 7, 7, "quote", 10),
             Offer(SELL, 2, 7, "quote", 20), Offer(SELL, 2, 1, "quote", 30),
             Offer(SELL, 2, 1, "other", 40)}

\* Two buys that compete for a sell at the lower one's limit.
MCLiveOffers == {Offer(BUY, 4, 3, "quote", 0), Offer(BUY, 3, 1, "quote", 10),
                 Offer(SELL, 3, 2, "quote", 20)}

\* The library's match and the match_orders circuit (WraithSdk).
Sdk == INSTANCE WraithSdk

ASSUME SdkMatchesWhatIsProvable == Sdk!MatchesWhatIsProvable
=============================================================================
