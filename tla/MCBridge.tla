------------------------------ MODULE MCBridge ------------------------------
(* One commitment, locked with amounts that fit a record and one that does  *)
(* not, on an Ethereum of four slots, the last of which is past the period. *)
EXTENDS Bridge

-----------------------------------------------------------------------------
(* The wallet's side: the session in which it runs and the form that starts *)
(* a deposit or a withdrawal, over every short sequence of their steps.     *)

Ses == INSTANCE Session WITH
    Wallets <- {"alice", "bob"}, MaxHasty <- 7, MaxPatient <- 11, MaxLedger <- 3

ASSUME StoredTreeSurvives == Ses!StoredTreeSurvives
ASSUME PatientSwitchesSeparate == Ses!PatientSwitchesSeparate
ASSUME HastySwitchesMix == Ses!HastySwitchesMix
ASSUME ClearingMisses == Ses!ClearingMisses

Form == INSTANCE BridgeForm WITH
    Sacs <- {"token", "native"}, NATIVE_SAC <- "native", MaxSteps <- 8

ASSUME FlowIsTheForms == Form!FlowIsTheForms(Form!Forms)
ASSUME DepositsRedeemable == Form!DepositsRedeemable(Form!Forms)
ASSUME FieldIsNotTheToken == Form!FieldIsNotTheToken(Form!Forms)
ASSUME AbandonedLookupSticks == Form!AbandonedLookupSticks(Form!Forms)

(* The calls of every client, with the contracts at the other end.          *)

Link == INSTANCE Interfaces

ASSUME CallsFit == Link!CallsFit
ASSUME StructuresFit == Link!StructuresFit
ASSUME FieldsKeepTheirNames == Link!FieldsKeepTheirNames
ASSUME LengthsRestOnTheData == Link!LengthsRestOnTheData
ASSUME AbisAgree == Link!AbisAgree

(* The public feed of finality proofs that the relayer takes from.  Twice a *)
(* page of requests, and proofs that span one epoch or too many.            *)

Feed == INSTANCE SignalFeed WITH
    Limit <- 2, MAX_EPOCH_GAP <- 2, MaxRequests <- 4, Steps <- {1, 3}

ASSUME FollowsAPromptRelayer == Feed!FollowsAPromptRelayer
ASSUME BehindIsForGood == Feed!BehindIsForGood(Feed!States)
ASSUME OutOfOrderStops == Feed!OutOfOrderStops(Feed!States)
ASSUME LongStepStops == Feed!LongStepStops(Feed!States)
ASSUME OffThePageStops == Feed!OffThePageStops(Feed!States)
ASSUME SeedAges == Feed!SeedAges(Feed!States)

(* The pages that ask for orders and payments, whatever their user does in  *)
(* seven steps, by pointer or by keyboard, and two orders being cancelled.  *)

Trade == INSTANCE TradePages WITH
    Tokens <- {"XLM", "USDC"}, MaxSteps <- 7, OrderIds <- {"a", "b"}

ASSUME PriceIsForThePair ==
    Trade!PriceIsForThePair(Trade!Pages) /\ Trade!PriceIsForThePair(Trade!AnyKeys)
ASSUME TypedFormStaysEmpty == Trade!TypedFormStaysEmpty(Trade!Pages)
ASSUME OnePerPress == Trade!OnePerPress(Trade!Pages) /\ Trade!OnePerPress(Trade!Pays)
ASSUME SentTwice == Trade!SentTwice(Trade!AnyKeys) /\ Trade!SentTwice(Trade!PaysAnyKeys)
ASSUME CancelsInterfere == Trade!CancelsInterfere
ASSUME UnitsAreCutOff == Trade!UnitsAreCutOff
ASSUME RefusedAfterThePress == Trade!RefusedAfterThePress
ASSUME SmallPricesAreCutOff == Trade!SmallPricesAreCutOff

(* The balances and orders shown to two wallets that take turns.            *)

View == INSTANCE WalletView WITH
    Wallets <- {"alice", "bob"}, MaxSteps <- 9, MaxChanges <- 2

ASSUME BalancesFollow == View!BalancesFollow(View!Views)
ASSUME OrdersLinger == View!OrdersLinger(View!Views)
ASSUME WatchedIsShown == View!WatchedIsShown(View!Watching)
ASSUME OwnPassIsNotShown == View!OwnPassIsNotShown(View!Views)
ASSUME BalancesAddUp == View!BalancesAddUp
=============================================================================
