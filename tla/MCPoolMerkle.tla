---------------------------- MODULE MCPoolMerkle ----------------------------
(* A tree of depth 3 with two commitments: every sequence of up to eight   *)
(* leaves, every lag of the mirror, every proof made at any time.          *)
EXTENDS PoolMerkle

\* The client library that keeps such a mirror, and the circuits: prices are
\* multiples of 1/2 and "64-bit" values are 0 .. 3.
Sdk == INSTANCE WraithSdk WITH PRICE_SCALE <- 2, U64 <- 4, FIELD <- 23

ASSUME SdkPlacesWhatIsProvable == Sdk!PlacesWhatIsProvable
ASSUME SdkCancelRestores == Sdk!CancelRestores
ASSUME SdkTransfersProvableIf == Sdk!TransfersProvableIf
ASSUME SdkSelectsFewest == Sdk!SelectsFewest
ASSUME SdkOnlyDepositsWithdraw == Sdk!OnlyDepositsWithdraw

\* The service that matches what the wallets place, in every configuration, and
\* the orders that block it.
Process == INSTANCE MatchService
    WITH PRICE_SCALE <- 2, U64 <- 8, FIELD <- 97, MAX_SAFE_INTEGER <- 4

ASSUME SettlesIfComplete == Process!SettlesIfComplete
ASSUME DeadOrderBlocks == Process!DeadOrderBlocks
ASSUME OnlyTheBestIsBlocked == Process!OnlyTheBestIsBlocked
ASSUME PassesSettleOnce == Process!PassesSettleOnce

(* The settings of wallet, relayer and matching service, side by side.      *)

Set == INSTANCE Configuration

ASSUME SameSettingSamePool == Set!SameSettingSamePool
ASSUME HalfAMock == Set!HalfAMock
ASSUME BridgedElsewhere == Set!BridgedElsewhere
ASSUME PreviewIsNotAlone == Set!PreviewIsNotAlone
ASSUME IdsDiffer == Set!IdsDiffer
ASSUME LoopsStandAlone == Set!LoopsStandAlone
ASSUME RelayInSubmits == Set!RelayInSubmits
=============================================================================
