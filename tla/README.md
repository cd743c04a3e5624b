# Wraith dark pool: specifications and proofs

This directory holds TLA+ models of the Wraith dark pool and bridge (a shielded
pool on Stellar with private spot orders, a matching service, a bridge from
Ethereum and a concentrated-liquidity market), the TLC configurations that check
them on small instances, and theorems about them with proofs that TLAPS checks
for every value of the constants. `PROJECT.json` is the machine-readable index:
which definition stands for which lines, what every run checks, which hazards
of the code the properties are for.

How to run them, from this directory:

    tlc -config MCPoolSwap.cfg MCWraithPool     # any run of PROJECT.json
    tlapm WraithPoolProofs.tla                  # any *Proofs module

## 1. The system

### Inventory

| Component | State it keeps | Operations | Hard behaviour | What makes it correct |
|---|---|---|---|---|
| Circuits of the pool (`circuits/noir/wraith_lib`, `withdraw`, `transfer`, `place_order`, `match_orders`, `cancel_order`) | none; each is a relation on public inputs and witness | prove, verify | field subtraction, casts that truncate, floors | value conserved over the integers; limits respected; no lock that is not paid for |
| Pool contract (`contracts/wraith-pool`) | leaves, frontier, 100 roots, nullifiers, active orders, admin, bridge, tokens in custody | `deposit`, `withdraw`, `transfer`, `place_order`, `match_orders`, `cancel_order`, `set_bridge`, `bridge_mint` | proofs against old roots; orders without nullifiers; up to four insertions in a call | solvency; no double spend; no claim lost or doubled |
| Note tree and its mirror (`merkle.rs`, `sdk/src/merkle.ts`) | frontier per level, ring of roots; the wallet's layers | `insert`, `is_known_root`, `generateProof` | frontier with stale nodes; mirror behind; ring at its limit | frontier root is the full tree's root; a proof of the mirror is accepted for 100 insertions |
| Matching service (`matcher/src`) | book, sequence, `ticking`; nothing on disk | `POST /orders`, a background pass: match, prove, seal the memos, prepare, send | orders change between the awaits; replies lost; restart; memos are bound to outputs by position only | amounts the circuit accepts; each owner can open what the match gave him; price-time priority; no second settlement; passes end |
| Wallet and indexer (`frontend/src/lib`) | notes, orders, leaves and cursor in local storage; the mirror in memory | `deposit`, `send`, `withdraw`, `placeOrder`, `cancelOrder`, `sync` | crash between tree, store and cursor; salts by counting; time-outs of calls that are applied later | the tree is a prefix of the pool's; every payment and fill is found again; no note is shown that is not there |
| Bridge contract (`contracts/wraith-bridge`) | `Bridged` set, bridge-local nullifiers | `bridge_in`, `bridge_out` | depends on a light-client root at or after the lock; reorganisations | a mint stands for one final lock that is still in escrow |
| L1 lock contract (`bridge/l1`) | `locks`, `spentOnL2` | `lock`, `unlock` | unlocked by the relayer's operator, by hand, from bridge_out events | an unlock at most once per lock, and only for a `bridge_out` |
| Light client, signal client (`contracts/eth-light-client`, `eth-signal-client`) | committee and its period, roots per block, head; consensus state, beacon roots | `update_header`, `receive`, `prove_execution`, `post_root` | calls in any order; posted and proven roots share a key | only final roots are trusted, whichever path they came by; the head catches up |
| Relayer (`bridge/relayer`) | nothing between polls | `watch`: header, in and out loops; one-off commands for a header, a journal, a root, a lock | polling the last 1000 ledgers again; one attempt per lock | handlers that interleave never mint twice; the header loop never gets stuck |
| CLMM contract and circuits (`contracts/clmm`, `clmm_*`) | pools, positions, nullifiers, commitments, op ids | `create_pool`, `deposit_private`, `mint`, `burn`, `swap`, `collect`, `mint_public`, `burn_public`, `claim_protocol_fees` | proofs bound to the current root and to the pool's state commitment | private operations act one after the other; no nullifier used twice; liquidity is owned |
| Stand-alone tree (`contracts/merkle_tree`) | leaves, authorized inserter | `insert`, `authorized_insert`, `batch_insert`, `set_authorized_inserter` | anyone may insert or take the inserter's place | root and paths are those of the full tree |
| SDK (`sdk/src`) | a wallet of notes, in memory | commitments, order arithmetic, receive codes, sealing, note selection, prover inputs | a note is marked spent when an operation is built | what is sealed is what was committed to; what it builds satisfies the circuits |
| Session and pages of the wallet (`frontend/src/hooks`, `components`) | connected wallet, active identity, what is shown, the form being filled, the overlay of a proof | connect, switch, Clear data; deposit, withdraw, swap, pay, cancel | awaits that outlive a switch of wallets or a change of the form; a price that a poll fills in; buttons that the keyboard reaches under an overlay | stores of two wallets stay apart; a flow does what the form said; one press, one request |
| CLMM SDK and page (`sdk/typescript`, `clmm-frontend`) | notes and positions; readings, balances, one submission | tree, witnesses, public inputs; read, build, sign, submit | readings that end late; a submission polled for ever | layouts that the contract parses; the page shows its own wallet's state |
| Faucet token, verifier, Ethereum decoders, scripts | none, or one cell per account | | | not modelled (section 6) |

### How the parts interact

A wallet reads leaf events into its mirror, proves against the mirror's root and
calls the pool; the pool verifies with the verifier contract and inserts the
output notes. A wallet that has placed an order posts its opening to the
matcher (HTTP, best effort). The matcher proves and sends `match_orders` like
anyone could. The bridge contract reads `state_root_at` from a light client and
calls `bridge_mint` of the pool. The relayer watches both chains and calls the
light client and the bridge. The CLMM uses a tree contract of its own; only the
SDK style is shared with the pool.

### The plan

Written first, because all value goes through it:

1. `SwapArithmetic`, `RestingOrder`: the arithmetic of a swap and the life of one order. *Done, proved.*
2. `ShieldedLedger`, `RootHistory`, `NoteTree`, `Tally`, `WraithPool`: the pool against the ledger it promises to be. *Done, proved.*
3. `PoolMerkle`: the tree of hashes, the mirror and the proofs, implementing `NoteTree`. *Done, checked, proved.*
4. `MatchingEngine`, `Settlement`, `Matcher`: the matching service between wallets and pool, and how the owners learn what a match gave them. *Done, checked, its safety proved.*
5. `WalletIndexer`: the wallet's tree, store and cursor with a reload between any two writes, the 90 s / 120 s time-outs and recovery by salts. *Done, checked, its safety proved.*
6. `StateRoots`, `EthLightClient`, `EthSignalClient`: calls in any order, posted and proven roots. *Done, checked and proved with the bridge.*
7. `Bridge`: L1, the clients, the bridge contract and the relayer's loops. *Done, checked, its safety proved.*
8. `MerkleTree`, `Clmm`: pools, positions and private operations. *Done, checked and proved.*
9. The clients and what holds them together: `Circuits`, `WraithSdk`, `ClmmSdkTree`, `ClmmSdk`, `Interfaces`, `Configuration`. *Done, evaluated.*
10. The session, the pages and the service's outside: `Session`, `BridgeForm`, `TradePages`, `WalletView`, `ClmmApp`, `SignalFeed`, `MatchService`. *Done, evaluated.*

Left: the mock SDK; the decoders, as functions of a structured input.

## 2. Modules

| Module | Stands for |
|---|---|
| `SwapArithmetic` | `wraith_lib` arithmetic and the amounts of `place_order`, `match_orders`, `cancel_order` |
| `RestingOrder` | one order from `place_order` through any series of partial fills to its end |
| `ShieldedLedger` | the abstract promise of the pool: value moves only at the edge |
| `RootHistory`, `NoteTree` | `push_root`; the tree as its callers see it, a list of leaves and a window of roots |
| `Tally` | sums over finite sets as cardinalities, so that their laws can be proved |
| `WraithPool` | the pool contract with the circuit each entry point verifies |
| `PoolMerkle` | `merkle.rs` and `sdk/src/merkle.ts` down to the hashes, and the circuits' fold |
| `MatchingEngine` | `computeMatch`, `settleOrder` and the priority order of the book of `engine.ts`, and the relation the prover has to satisfy |
| `Settlement` | the openings, commitments and sealed memos of a match (`prover.ts`, `memo.ts`, `note-crypto.ts`), and the two wallets that try them |
| `Matcher` | the service: book, loop, prove / prepare / send, faults, restart |
| `WalletIndexer` | the browser wallet: `indexer.ts`, `indexer-service.ts`, `note-store.ts`, the operations of `real-sdk.ts` and the deposit from Ethereum of `Bridge.tsx`, against a chain |
| `StateRoots` | the roots per block and the head, which both Ethereum clients keep in the same way |
| `EthLightClient`, `EthSignalClient` | `update_header` with its committee rules; `receive` and `prove_execution` |
| `Bridge` | `WraithBridgeL1.sol`, an Ethereum that mines, reorganises and finalizes, `wraith-bridge`, and the relayer |
| `MerkleTree` | `contracts/merkle_tree`: insertions, the inserter, the root over the leaves, `verify_proof` |
| `Clmm` | `contracts/clmm` with the four circuits it verifies |
| `Circuits` | the five pool circuits as relations of inputs by name, for the clients that assemble them |
| `WraithSdk` | `sdk/src`: notes and orders, the in-memory wallet with its note selection, the class `Wraith`, and the prover inputs it builds |
| `ClmmSdkTree` | the tree of `sdk/typescript/src/crypto/merkle.ts`, over the hashes of `MerkleTree` |
| `ClmmSdk` | note store, nullifiers and mint witness of `sdk/typescript`, the public-input layouts of `clmm-frontend`, the contract's parsers and the mint circuit |
| `MatchService` | the service around the engine: settings (`index.ts`, `submitter.ts`), what `POST /orders` lets in, one whole pass in dry-run, log-only and live mode |
| `Session` | `useWallet.tsx`, `useWraith.tsx`, `shielded-identity.ts`, `note-store.ts`, `indexer-service.ts`: which identity reads and writes under which name |
| `BridgeForm` | the form of `Bridge.tsx` with the registry of `tokens.ts`, live |
| `TradePages` | `Swap.tsx`, `Pay.tsx`, `useProofFlow.ts`, `usePriceQuote.ts`, `format.ts`: order and payment forms, overlay, cancel buttons, what a text is worth |
| `WalletView` | `useWraith.tsx` and the two getters of `real-sdk.ts`: when balances and orders are read again, and what they say of the store |
| `Configuration` | `config.ts` of wallet and relayer, and which modes, pools, ids and loops follow; together with the settings of `MatchService` |
| `ClmmApp` | `App.tsx` and `lib/stellar.ts` of the CLMM front end: readings, the wallet, building, signing and polling; the contract's table of recorded notes |
| `SignalFeed` | `signal-seed` and `relay-signal` of the relayer, and the public feed of proofs they take from |
| `Interfaces` | the signatures of all contracts, and the calls and structures that the clients encode |
| `MC*` | instances for TLC, and the statements that are evaluated before a run |
| `*Proofs` | theorems and lemmas |

`WraithPool` EXTENDS `SwapArithmetic`, `Tally` and `NoteTree`; `Matcher` EXTENDS
`Settlement`, which EXTENDS `MatchingEngine`, which EXTENDS `SwapArithmetic`. `WraithPool` refines
`ShieldedLedger`, `PoolMerkle` refines `NoteTree`. `Bridge` EXTENDS both clients,
which EXTEND `StateRoots`; `Clmm` EXTENDS `MerkleTree`. `WraithSdk` EXTENDS
`Circuits`, `MatchService` EXTENDS `Settlement`, `ClmmSdk` EXTENDS `ClmmSdkTree`,
and `Configuration` instantiates `MatchService`.

The modules from `Circuits` on have no variables. What is a pure function of its
inputs is an operator. What has steps (a session, a form, a page, a feed) is a
record, and a step is an operator from the record to the set of its successors,
empty where the code returns early; the last section of such a module explores
all sequences of at most so many steps and states what holds of every record
reached. The MC modules name these statements as `ASSUME`s, so that TLC evaluates
them whenever the run of that module starts.

### What the state stands for

* **A commitment is the record it opens to**, a nullifier is the note it was
  derived from, and `hash2` is a pair. Poseidon2 is taken to be free of
  collisions, and an owner's key to derive one nullifier per commitment.
* **A proof is valid exactly when its circuit has a witness.** The actions
  quantify over the witness, so anyone may call anything for which a witness
  exists; keys are not modelled (the properties are about value and not about
  who may spend it).
* **In `NoteTree` a root is the number of leaves it commits to.** A proof made at
  some earlier time is one that names any root still in the window, so that a
  call needs no separate "prove" step: everything that could be inserted
  between the proof and the call is in the choice of `k`. `PoolMerkle` shows
  that this is what the hashes do (`ImplementsNoteTree`, `MembershipIsPrefix`).
* **A refused call changes nothing** (Soroban rolls back) and is a disabled
  action. A call of the pool is one atomic step.
* `custody` is what the token contracts hold for the pool; `minted` is a history
  of `bridge_mint`, used by properties only.
* In `RestingOrder`, `funded`, `filled`, `released`, `received` and `returned`
  are history variables: the code keeps none of them, which is why a test
  cannot ask about them.
* In `Settlement` a wallet is named by its owner key; what was sealed to the public
  half of its viewing key opens with the private half, and with nothing else.
* In `Matcher`, `batch` and `phase` are the local variables and the await of
  `runOnce`; `sent` is the network; of the pool only the active order set is
  kept. The check for the `ticking` flag is `phase = "idle"`.
* In `WalletIndexer`, `chain` is one event of the pool per ledger, `mempool` the
  transactions that were sent and may still be applied; `live` is the
  `WraithIndexer` in memory, `pass` the pass in flight with its local variables,
  `op` the operation that awaits its confirmation; `known`, `leafIndex`, `marked`,
  `orders`, `open` and `disk` are local storage. The `inflight` promise is
  `pass.pc # "idle"`.
* In `Bridge`, `l1[b]` is Ethereum's state after block `b`; a state root is that
  state, and a storage proof is a look at it. `handlers` are the relayer's
  `Locked` callbacks with what each has read so far; a callback does not wait for
  the ledger, so it ends with a call that is `sent`, and settles later. `relayHeader`,
  `relaySignal`, `relayIn` and `submitPostRoot` are the relayer's one-off commands.
* In `Clmm`, a root is the number of leaves, a nullifier is the pair of a commitment
  and a key, and `log` is a history of the operations on pools. `clmm_mint` and the
  other circuits are the sets of what a proof may publish for a root and a pool state.

### Where a model widens or narrows the code

* Wallets and the bridge create a note for the amount that crosses the edge.
  The contract cannot see into a commitment (`lib.rs:55`), so this is an
  assumption about honest callers, and everything about solvency rests on it.
* `match_orders` draws one blinding for refunds and one nonce for residuals;
  two refunds or two residuals never occur in one match.
* `WraithPool` leaves out memos, events, time-to-live of storage entries and the
  encoding of public inputs. What the memos of a match are for is in `Settlement`.
* The owner whose receive code comes with an order is the order's owner
  (`real-sdk.ts:644` posts the wallet's own), and blindings and nonces that the matcher draws
  never coincide. `MatchService` has the codes that are another's or do not decode.
* `Matcher` models the live mode with a real prover. A wallet posts an order
  at most once, as `real-sdk.ts:641` does; the service itself accepts
  it twice (`MatchService`). The order in which pairs are visited is that of a hash map: any.
* `WalletIndexer` has one identity, one asset and one deposit amount (one key of
  `depositCount`), and one operation at a time. Other operations under way at
  once are left out; switching identities and Clear data are in `Session`, where a
  ledger holds one payment and a pass has two awaits.
* `Bridge` lets any account submit proofs. `bridge_out` of a note of the pool that
  no lock stands behind, which the contract accepts (it sees a nullifier only), is
  left out, and so is the window of 1000 ledgers of the out feed. An unlock by the
  relayer is one step with the block that mines it.
* `Clmm` leaves out protocol fees (no operation ever accrues one), the records of
  notes and operation ids (only views read them), nonce and owed tokens of a
  position, and `clmm_swap_exact_out`, which no entry point verifies. The checks of
  `create_pool` on fee and price only refuse, and are left out; that of the spacing is in.
  Callers are not wallets: they submit anything that a circuit accepts, at any time,
  for any root and any pool state. The circuits constrain no amounts of outputs,
  nor the assets of those of a burn or a collect; neither does the model. They take
  the spending key apart from the owner key (`clmm_mint/main.nr:83-92`,
  `clmm_swap_exact_in/main.nr:52-60`) and do not open an old position
  (`clmm_burn/main.nr:66-77`, `clmm_collect/main.nr:59-70`, `clmm_mint/main.nr:109-114`):
  in the model, too, a note has one nullifier per key, and an old position may be
  any leaf. That a note has one nullifier is not assumed anywhere, and does not hold.
  The records of notes are in `ClmmApp`, as the page reads them.
* `ClmmSdk` grants that the library's stand-in for Poseidon2 agrees with the
  circuits'. `Interfaces` has signatures and field tables only, no bytes.
* `BridgeForm` and `TradePages` have the live SDK behind them as something that
  resolves or throws at some later step; `WalletView` keeps of a store the number
  of changes made to it.
* `SignalFeed` has one requestor whose proofs start where the last one ended, and
  provers who answer in any order.

## 3. Properties

Every module has one type invariant. The others:

**One order (`RestingOrder`).** `EscrowCovers`: what fills release, what comes
back and what the residual still promises never exceed what the owner paid,
over any number of fills. `BuyerLimit`, `SellerLimit`: nobody trades beyond his
limit; for the seller this holds fill by fill, not for the whole, because each
quote is floored. `SingleStepExact`: a single complete fill or a cancel strands
nothing (a partial fill of a buy does strand its price improvement, as
`circuits/README.md` documents).

**The pool (`WraithPool`).** `ImplementsLedger` and `Solvency`: unspent notes and
locked orders are backed, asset by asset. `SpentWereLeaves`: the dummy inputs of
`transfer` cannot burn a note before it exists. `OrdersRefundable`: locks fit 64
bits although `place_order` compares a 128-bit product after a truncating cast.
`LeavesSpendable`: refund notes, which no circuit range-checks, can be spent.
`RootWindow`: a root is acceptable for exactly 100 insertions.

**The tree (`PoolMerkle`).** `MirrorAgrees` (the frontier's root is the full tree's, and
the mirror's), `ProofAccepted`, `MembershipIsPrefix`, `ImplementsNoteTree`: section 1's
row on the note tree.
`SealedWitness`: the witnesses a sender computes for notes that are not inserted
yet, from the contract's frontier alone, are accepted once they are. (The module's
typing follows from the refinement of `NoteTree`.)

**The matcher (`Matcher`).** `EngineMirrorsCircuit`: unbounded integers against
casts and checks. `SettlementDelivers`: for any crossing pair, two orders of one owner
included, each owner finds with the memo beside it exactly his fill, his refund and his
residual, with the amounts that `cancel_order` asks for. `ClaimsExclusive`: no acknowledged settlement is sent a second
time. `PriceTimePriority`: on a pass, nobody is passed over and no crossing pair
is left. `PassEnds` and `BestPairProgress`: the loop does not stop, and the best
pair does not sit in the book for ever.

**The wallet (`WalletIndexer`).** `TreeIsPrefix`: the tree that witnesses are made
from is a prefix of the pool's, in memory and on disk, though passes overlap and
leaves of orders carry no index. `NoGap`: reading on, now or after a reload,
never meets a gap. `Recovered`: a payment, a fill or (unless a pass was cut
short) a deposit that will not be read again is in the store. `StoreBacked`: no
note is shown that is not in the pool, and none is hidden that is not spent.
`IndexTrue`: a stored index is where the pool has the note. `MatchedNotOpen`: a
consumed order is not offered for cancelling. `Discovered`: what is on chain is
found in the end, given up or not.

**The bridge (`Bridge`).** `RootsFinal`: updates, posted roots and journals in any
order leave only roots of final blocks, and the head is the newest. `MintBacked`:
every mint stands for one final lock of that token and amount, which is in escrow
until it is bridged out. `HeadCatchesUp`: the header loop never gets stuck while
the seeded committee signs.

**The CLMM (`Clmm`).** `Serial`: however proofs for older roots and states, replays and
public operations race, the private operations stand in one order in which
each was for the tree and the pool state that the ones before it left. Each uses up a nullifier
of a leaf that was under its root, and none a nullifier that another used, in
the same pool or the other. Nothing is said of notes: one note can be the input of two
operations that derive its nullifier with different keys (section 2).
`LiquidityBacked`: the liquidity of a pool is owned by its positions, though both
saturate. `MCClmm` also compares the tree's root and proofs with the full tree
(`RootOfLeaves`).

### Statements evaluated before a run

The modules without variables have statements instead of invariants: equivalences
over every input of a small set, or over every short sequence of steps. Those that
say `\E` are the limits of the ones that say `\A`: they show which step of the code
the good case rests on.

**The SDK (`WraithSdk`, `Circuits`; in `MCPoolMerkle` and `MCMatcher`).**
`PlacesWhatIsProvable`: the SDK places an order exactly when the circuit has a
proof of it, and hands over one. `CancelRestores`: placing and cancelling restores
every balance. `TransfersProvableIf`: it builds transfers that the circuit refuses
for two assets, or for one note given twice. `SelectsFewest`: its greedy selection
covers the amount whenever the balance does, with the fewest notes.
`OnlyDepositsWithdraw`: the change of an order has no token address and cannot
be withdrawn through it (as `types.ts:54-56` says of transfers).
`MatchesWhatIsProvable`: what its `computeMatch` builds is a proof unless an amount
leaves 64 bits.

**The service from outside (`MatchService`; in `MCPoolMerkle`).** `SettlesIfComplete`:
two crossing orders are settled exactly by a service that names the wallets' pool,
is live, has a circuit and its loop. One that loops without being live, or live without a
contract, drops matched orders, which wallets post only once; one that is
live with the mock prover keeps them. An empty `WRAITH_POOL_CONTRACT` hides
`deployments.json`. `DeadOrderBlocks`, `OnlyTheBestIsBlocked`: an order that can never
be settled (never placed, cancelled, the copy of a settled one, a number beyond
2^53 that JSON has rounded, another's preimage, another's or a garbled receive code) is
never removed, and blocks the best order of the other side, and only that.
`PassesSettleOnce`: beside it, a pass settles nothing twice.

**The session (`Session`; in `MCBridge`).** `StoredTreeSurvives`: however hastily
wallets are switched and data is cleared, the stored tree is a prefix of the pool's
and reaches its cursor. `PatientSwitchesSeparate`: switches while nothing is
awaited keep identities and notes apart and miss no payment; `HastySwitchesMix` lists
what other switches do: a late signature becomes the next wallet's key, a late pass
stores under the next wallet and moves its cursor, and reconnecting during a
signature works under no name, so that a random key is lost. `ClearingMisses`: the
indexer in memory survives Clear data, and its next pass stores its cursor.

**The forms (`BridgeForm`, `TradePages`; in `MCBridge`).** `FlowIsTheForms`: the flow under way is the
one on the screen, and only an indexed note of the right chain is withdrawn.
`DepositsRedeemable`: what is deposited can be withdrawn, except the native
contract pasted as a custom token, whose asset id no withdrawal matches.
`FieldIsNotTheToken`, `AbandonedLookupSticks`: in custom mode the last token found
is deposited whatever the field says, and an abandoned lookup leaves "Resolving
token" for ever. `PriceIsForThePair`: no order goes out at another pair's price, and no
poll overtakes a typed price. `TypedFormStaysEmpty`: after a success a price that had
been typed is not filled in again by the poll. `OnePerPress`: with a pointer, one
request per press; `SentTwice`: the overlay does not keep the keyboard away, and the
button that has the focus sends the same form twice. `CancelsInterfere`: with
two orders the one `cancelingId` gives a button back while its cancellation is under way.
`UnitsAreCutOff`, `RefusedAfterThePress`, `SmallPricesAreCutOff`: form and SDK
agree on a text up to the digits that are cut off; the form lets through texts with an
exponent or a plus sign that the SDK throws on; market prices below a hundredth lose
their eighth decimal.

**What is shown (`WalletView`; in `MCBridge`).** `BalancesFollow`: nobody sees another wallet's
balances. `OrdersLinger`: but the orders of the last wallet stay on the screen until
the first pass of the next one ends. `WatchedIsShown`, `OwnPassIsNotShown`: what the
effect or the poll finds is shown; what the pass an operation starts finds is not, until
something else changes. `BalancesAddUp`: balances are sums as long as a code
stands for one asset.

**The settings (`Configuration`; in `MCPoolMerkle`).** `SameSettingSamePool`: wallet and
service mean the same pool by the same setting, except an empty one. `HalfAMock`:
`VITE_USE_MOCK=1` mocks the identity and not the SDK. `BridgedElsewhere`: a bridged
note can be spent only by a wallet of the bridge's pool, and that is not the pool
the service matches in by default. `PreviewIsNotAlone`: the preview of the bridge
works on the real store. `IdsDiffer`: when two assets share an id. `LoopsStandAlone`,
`RelayInSubmits`: which of the relayer's loops and commands run, and that the inclusion
loop runs without the header loop.

**The CLMM's clients (`ClmmSdkTree`, `ClmmSdk`, `ClmmApp`; in `MCClmm`).** `SdkTreeIsAnother`: the
library's root is the contract's only for a tree at its full height, and its witness
good only for a single leaf. `ClientLayoutsAgree`: the front end lays out public
inputs as the contract parses them. `SdkMintIsRefused`: no mint the library
prepares passes, and why. `PositionsCollide`: equal requests of one owner have one
position nullifier. `ImportForgetsSpends`. `OneAtATime`: a submission is pending
exactly while it is made, and reported only when a ledger has it.
`PatientPageIsTrue`: readings that do not overlap leave a page that is true;
`SubmissionReadsForItsOwn`, `LateReadingStays`, `ExpiredStaysPending`,
`FailedMayLand` are what the page shows otherwise. `RecordsAreShared`: the table of notes is
shared by deposits and by every pool's operations.

**Between the programs (`Interfaces`, `SignalFeed`; in `MCBridge`).** `CallsFit`,
`StructuresFit`, `FieldsKeepTheirNames`, `AbisAgree`: every call a client encodes has
a method with those parameters, and every field arrives under its name through two
renamings; `LengthsRestOnTheData` lists the arguments that only the data can be
right about. `FollowsAPromptRelayer`: a client seeded for the newest proof and
relayed to promptly is never left behind. `BehindIsForGood`, `OutOfOrderStops`,
`LongStepStops`, `OffThePageStops`, `SeedAges`: `relay-signal` submits only the newest
proof, so that one proof that is missed leaves the client where it is for good.

### Disagreements with the documents

Three runs expect a violation; each is a sentence of the repository that the
code contradicts.

* `retry_is_safe`: `indexer.ts:398-400` says an RPC error in the middle of a pass is
  always safe to retry. What the pass found is lost, while the salt of a
  recognised deposit is used up: the retry no longer recognises it.
* `back_filled`: `note-store.ts:289-292` says a note created without an index gets one
  when its leaf is indexed. A pass that reads the event before the note is stored
  leaves it without one for ever; and the leaf of a bridged note, which
  `bridge.ts:156-157` says interoperates with the pool, is never matched with the
  store at all. Without an index the wallet refuses to spend a note.
* `out_feed`: `l1.ts:4-8` says the `bridge_out` event carries the lock's commitment. It
  carries the nullifier, as a topic; the relayer looks for 32 bytes in the value,
  throws, and never unlocks.

Smaller ones, which no run of their own checks (those of a module above are
evaluated there):

* *Pool and matcher.* `SPEC.md:623` says a refund note is 0 on a full fill, where the
  circuit refunds a buy's price improvement exactly then. `SPEC.md:403` and `:543` pass
  `note_owner_key`, as `buildWithdrawInputs` does, which the withdraw circuit does
  not take. `merkle.ts` says its `isKnownRoot` matches the contract's, but the mirror
  also accepts the empty root until 100 leaves are in. `engine.ts:193-195` says a residual
  re-enters the book on the next observation; nothing in the service observes the
  chain. `matcher/README.md:83-94` shows a body without the `receiveCode` that
  `index.ts:61-64` requires. `note-crypto.ts:57-58` says the commitment in an order's memo is cross-checked
  with those of the event; `recoverResidualOrder` stores whatever it decrypts.
* *SDK.* `wallet.ts:5-7` says a note is spent when its nullifier is published; it is
  marked when the operation is built. `matchOrdersOp` defaults to no memos, which
  the contract refuses (`lib.rs:323`), and `proofOp('transfer')` sends none, so that
  the recipient never learns of the note.
* *Wallet.* `real-sdk.ts:13-15` says orders and transfers are not wired; they are.
  `note-store.ts:190-191` says Clear data restarts discovery (`ClearingMisses`).
  `useWraith.tsx:137` says payments arrive without a manual refresh
  (`OwnPassIsNotShown`). A declined signature's random key is later said to be
  portable. `config.ts:26-29` and `wraith-sdk.ts:252-258` read one flag in two ways
  (`HalfAMock`). `config.ts:102-107` describes a `POST` to a relayer that serves none.
  `deployments.json` names another pool for the bridge than `config.ts:38-43`
  (`BridgedElsewhere`).
* *Bridge.* `index.ts:211`, `:244` and the signal client's `types.rs:42-44` ask for epochs in
  order, while `relay-signal` takes no epoch; no command submits `prove_execution`.
* *CLMM.* `contracts/clmm/src/lib.rs:105` and `:358` say that a nullifier prevents replay and
  double-spending, `wraith_lib/src/lib.nr:49-50` that only the owner derives it and that a note has one, and
  `clmm_burn/main.nr:4` that it validates ownership of the position. A nullifier prevents its own
  reuse; the circuits bind neither its key to the owner of the note nor, for a burn
  or a collect, the leaf to a position (section 2). `merkle.ts:4-6` of `sdk/typescript` promises witnesses that match circuit and
  contract (`SdkTreeIsAnother`). `clmm_mint/main.nr:11-20` and the SDK list nine public
  inputs; circuit and contract have seven. Its `README.md:174-175` restores a wallet from an
  export that forgets what was spent. Deposits and operations of all pools share one
  table of notes (`lib.rs:293-303`, `:337-349`), whose operations `App.tsx:945-953` takes to be Mint, Swap, Collect, Burn
  in that order. The page says a Collect has 6 fields where it has 7.
  `IMPLEMENTATION.md:108` has `sqrt_price` scaled by 2^96, and the page's quote divides its square by 2^96 once.
  `App.tsx` polls a transaction that no ledger takes for ever, and calls one failed whose
  poll threw, though it may land.

Behaviours of the matcher that no document excludes, and that the model has: a
transaction that is acknowledged and then refused or expired leaves two active
orders out of the book; a stale best order is tried at every tick and starves
the good order it is paired with; a restart loses the book. Of the wallet: a
cancel that is given up and then applied loses the only copy of its refund's
blinding, and so does a deposit from Ethereum whose polls time out; the index of a
transfer's change is a guess. Of the relayer: a lock is tried once, mostly too
early, and then only by hand.

## 4. Runs and bounds

| Run | Instance | Why it is enough |
|---|---|---|
| `resting_order` | scale 3, "64-bit" values 0..7, every price and size | all of floor, midpoint halving and truncation occur; any number of fills, because amounts shrink; locks of up to 16 exceed the width |
| `pool_notes` | values 0..2, field of 13, two assets, 4 leaves, 2 roots | outputs of `transfer` range over the whole field, so sums wrap; dummies and the full tree occur; roots leave the window |
| `pool_swap` | values 0..3, field of 23, one pair, 7 leaves, 2 roots | locks that exceed the width; a partial fill, then a fill of the residual, cancels and withdrawals in between |
| `pool_merkle` | depth 3, two commitments, 3 roots | every sequence of up to 8 leaves, hence every frontier; every lag; every proof at every time |
| `matcher` | five orders of two owners on two pairs, one fault | a competing sell at equal price, a match with one's own order, an order that cannot be placed, partial fills, one failure anywhere (0.52 million states) |
| `matcher_liveness` | three orders, two faults | two buys compete for one sell; a lost reply and a failed retry |
| `wallet` | 3 ledgers, 3 transactions, a reload, a failing pass | every pair of operations with a third event in between; a residual of a residual; a deposit given up, applied late and discovered; a reload between any two writes (2.0 million states) |
| `bridge` | 4 blocks, one commitment, either client | lock, its reorganisation, its finality and a block after it; updates out of order from both kinds of signers; the steps of two handlers and of the one-off commands between them; amounts beyond the width of the record (0.27 million states) |
| `clmm` | two owners, two assets, two pools, two keys, 5 leaves, 3 operations | an operation that is raced by a public one, an insertion or an operation on the other pool; replays; a note used with either key; a minted position that is collected; liquidity at its limit (1.0 million states) |
| `retry_is_safe`, `back_filled`, `out_feed` | as above | a counterexample needs no more |

| Evaluated with | Instance | Why it is enough |
|---|---|---|
| `pool_merkle`, `matcher` | `WraithSdk`: "64-bit" values 0..3 and 0..7, every order, every pair of notes; `MatchService`: every setting, two to four orders, `MAX_SAFE_INTEGER` 4; `Configuration`: every value that makes a difference | locks beyond the width, mixed assets; each way an order can be dead, at three prices around a good one's |
| `bridge` | `Session`: two wallets, 7 hasty or 11 patient steps, 3 ledgers; `BridgeForm`: 8 steps, two pasted contracts; `TradePages`: 7 steps, two tokens, two requests, two orders, texts of up to three decimals; `WalletView`: 9 steps, two wallets, two changes; `SignalFeed`: pages of 2, 4 requests, proofs of 1 or 3 epochs with a gap of 2 | a signature, a pass and a deposit that outlive a switch; a lookup left before it ends; a price typed, quoted, overtaken; a request off the page, a proof out of order and one that is too long |
| `clmm` | `ClmmSdk`: stores of up to two notes; `ClmmApp`: 9 steps, two accounts, 3 ledgers, 2 transactions; three recorded calls on two pools | two readings that overlap a submission or a change of wallet; an expired transaction and one that fails and lands |

The bounds are `U64`, `FIELD`, `PRICE_SCALE` (the arithmetic), `MAX_LEAVES` or
`TREE_DEPTH` and `ROOT_HISTORY` (the tree, as in the contract but smaller), the
sets of owners, blindings, nonces, prices and sizes, `MaxFaults` and who owns which order
(`Owners`) of the matcher; `MaxLedger`,
`MaxTx`, `MaxReloads`, `MaxErrors` of the wallet; `MaxBlock` and `MaxHandlers` of the bridge; `SpendingKeys`, `MaxPools`,
`MaxOperations`, `MaxTokens` of the CLMM. All of them are constants,
and the theorems below hold for every value of them.

One owner, one blinding and one nonce suffice for the pool: two notes that are
equal in every field then do occur, which is the harder case for sets of
nullifiers. The runs set `CHECK_DEADLOCK FALSE`: a filled or cancelled
order, a full tree of spent notes, a market without traders and a chain at its
last block are ends.

**Fairness.** `Matcher` has `WF(tick)`, because `setInterval` fires again
and again, and `WF(prove \/ prepare \/ send \/ send_fails)`, because each await
of the pass settles, with a result or an error. The second is an assumption
about the prover and the RPC client: the service puts no time-out of its own
around them. Placing, posting, cancelling, applying and expiring are not fair,
and neither are restarts. `MaxFaults` bounds how often a call fails: liveness is
about a network that works again in the end.

`WalletIndexer` has weak fairness of the steps of a pass together: while a wallet
is connected, an interval starts one every 15 seconds (`useWraith.tsx:151`), and a
started pass goes on. Operations, confirmations, ledgers, failures and reloads are
not fair. `Bridge` has weak fairness of the header loop's `tick` and of the out
feed's poll, which the relayer runs on timers; users, Ethereum, handlers and the
operator by hand are not fair, and `HeadCatchesUp` holds as long as blocks are of
the period whose committee the client was seeded with, since the client never
learns another.

## 5. Proofs

All with the constants as parameters and only the named `ASSUME`s (a positive
scale, a field larger than `U64 * U64 + U64`, inputs that are 64-bit values, a
tree with room for a leaf; finitely many commitments, token addresses that fit their
part of a lock's word, a sync committee of more than one member, and a zero that is no
note's commitment).

* **`ArithmeticProofs`.** What the others rest on; the scale and the width in it matter to
  the prices only, not to the laws of totals nor to the proofs about bridge, CLMM and
  trees that use these and the induction. Floors are monotone and superadditive; from that
  `LockFullyFunded` (cast and field subtraction agree with the integers),
  `QuoteWithinLimits` and `SettlementCovered` (one match gives out at most what
  was locked, and exactly that when it fills the order). A total is the cardinality of a
  set of units, so adding and removing members is a matter of disjoint unions: its laws
  need no induction, and TLC compares it with the community modules' sum (`TotalIsSum`).
  Induction up to a bound is over a set of numbers in place of a predicate (`UpTo`), from
  the well-foundedness of the naturals.
* **`RestingOrderProofs`.** `EscrowCovers` is not inductive by itself; `IInv` adds
  that the order in the active set is the placed one less what was filled, at
  the same side and price (`RestIsResidual`), and that an order of which nothing was
  filled has all its owner paid, its lock, still in the escrow (`Untouched`).
  `EscrowAlwaysCovers`, `BuyerLimitAlways`, `SellerLimitAlways`, `SingleStepAlwaysExact`,
  `RestingOrderTyped`.
* **`WraithPoolProofs`.** `IInv` is `TypeOK`, the shape of the root window
  (`TreeOK`), finiteness of the order set, `SpentWereLeaves`, `OrdersRefundable`
  and `LeavesSpendable`. The last two are needed for the first: without them a
  refund could be negative or a residual's lock too large, and custody could not
  be shown to cover a withdrawal. One lemma per action shows `IInv'` and the
  step of the ledger it maps to; from these follow all invariants of the pool
  and `PoolImplementsLedger`, and `PoolSolvent` from the ledger's own invariant.
* **`PoolMerkleProofs`.** For every depth, length of the history and set of leaves. The
  recursions over levels (the nodes above a leaf, the fold, the layers, the full tree, the
  way down) are members of one family, so one induction shows that each is what its
  equations say (`RecursionExists`); what they compute is then shown level by level. The
  full tree: a node whose leaves are all in never changes (`Stable`), one beyond the last
  leaf is the zero of its level (`EmptyBeyond`), and equal roots have equal leaves, the
  hash being free (`RootsTell`). Any path of the siblings in the full tree folds to its
  root (`FoldsToRoot`), so frontier, proof and sealed witness need only be shown to have
  those siblings: `FrontierOf` says what the frontier must have, which is the left sibling
  where the next leaf is below a right child and nothing elsewhere, since the other
  nodes may be stale. `IInv` is `FrontierOf` of contract and mirror, the two root
  histories as windows of the roots of prefixes (`IsHistory`), and that the last proof
  folds to the root of the prefix it was made from. `MirrorsAgree`, `ProofsAccepted`,
  `WitnessesSealed`, `MembershipIsOfPrefix` and, as a root stands for one prefix only,
  `TreeImplements`: the pool's theorems, which are about the tree of leaves, hold of the
  tree of hashes.
* **`MatcherProofs`.** Three arguments. (1) `CrossingIsProvable`: for any crossing
  pair whose buy has a lock of 64 bits the engine's amounts satisfy the circuit;
  `EngineMirrorsAlways` adds that placed orders have such locks. (2)
  `SettlementIsDelivered`: whatever the amounts and owners of the two orders, the
  outputs of `computeMatch` are delivered; the proof splits on which refunds and
  residuals exist, since that decides the position of each memo.
  `SettlementDeliversAlways` states it of the service. (3) `PassInOrder`: what one
  pass returns for any book. The comparison is a strict total order on one side of
  a pair, so counting who comes first maps its entries one to one onto the places
  (`Ranking`, by the pigeonhole principle) and `Sorted` lists them all
  (`SortedInOrder`); the pairs that cross are the first k and pair k + 1 does not
  (`FirstPairs`), hence nothing that is left over crosses (`PairInOrder`); joining
  the pairs keeps each match once and loses none (`FlattenLists`, with an index
  that says where each element is from). `PriorityAlways` is the action property:
  only `tick` starts a pass. `ClaimsExclusive` is not inductive. `IInv` adds that
  the book has no order and no number twice (`Entered`), that the matches of a
  pass share no order with each other or with an acknowledged settlement
  (`Waiting`), and that an order of an acknowledged settlement is posted and not
  in the book (`Acknowledged`), which is why it is never posted or matched again,
  restarts included; `Amounting` is what `TypeOK` needs for residual orders.
  `MatcherTyped`, `ClaimsAlwaysExclusive`.
* **`WalletIndexerProofs`.** All invariants of the wallet, for any number of ledgers,
  transactions, reloads and failures. None is inductive: what the wallet knows at a
  cursor depends on what every ledger below it put where. `IInv` has, of the chain,
  the shape of transactions (`Built`), that each is applied once (`Once`), and that
  the tree is the leaves of the ledgers in turn with no commitment twice but those
  of deposits (`Laid`); of the wallet, that each cursor covers the leaves beside it
  (`Positions`: why leaves are saved before the cursor), and what is stored or
  found below each cursor: `Payments`, `Matches`, and for deposits `Salts` (those
  stored are of the first salts) and `Counted` (unless a pass was cut short, the
  count of salts is behind every deposit that was read); `Backed` is that stored and
  found notes are where their index says. One lemma per action and part; reading an
  event is the hard one, since the tree may already have the leaves of the event
  from an earlier pass. `WalletTyped`, `TreeAlwaysPrefix`, `NeverAGap`,
  `RecoveredAlways`, `StoreAlwaysBacked`, `IndexAlwaysTrue`, `MatchedNeverOpen`.

* **`ClmmProofs`.** `IInv` is `TypeOK`, the shape of leaves, nullifiers and log (`Shape`),
  `Serial` and `LiquidityBacked`: `Serial` is inductive because each entry of the log
  is below the sequence of its pool, within the root and among the nullifiers,
  which is what the next operation is compared with, and because leaves under a
  root stay there (`LeavesStay`). One lemma per circuit (`MintProvable` and so on) says what every
  proof it accepts publishes: a nullifier of a leaf under the root, among others. `LiquidityBacked`
  rests on what a total does when one value changes (`TotalUpdate`)
  and on the cap of each position. One lemma per action: `TypeCorrect`,
  `PrivateOperationsSerial`, `LiquidityOwned`.
* **`BridgeProofs`.** None of the bridge's invariants is inductive by itself. `IInv` adds
  that the chain is consistent (`ChainOK`: in every state the escrow is what was
  locked and not paid out, a record is never replaced in a later state, and only
  what was bridged out is paid out), that the head of the client is final, that what is
  minted has its record at the final block, and that handlers read blocks that
  were mined. A record is read back as it was written because token and amount
  share a word without overlap (`Unpacked`). One lemma covers every step that mines
  (`MineKeeps`), one every step that records a root (`RecordKeeps`); a reorganisation repeats
  an earlier state of the chain and stays above what is final. `BridgeTyped`,
  `RootsAlwaysFinal`, `MintsAlwaysBacked`, whatever the number of blocks, locks, tokens and
  handlers.

Only model-checked:

* liveness (`PassEnds`, `BestPairProgress`, `Discovered`, `HeadCatchesUp`), which is out of
  the prover's reach; the safety properties of all passing runs are proved;
* the statements that are evaluated (`ASSUME`s of the MC modules), which are over bounded
  inputs and sequences of steps.

## 6. Not modelled

* The faucet token keeps one balance per account. The verifier wraps an external
  crate. The Ethereum decoders (MPT, RLP, SSZ, BLS) and the SDK's encodings, keys,
  Poseidon2 and ciphers are pure functions over bytes without state; the modules
  take their verdict as a predicate, and `Interfaces` what is passed between them.
* Of the relayer, the decoding of beacon and Signal data and the window of 1000
  ledgers of the out feed; of the CLMM, what section 2 names, the placeholder client
  of `sdk/typescript` (its submissions return constants) and the setters.
* Of the wallet, the offline mock SDK, whose balances are numbers of its own, the
  charts, and the pages that only draw; sizes of prices above 1000 in
  `formatPrice`. Several deposits of different assets at once in one chain history.
* Of the matcher, the read-only routes and the HTTP transport.
* Build and deployment scripts.
