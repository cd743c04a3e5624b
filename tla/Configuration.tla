---------------------------- MODULE Configuration ----------------------------
(***************************************************************************)
(* What the parts make of their settings: the wallet of its VITE_*         *)
(* variables (frontend config.ts), the relayer of its environment          *)
(* (relayer config.ts), and which modes and loops follow.  MatchService    *)
(* has the same of the matching service.  A setting that is missing is     *)
(* Unset, one of spaces only is Blank.                                     *)
(***************************************************************************)
EXTENDS Integers, FiniteSets

Unset == "unset"
Blank == " "

-----------------------------------------------------------------------------
(* The wallet                                                              *)

env(v, fallback) == IF v \in {Unset, ""} THEN fallback ELSE v
flag(v) == v \in {"true", "1"}

ZERO_ADDRESS == "0x0"
NATIVE_ASSET_ID == <<0>>
MatchMemoPool == "wraithPoolMatchMemo"     \* its name in deployments.json

\* A variable X is VITE_X.
walletConfig(vars) ==
    LET mock == flag(vars.USE_MOCK) IN
    [POOL_CONTRACT_ID |-> env(vars.WRAITH_POOL, MatchMemoPool),
     USE_MOCK |-> mock,
     USE_MOCK_BRIDGE |-> mock \/ flag(vars.USE_MOCK_BRIDGE),
     MATCHER_URL |-> env(vars.MATCHER_URL, ""),
     USDC_SAC |-> env(vars.USDC_SAC, ""),
     L1_BRIDGE_ADDRESS |-> env(vars.L1_BRIDGE_ADDRESS, ZERO_ADDRESS),
     ETH_LIGHT_CLIENT_ID |-> env(vars.ETH_LIGHT_CLIENT, ""),
     WRAITH_BRIDGE_ID |-> env(vars.WRAITH_BRIDGE, ""),
     USDC_L1_ADDRESS |-> env(vars.BRIDGE_USDC_L1, "usdc")]

createWraithSdk(vars) == IF vars.USE_MOCK = "true" THEN "mock" ELSE "live"

deriveBridgedAssetId(token) == <<"hash2", <<"hash2", "L1_CHAIN_ID", token>>, "BRIDGE_DOMAIN">>

assetFromSac(sac) == <<"asset_id", sac>>

ASSET_CONFIG(c) ==
    [XLM |-> NATIVE_ASSET_ID,
     USDC |-> IF c.USDC_SAC = "" THEN <<0>> ELSE assetFromSac(c.USDC_SAC),
     bETH |-> deriveBridgedAssetId(ZERO_ADDRESS),
     bUSDC |-> deriveBridgedAssetId(c.USDC_L1_ADDRESS)]

\* The token lists have a token of their own under that code.
curatedUsdc(vars) == assetFromSac(env(vars.USDC_SAC, "faucet"))

matchingEnabled(c) == c.MATCHER_URL # ""
showOperator(c) == ~c.USE_MOCK /\ ~matchingEnabled(c)

l1Configured(c) == c.L1_BRIDGE_ADDRESS # ZERO_ADDRESS
BRIDGE_CONFIGURED(c) ==
    l1Configured(c) /\ c.ETH_LIGHT_CLIENT_ID # "" /\ c.WRAITH_BRIDGE_ID # ""
simulated(c) == c.USE_MOCK_BRIDGE \/ c.ETH_LIGHT_CLIENT_ID = ""

\* The button for a deposit from Ethereum, with the wallets connected.
offersDeposit(c) == c.USE_MOCK_BRIDGE \/ BRIDGE_CONFIGURED(c)

-----------------------------------------------------------------------------
(* The bridge's flows by mode.  A store is the notes that the wallet keeps, *)
(* the notes that the pools have and those that they have spent.           *)

\* createBridgeNote, and addNote without an index.
creditBridgeNote(c, s, note) ==
    IF c.USE_MOCK THEN s                   \* sdk.deposit: the mock's balances
    ELSE [s EXCEPT !.kept = @ \cup {[note |-> note, spent |-> FALSE, indexed |-> FALSE]}]

\* In the preview nothing is locked; live it is, and the relayer has it minted
\* into the pool of the bridge.
runEthIn(c, s, note, bridge_pool) ==
    IF c.USE_MOCK_BRIDGE THEN {creditBridgeNote(c, s, note)}
    ELSE IF ~l1Configured(c) THEN {}       \* lockOnL1 throws
    ELSE {creditBridgeNote(c, [s EXCEPT !.minted = @ \cup {<<bridge_pool, note>>}], note)}

\* The indexer reads one pool and finds the index of a note that is kept.
index(c, s) ==
    [s EXCEPT !.kept = {[k EXCEPT !.indexed = @ \/ <<c.POOL_CONTRACT_ID, k.note>> \in s.minted]
                          : k \in s.kept}]

withdrawable(s) == {k.note : k \in {k \in s.kept : k.indexed /\ ~k.spent}}
balance(s) == {k.note : k \in {k \in s.kept : ~k.spent}}

\* Towards Ethereum there is the preview alone.
runEthOut(c, s, note) ==
    IF ~c.USE_MOCK_BRIDGE \/ note \notin withdrawable(s) THEN {}
    ELSE IF c.USE_MOCK THEN {s}            \* sdk.withdraw
    ELSE {[s EXCEPT !.kept = {IF k.note = note THEN [k EXCEPT !.spent = TRUE] ELSE k
                                : k \in @}]}

-----------------------------------------------------------------------------
(* The relayer                                                             *)

Settings == {"SEPOLIA_EXEC_RPC", "SEPOLIA_BEACON_API", "STELLAR_RPC", "LIGHT_CLIENT_CONTRACT",
             "WRAITH_BRIDGE_CONTRACT", "BRIDGE_L1_ADDRESS", "STELLAR_SIGNER_SECRET",
             "GOVERNOR_PRIVATE_KEY"}

\* What loadConfig keeps: clean() drops spaces, and what is empty then.
loadConfig(vars) == {name \in Settings : vars[name] \notin {Unset, "", Blank}}

\* The loops that watch starts.
watch(cfg) ==
    {loop \in {"header", "inclusion", "out"} :
        CASE loop = "header" ->
               {"SEPOLIA_BEACON_API", "LIGHT_CLIENT_CONTRACT", "STELLAR_RPC",
                "STELLAR_SIGNER_SECRET"} \subseteq cfg
          [] loop = "inclusion" ->
               {"SEPOLIA_EXEC_RPC", "BRIDGE_L1_ADDRESS", "WRAITH_BRIDGE_CONTRACT", "STELLAR_RPC",
                "STELLAR_SIGNER_SECRET"} \subseteq cfg
          [] loop = "out" ->
               {"STELLAR_RPC", "WRAITH_BRIDGE_CONTRACT", "BRIDGE_L1_ADDRESS", "SEPOLIA_EXEC_RPC",
                "GOVERNOR_PRIVATE_KEY"} \subseteq cfg}

\* The block that the inclusion loop proves a lock at: the head of the light
\* client, or without one that of the lock itself.
ProvenAt(cfg, locked, head) == IF "LIGHT_CLIENT_CONTRACT" \in cfg THEN head ELSE locked

\* relay-in, without --block: where it ends.  require_ throws.
relayIn(cfg, block_given, submit) ==
    IF ~ {"SEPOLIA_EXEC_RPC", "BRIDGE_L1_ADDRESS"} \subseteq cfg THEN "throws"
    ELSE IF ~block_given
            /\ ~ {"LIGHT_CLIENT_CONTRACT", "STELLAR_RPC", "STELLAR_SIGNER_SECRET"} \subseteq cfg
    THEN "no block"
    ELSE IF "WRAITH_BRIDGE_CONTRACT" \notin cfg \/ ~submit \/ "STELLAR_SIGNER_SECRET" \notin cfg
    THEN "dry run"
    ELSE IF "STELLAR_RPC" \notin cfg THEN "throws"    \* stellarSubmitOpts
    ELSE "submitted"

-----------------------------------------------------------------------------
(***************************************************************************)
(* Which settings of the parts work together, over every value that makes  *)
(* a difference.  MCPoolMerkle assumes the statements.                     *)
(***************************************************************************)

Service == INSTANCE MatchService
    WITH PRICE_SCALE <- 2, U64 <- 8, FIELD <- 97, MAX_SAFE_INTEGER <- 4

Defaults ==
    [WRAITH_POOL |-> Unset, USE_MOCK |-> Unset, USE_MOCK_BRIDGE |-> Unset, MATCHER_URL |-> Unset,
     USDC_SAC |-> Unset, L1_BRIDGE_ADDRESS |-> Unset, ETH_LIGHT_CLIENT |-> Unset,
     WRAITH_BRIDGE |-> Unset, BRIDGE_USDC_L1 |-> Unset]

Flags == {Unset, "", "0", "1", "true", "false"}
BridgePool == "wraithPoolBridgeEnabled"    \* of the bridge in deployments.json

\* The pool that the service settles in, with the deployment file at hand.
MatcherPool(v) ==
    Service!resolveContractId([WRAITH_POOL_CONTRACT |-> v],
        [wraithPoolMatchMemo |-> MatchMemoPool, wraithPoolMemo |-> "wraithPoolMemo",
         wraithPool |-> "wraithPool"])
WalletPool(v) == walletConfig([Defaults EXCEPT !.WRAITH_POOL = v]).POOL_CONTRACT_ID

\* The same setting on both sides is the same pool, except the empty one: the
\* wallet takes it for none, and the service for a pool that there is not.  A
\* setting on one side only is never noticed.
SameSettingSamePool ==
    \A v \in {Unset, "", MatchMemoPool, BridgePool} :
        /\ MatcherPool(v) = {WalletPool(v)} <=> v # ""
        /\ v \notin {Unset, "", MatchMemoPool} => MatcherPool(Unset) # {WalletPool(v)}

\* One page, one mode: but config.ts also takes 1 for true, and createWraithSdk
\* does not.  With 1 the identity is the mock's and the SDK the live one.
HalfAMock ==
    \A v \in Flags :
        LET vars == [Defaults EXCEPT !.USE_MOCK = v]
        IN  (createWraithSdk(vars) = "mock" <=> walletConfig(vars).USE_MOCK) <=> v # "1"

Wallets ==
    {walletConfig([Defaults EXCEPT !.WRAITH_POOL = pool, !.USE_MOCK = mock,
                                   !.USE_MOCK_BRIDGE = preview, !.L1_BRIDGE_ADDRESS = l1,
                                   !.ETH_LIGHT_CLIENT = lc, !.WRAITH_BRIDGE = bridge])
        : pool \in {Unset, BridgePool}, mock \in {Unset, "true"}, preview \in {Unset, "1"},
          l1 \in {Unset, "l1"}, lc \in {Unset, "lc"}, bridge \in {Unset, "bridge"}}

NoNotes == [kept |-> {}, minted |-> {}]
Deposited(c, s) == {index(c, t) : t \in runEthIn(c, s, "n", BridgePool)}

\* A page that offers a real deposit shows the light client's own head.  What is
\* locked through a bridge can be spent by the wallet if it reads the pool of
\* that bridge, which is neither its default pool nor the matching service's: no
\* setting of the pool has both.
BridgedElsewhere ==
    \A c \in Wallets : offersDeposit(c) /\ ~c.USE_MOCK_BRIDGE =>
        /\ ~simulated(c)
        /\ \A s \in Deposited(c, NoNotes) :
              /\ balance(s) = {"n"}
              /\ withdrawable(s) = {"n"} <=> c.POOL_CONTRACT_ID = BridgePool
              /\ withdrawable(s) = {"n"} => MatcherPool(Unset) # {c.POOL_CONTRACT_ID}

\* Without the mock SDK the preview of the bridge works on the store of the real
\* wallet: money that nobody locked is in its balance, and a real note that goes
\* through the preview of a withdrawal is spent for the wallet alone.
PreviewIsNotAlone ==
    \A c \in Wallets : c.USE_MOCK_BRIDGE =>
        LET real == [kept |-> {[note |-> "r", spent |-> FALSE, indexed |-> TRUE]},
                     minted |-> {<<c.POOL_CONTRACT_ID, "r">>}]
        IN  /\ \A s \in Deposited(c, real) :
                  /\ s.minted = real.minted
                  /\ withdrawable(s) = {"r"}
                  /\ balance(s) = {"r"} <=> c.USE_MOCK
            /\ \A s \in runEthOut(c, real, "r") : balance(s) = {"r"} <=> c.USE_MOCK
            /\ runEthOut(c, real, "r") # {}

\* Two assets of the wallet have one id in two cases: USDC has the id of XLM
\* until its contract is set (the token lists have another one), and the two
\* bridged assets share theirs if the token's address is set to that of ETH.
IdsDiffer ==
    \A usdc \in {Unset, "", "sac"}, l1 \in {Unset, "", "token", ZERO_ADDRESS} :
        LET vars == [Defaults EXCEPT !.USDC_SAC = usdc, !.BRIDGE_USDC_L1 = l1]
            ids == ASSET_CONFIG(walletConfig(vars))
        IN  /\ Cardinality({ids[code] : code \in DOMAIN ids}) = 4
                  <=> usdc = "sac" /\ l1 # ZERO_ADDRESS
            /\ curatedUsdc(vars) = ids.USDC <=> usdc = "sac"

-----------------------------------------------------------------------------
Relayers == SUBSET Settings
Kept(names) == loadConfig([n \in Settings |-> IF n \in names THEN "value" ELSE Blank])

\* Every loop needs the Stellar RPC, and the two that submit a signer.  No loop
\* is left without what its handler asks for; but the inclusion loop runs
\* without the header loop, and then proves at a head that nobody moves, or at
\* the block of the lock itself, whatever the light client has recorded.
LoopsStandAlone ==
    /\ \A names \in Relayers :
          LET cfg == Kept(names) IN
          /\ cfg = names
          /\ watch(cfg) # {} => "STELLAR_RPC" \in cfg
          /\ watch(cfg) \cap {"header", "inclusion"} # {} => "STELLAR_SIGNER_SECRET" \in cfg
    /\ \E names \in Relayers :
          /\ watch(Kept(names)) = {"inclusion"}
          /\ ProvenAt(Kept(names), 2, 1) = 1
    /\ \E names \in Relayers :
          /\ watch(Kept(names)) = {"inclusion"}
          /\ ProvenAt(Kept(names), 2, 1) = 2
    /\ \A names \in Relayers : Cardinality(watch(Kept(names))) = 3 <=> names = Settings

\* relay-in submits if it is told to and has its signer, its bridge and both
\* RPCs; told without the Stellar RPC, it throws after the proof was made.
RelayInSubmits ==
    \A names \in Relayers, block_given, submit \in BOOLEAN :
        relayIn(Kept(names), block_given, submit) = "submitted"
            <=> /\ submit
                /\ Settings \ {"SEPOLIA_BEACON_API", "GOVERNOR_PRIVATE_KEY",
                               "LIGHT_CLIENT_CONTRACT"} \subseteq names
                /\ block_given \/ "LIGHT_CLIENT_CONTRACT" \in names
=============================================================================
