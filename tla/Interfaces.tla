----------------------------- MODULE Interfaces -----------------------------
(***************************************************************************)
(* What the clients send to the contracts, and what the contracts take.    *)
(* The arguments of a call go by position and by the type of the host's     *)
(* value; the client's name of an argument means nothing to the contract.   *)
(* A structure is a map from names to values, and its fields go by name.    *)
(* A call is <<contract, method, arguments>>.                               *)
(***************************************************************************)
EXTENDS Naturals, Sequences

-----------------------------------------------------------------------------
(* The contracts                                                           *)

WraithPool ==
    [deposit      |-> <<"Address", "Address", "i128", "Bytes32">>,
     withdraw     |-> <<"Bytes", "Bytes", "Address", "i128", "Address">>,
     transfer     |-> <<"Bytes", "Bytes", "VecBytes">>,
     place_order  |-> <<"Bytes", "Bytes">>,
     match_orders |-> <<"Bytes", "Bytes", "VecBytes", "VecBytes">>,
     cancel_order |-> <<"Bytes", "Bytes">>,
     is_spent     |-> <<"Bytes32">>]

ProofAndPool == <<"Bytes", "Bytes", "u32">>

Clmm ==
    [create_pool         |-> <<"Address", "Address", "u32", "u32", "u128", "Address">>,
     deposit_private     |-> <<"Address", "Address", "u64", "Bytes32">>,
     mint                |-> ProofAndPool,
     burn                |-> ProofAndPool,
     swap                |-> ProofAndPool,
     collect             |-> ProofAndPool,
     mint_public         |-> <<"u32", "Address", "i64", "i64", "u128", "u64", "u64">>,
     burn_public         |-> <<"u32", "Address", "i64", "i64", "u128", "u64", "u64">>,
     claim_protocol_fees |-> <<"u32", "Address">>,
     get_pool            |-> <<"u32">>,
     get_pool_sequence   |-> <<"u32">>,
     get_note_commitment |-> <<"u64", "u32">>,
     get_merkle_tree     |-> <<>>]

MerkleTree == [get_leaf_count |-> <<>>, get_root |-> <<>>, get_leaf |-> <<"u32">>]

FaucetToken ==
    [mint |-> <<"Address", "i128">>, balance |-> <<"Address">>,
     decimals |-> <<>>, symbol |-> <<>>]

LightClient ==
    [update_header |-> <<"LightClientUpdate">>,
     post_root     |-> <<"Address", "u64", "Bytes32">>,
     head          |-> <<>>]

SignalClient ==
    [receive         |-> <<"Bytes", "Bytes288">>,
     prove_execution |-> <<"u64", "BeaconHeader", "ExecutionPayloadHeader", "VecBytes32">>,
     current_state   |-> <<>>,
     beacon_root     |-> <<"u64">>,
     state_root_at   |-> <<"u64">>,
     head            |-> <<>>]

WraithBridge ==
    [bridge_in  |-> <<"u64", "Bytes32", "Bytes20", "i128", "VecBytes", "VecBytes">>,
     is_bridged |-> <<"Bytes32">>]

BeaconHeader ==
    [slot |-> "u64", proposer_index |-> "u64", parent_root |-> "Bytes32",
     state_root |-> "Bytes32", body_root |-> "Bytes32"]

ExecutionPayloadHeader ==
    [parent_hash |-> "Bytes32", fee_recipient |-> "Bytes20", state_root |-> "Bytes32",
     receipts_root |-> "Bytes32", logs_bloom |-> "Bytes", prev_randao |-> "Bytes32",
     block_number |-> "u64", gas_limit |-> "u64", gas_used |-> "u64", timestamp |-> "u64",
     extra_data |-> "Bytes", base_fee_per_gas |-> "Bytes32", block_hash |-> "Bytes32",
     transactions_root |-> "Bytes32", withdrawals_root |-> "Bytes32",
     blob_gas_used |-> "u64", excess_blob_gas |-> "u64"]

LightClientUpdate ==
    [attested_header |-> "BeaconHeader", finalized_header |-> "BeaconHeader",
     finality_branch |-> "VecBytes32", finalized_execution |-> "ExecutionPayloadHeader",
     execution_branch |-> "VecBytes32", sync_committee_bits |-> "Bytes64",
     sync_committee_signature |-> "Bytes192", signature_slot |-> "u64"]

\* The lock contract: functions by selector, events by topic, and both by the
\* types of their arguments; a topic is marked.
WraithBridgeL1 ==
    {<<"function", "lock", <<"bytes32", "address", "uint256">>, <<>>>>,
     <<"function", "unlock", <<"bytes32", "address">>, <<>>>>,
     <<"function", "locks", <<"bytes32">>, <<"address", "uint96">>>>,
     <<"event", "Locked", <<"bytes32 topic", "address", "uint256">>>>,
     <<"event", "Unlocked", <<"bytes32 topic", "address topic", "address", "uint256">>>>}

-----------------------------------------------------------------------------
(* The clients                                                             *)

\* WraithContract of the SDK.  A field is always 32 bytes.
WraithContract ==
    {<<"pool", "deposit", <<"Address", "Address", "i128", "Bytes32">>>>,
     <<"pool", "withdraw", <<"Bytes", "Bytes", "Address", "i128", "Address">>>>,
     <<"pool", "transfer", <<"Bytes", "Bytes", "VecBytes">>>>,
     <<"pool", "place_order", <<"Bytes", "Bytes">>>>,
     <<"pool", "match_orders", <<"Bytes", "Bytes", "VecBytes", "VecBytes">>>>,
     <<"pool", "cancel_order", <<"Bytes", "Bytes">>>>}

\* ClmmClient of the CLMM front end: the calls that change the contract,
shieldedOp(operation) == <<"clmm", operation, <<"Bytes", "Bytes", "u32">>>>

ClmmWrites ==
    {shieldedOp("mint"), shieldedOp("swap"), shieldedOp("collect"), shieldedOp("burn"),
     <<"clmm", "create_pool", <<"Address", "Address", "u32", "u32", "u128", "Address">>>>,
     <<"clmm", "mint_public", <<"u32", "Address", "i64", "i64", "u128", "u64", "u64">>>>,
     <<"clmm", "burn_public", <<"u32", "Address", "i64", "i64", "u128", "u64", "u64">>>>,
     <<"clmm", "claim_protocol_fees", <<"u32", "Address">>>>,
     <<"clmm", "deposit_private", <<"Address", "Address", "u64", "Bytes">>>>}

\* and those that are simulated, or go to the other two contracts.
ClmmReads ==
    {<<"clmm", "get_pool", <<"u32">>>>, <<"clmm", "get_pool_sequence", <<"u32">>>>,
     <<"clmm", "get_note_commitment", <<"u64", "u32">>>>, <<"clmm", "get_merkle_tree", <<>>>>,
     <<"merkleTree", "get_leaf_count", <<>>>>, <<"merkleTree", "get_root", <<>>>>,
     <<"merkleTree", "get_leaf", <<"u32">>>>, <<"faucet", "mint", <<"Address", "i128">>>>,
     <<"faucet", "balance", <<"Address">>>>}

\* The relayer's submitters, and their views.
LightClientSubmitter ==
    {<<"lightClient", "update_header", <<"LightClientUpdate">>>>,
     <<"lightClient", "post_root", <<"Address", "u64", "Bytes">>>>}

LightClientViews == {<<"lightClient", "head", <<>>>>}

SignalClientSubmitter ==
    {<<"signalClient", "receive", <<"Bytes", "Bytes">>>>,
     <<"signalClient", "prove_execution",
       <<"u64", "BeaconHeader", "ExecutionPayloadHeader", "VecBytes">>>>}

SignalClientViews ==
    {<<"signalClient", "current_state", <<>>>>, <<"signalClient", "beacon_root", <<"u64">>>>,
     <<"signalClient", "state_root_at", <<"u64">>>>, <<"signalClient", "head", <<>>>>}

bridgeInOp ==
    <<"bridge", "bridge_in", <<"u64", "Bytes", "Bytes", "i128", "VecBytes", "VecBytes">>>>

\* What the wallet's pages read, and the faucet's button.
readLightClientHead == <<"lightClient", "head", <<>>>>
readIsBridged == <<"bridge", "is_bridged", <<"Bytes">>>>
readIsSpent == <<"pool", "is_spent", <<"Bytes32">>>>
readTokenMetadata == {<<"faucet", "decimals", <<>>>>, <<"faucet", "symbol", <<>>>>}
faucetMint == <<"faucet", "mint", <<"Address", "i128">>>>

\* The relayer's encoders of the structures: the type of each field, and the
\* field of its own record that it is taken from.
encodeBeaconHeader ==
    [slot |-> <<"u64", "slot">>, proposer_index |-> <<"u64", "proposerIndex">>,
     parent_root |-> <<"Bytes", "parentRoot">>, state_root |-> <<"Bytes", "stateRoot">>,
     body_root |-> <<"Bytes", "bodyRoot">>]

encodeExecutionPayloadHeader ==
    [parent_hash |-> <<"Bytes", "parentHash">>,
     fee_recipient |-> <<"Bytes", "feeRecipient">>,
     state_root |-> <<"Bytes", "stateRoot">>,
     receipts_root |-> <<"Bytes", "receiptsRoot">>,
     logs_bloom |-> <<"Bytes", "logsBloom">>, prev_randao |-> <<"Bytes", "prevRandao">>,
     block_number |-> <<"u64", "blockNumber">>, gas_limit |-> <<"u64", "gasLimit">>,
     gas_used |-> <<"u64", "gasUsed">>, timestamp |-> <<"u64", "timestamp">>,
     extra_data |-> <<"Bytes", "extraData">>,
     base_fee_per_gas |-> <<"Bytes", "baseFeePerGas">>,
     block_hash |-> <<"Bytes", "blockHash">>,
     transactions_root |-> <<"Bytes", "transactionsRoot">>,
     withdrawals_root |-> <<"Bytes", "withdrawalsRoot">>,
     blob_gas_used |-> <<"u64", "blobGasUsed">>,
     excess_blob_gas |-> <<"u64", "excessBlobGas">>]

encodeLightClientUpdate ==
    [attested_header |-> <<"BeaconHeader", "attestedHeader">>,
     finalized_header |-> <<"BeaconHeader", "finalizedHeader">>,
     finality_branch |-> <<"VecBytes", "finalityBranch">>,
     finalized_execution |-> <<"ExecutionPayloadHeader", "finalizedExecution">>,
     execution_branch |-> <<"VecBytes", "executionBranch">>,
     sync_committee_bits |-> <<"Bytes", "syncCommitteeBits">>,
     sync_committee_signature |-> <<"Bytes", "syncCommitteeSignature">>,
     signature_slot |-> <<"u64", "signatureSlot">>]

\* Where that record has it from: the fields of the beacon's answer.
assembleHeader ==
    [slot |-> "slot", proposerIndex |-> "proposer_index", parentRoot |-> "parent_root",
     stateRoot |-> "state_root", bodyRoot |-> "body_root"]

assembleExecution ==
    [parentHash |-> "parent_hash", feeRecipient |-> "fee_recipient",
     stateRoot |-> "state_root", receiptsRoot |-> "receipts_root",
     logsBloom |-> "logs_bloom", prevRandao |-> "prev_randao",
     blockNumber |-> "block_number", gasLimit |-> "gas_limit", gasUsed |-> "gas_used",
     timestamp |-> "timestamp", extraData |-> "extra_data",
     baseFeePerGas |-> "base_fee_per_gas", blockHash |-> "block_hash",
     transactionsRoot |-> "transactions_root", withdrawalsRoot |-> "withdrawals_root",
     blobGasUsed |-> "blob_gas_used", excessBlobGas |-> "excess_blob_gas"]

assembleLightClientUpdate ==
    [attestedHeader |-> "attested_header.beacon",
     finalizedHeader |-> "finalized_header.beacon", finalityBranch |-> "finality_branch",
     finalizedExecution |-> "finalized_header.execution",
     executionBranch |-> "finalized_header.execution_branch",
     syncCommitteeBits |-> "sync_aggregate.sync_committee_bits",
     syncCommitteeSignature |-> "sync_aggregate.sync_committee_signature",
     signatureSlot |-> "signature_slot"]

\* What the wallet and the relayer each know of the lock contract.
WalletAbi ==
    {<<"function", "lock", <<"bytes32", "address", "uint256">>, <<>>>>,
     <<"function", "locks", <<"bytes32">>, <<"address", "uint96">>>>,
     <<"event", "Locked", <<"bytes32 topic", "address", "uint256">>>>}

RelayerAbi ==
    {<<"function", "unlock", <<"bytes32", "address">>, <<>>>>,
     <<"function", "locks", <<"bytes32">>, <<"address", "uint96">>>>,
     <<"event", "Locked", <<"bytes32 topic", "address", "uint256">>>>,
     <<"event", "Unlocked", <<"bytes32 topic", "address topic", "address", "uint256">>>>}

-----------------------------------------------------------------------------
(***************************************************************************)
(* Whether the clients and the contracts agree on the calls between them:  *)
(* the transactions are built by hand, and no test of a client has a       *)
(* contract at the other end.  MCBridge assumes the statements.            *)
(***************************************************************************)

Contracts ==
    [pool |-> WraithPool, clmm |-> Clmm, merkleTree |-> MerkleTree, faucet |-> FaucetToken,
     lightClient |-> LightClient, signalClient |-> SignalClient, bridge |-> WraithBridge]

Calls ==
    WraithContract \cup ClmmWrites \cup ClmmReads \cup LightClientSubmitter \cup LightClientViews
    \cup SignalClientSubmitter \cup SignalClientViews \cup readTokenMetadata
    \cup {bridgeInOp, readLightClientHead, readIsBridged, readIsSpent, faucetMint}

Sized == {"Bytes20", "Bytes32", "Bytes64", "Bytes192", "Bytes288"}

\* The host takes bytes for an array of bytes if they have its length.
Fits(sent, taken) ==
    \/ sent = taken
    \/ sent = "Bytes" /\ taken \in Sized
    \/ sent \in Sized /\ taken = "Bytes"
    \/ sent = "VecBytes" /\ taken = "VecBytes32"

Taken(call) == Contracts[call[1]][call[2]]

\* Every call of a client has a method of that name, with as many parameters,
\* and each argument fits.
CallsFit ==
    \A call \in Calls :
        /\ call[2] \in DOMAIN Contracts[call[1]]
        /\ Len(call[3]) = Len(Taken(call))
        /\ \A i \in DOMAIN call[3] : Fits(call[3][i], Taken(call)[i])

\* The map of a structure has its fields and no other, and each one fits.
StructuresFit ==
    \A pair \in {<<encodeBeaconHeader, BeaconHeader>>,
                 <<encodeExecutionPayloadHeader, ExecutionPayloadHeader>>,
                 <<encodeLightClientUpdate, LightClientUpdate>>} :
        /\ DOMAIN pair[1] = DOMAIN pair[2]
        /\ \A field \in DOMAIN pair[1] : Fits(pair[1][field][1], pair[2][field])

\* What a contract reads under a name is what the beacon's answer has under it,
\* two renamings later.
FieldsKeepTheirNames ==
    LET Source(encoded, assembled) ==
            [field \in DOMAIN encoded |-> assembled[encoded[field][2]]]
    IN  /\ \A pair \in {<<encodeBeaconHeader, assembleHeader>>,
                        <<encodeExecutionPayloadHeader, assembleExecution>>} :
              \A field \in DOMAIN pair[1] : Source(pair[1], pair[2])[field] = field
        /\ Source(encodeLightClientUpdate, assembleLightClientUpdate) =
              [attested_header |-> "attested_header.beacon",
               finalized_header |-> "finalized_header.beacon",
               finality_branch |-> "finality_branch",
               finalized_execution |-> "finalized_header.execution",
               execution_branch |-> "finalized_header.execution_branch",
               sync_committee_bits |-> "sync_aggregate.sync_committee_bits",
               sync_committee_signature |-> "sync_aggregate.sync_committee_signature",
               signature_slot |-> "signature_slot"]

\* The arguments whose length only the data can be right about: a client that
\* is handed anything else builds a call that the host refuses.
LengthsRestOnTheData ==
    UNION {{<<call[2], i>> : i \in {j \in DOMAIN call[3] :
                call[3][j] = "Bytes" /\ Taken(call)[j] \in Sized}} : call \in Calls}
    = {<<"deposit_private", 4>>, <<"post_root", 3>>, <<"receive", 2>>, <<"bridge_in", 2>>,
       <<"bridge_in", 3>>, <<"is_bridged", 1>>}

\* The two sides of the bridge know the lock contract alike.
AbisAgree == WalletAbi \subseteq WraithBridgeL1 /\ RelayerAbi \subseteq WraithBridgeL1
=============================================================================
