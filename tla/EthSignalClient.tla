-------------------------- MODULE EthSignalClient ---------------------------
(***************************************************************************)
(* contracts/eth-signal-client: proofs of single steps of Ethereum's       *)
(* finality, chained one to the next, and execution payloads proved        *)
(* against the finalized blocks.  A consensus state is its finalized       *)
(* checkpoint, and an epoch is one slot.                                   *)
(***************************************************************************)
EXTENDS StateRoots

CONSTANT MAX_EPOCH_GAP

VARIABLES
    currentState,       \* DataKey::CurrentState
    beaconRoot          \* the slots that have a DataKey::BeaconRoot

signalVars == <<currentState, beaconRoot>>

ConsensusStates == [finalized : 0 .. MaxBlock]

SignalInit ==
    /\ currentState = [finalized |-> 0]
    /\ beaconRoot = {}

Successor(pre, post) ==
    /\ pre = currentState
    /\ post.finalized - pre.finalized \in 0 .. MAX_EPOCH_GAP

\* A verified journal: adopt its post state, remember the finalized block.
receive(pre, post) ==
    /\ Successor(pre, post)
    /\ currentState' = post
    /\ beaconRoot' = beaconRoot \cup {post.finalized}
    /\ UNCHANGED rootVars

\* The payload of a finalized block: its header hashes to the stored root.
prove_execution(slot, state) ==
    /\ slot \in beaconRoot
    /\ record_root(slot, state)
    /\ UNCHANGED signalVars
=============================================================================
