--------------------------- MODULE EthLightClient ---------------------------
(***************************************************************************)
(* contracts/eth-light-client: finality updates signed by the one sync     *)
(* committee that the client was seeded with.                              *)
(***************************************************************************)
EXTENDS StateRoots

CONSTANTS
    SLOTS_PER_PERIOD,
    COMMITTEE_SIZE,
    SeedPeriod,         \* the period whose committee the constructor got
    Unset

\* One signer is no two thirds of the committee, which has 512 members.
ASSUME CommitteeAssumption == COMMITTEE_SIZE \in Nat /\ COMMITTEE_SIZE > 1

VARIABLE committeePeriod    \* DataKey::CommitteePeriod

Period(slot) == slot \div SLOTS_PER_PERIOD

Signed_AnyCommittee(u) == TRUE

\* The BLS signature verifies against the seeded committee's keys only; what
\* the two Merkle branches prove is what the signers attested.
Signed(u) == Period(u.signature_slot) = SeedPeriod

TwoThirds_AnySigner(signers) == signers > 0

TwoThirds(signers) == signers * 3 >= COMMITTEE_SIZE * 2

SlotOrder_Strict(u) ==
    u.signature_slot > u.attested_slot /\ u.attested_slot > u.finalized_slot

SlotOrder(u) ==
    u.signature_slot > u.attested_slot /\ u.attested_slot >= u.finalized_slot

CommitteeInit == committeePeriod = Unset

update_header(u) ==
    /\ SlotOrder(u)
    /\ committeePeriod \in {Unset, Period(u.signature_slot)}
    /\ TwoThirds(u.signers)
    /\ Signed(u)
    /\ committeePeriod' = Period(u.signature_slot)
    /\ record_root(u.finalized_slot, u.state)
=============================================================================
