------------------------------- MODULE Bridge -------------------------------
(***************************************************************************)
(* The bridge from Ethereum to the pool: the lock contract on L1           *)
(* (WraithBridgeL1.sol), an Ethereum that mines, reorganises and           *)
(* finalizes, the client on Stellar that follows it (the light client or   *)
(* the signal client), the bridge contract (wraith-bridge) that mints      *)
(* against proved locks, and the relayer's watcher, whose handlers         *)
(* interleave with all of it.                                              *)
(*                                                                         *)
(* l1[b] is the state after block b.  Blocks up to `finalized` never       *)
(* change.  A commitment names one note, and its nullifier.                *)
(***************************************************************************)
EXTENDS EthLightClient, EthSignalClient, Tally, Sequences

CONSTANTS
    Commitments,
    Tokens,         \* numbers below TOKEN_SPACE, 0 is native ETH
    LockAmounts,    \* what users lock
    TOKEN_SPACE,    \* 2^160: what an address fits into
    UINT96,         \* 2^96 - 1
    MaxHandlers     \* bound: Locked handlers under way at once

VARIABLES
    l1,             \* Ethereum's states, block by block
    finalized,      \* its last finalized block
    client,         \* which client the bridge was constructed with
    bridged,        \* DataKey::Bridged of the bridge
    minted,         \* the bridge's notes in the pool, in order
    nullifiers,     \* DataKey::Nullifier of the bridge
    handlers        \* the relayer's Locked handlers and their transactions

ethereum == <<l1, finalized>>
contractVars == <<bridged, minted, nullifiers>>
clientVars == <<rootVars, committeePeriod, signalVars>>
vars == <<ethereum, clientVars, client, contractVars, handlers>>

-----------------------------------------------------------------------------
(* The lock contract                                                       *)

NoLock == 0         \* the storage word of a commitment without a record

\* LockRecord {address token; uint96 amount} packs into one word, the token in
\* the low bits; a larger amount would be cut.
Pack(token, amount) == (amount % (UINT96 + 1)) * TOKEN_SPACE + token

\* decode_lock_value, and the contract's own reading of the record.
TokenOf(word) == word % TOKEN_SPACE
AmountOf(word) == word \div TOKEN_SPACE

Genesis == [locks |-> [c \in Commitments |-> NoLock], spentOnL2 |-> {},
            escrow |-> [t \in Tokens |-> 0]]

Words == 0 .. (UINT96 + 1) * TOKEN_SPACE
States == [locks : [Commitments -> Words], spentOnL2 : SUBSET Commitments,
           escrow : [Tokens -> Nat]]

\* Token addresses fit their part of the word; no root is the root of no state.
ASSUME BridgeAssumption ==
    /\ IsFiniteSet(Commitments)
    /\ UINT96 \in Nat /\ TOKEN_SPACE \in Nat \ {0} /\ Tokens \subseteq 0 .. TOKEN_SPACE - 1
    /\ LockAmounts \subseteq Nat
    /\ NoRoot \notin States

head == Len(l1)
L1(b) == IF b = 0 THEN Genesis ELSE l1[b]

Lockable_AnyAmount(s, c, amount) == AmountOf(s.locks[c]) = 0 /\ amount # 0

Lockable(s, c, amount) ==
    AmountOf(s.locks[c]) = 0 /\ amount # 0 /\ amount <= UINT96

AfterLock(s, c, token, amount) ==
    [s EXCEPT !.locks[c] = Pack(token, amount), !.escrow[token] = @ + amount]

Unlockable(s, c) == c \notin s.spentOnL2 /\ AmountOf(s.locks[c]) # 0

AfterUnlock(s, c) ==
    [s EXCEPT !.spentOnL2 = @ \cup {c},
              !.escrow[TokenOf(s.locks[c])] = @ - AmountOf(s.locks[c])]

-----------------------------------------------------------------------------
(* Ethereum                                                                *)

mine(state) ==
    /\ head < MaxBlock
    /\ l1' = Append(l1, state)
    /\ UNCHANGED <<finalized, clientVars, client, contractVars>>

empty == mine(L1(head)) /\ UNCHANGED handlers

\* What the handler of a Locked log starts from.
parseLockedLog(c, token, amount, block) ==
    [pc |-> "locked", c |-> c, token |-> token, amount |-> amount,
     block |-> block, state |-> Genesis]

\* The watcher may be running when the log arrives, long before finality; what
\* it missed it never asks for.
watchLocked(event) ==
    \E running \in {FALSE, Cardinality(handlers) < MaxHandlers} :
        handlers' = IF running THEN handlers \cup {event} ELSE handlers

lock(c, token, amount) ==
    /\ Lockable(L1(head), c, amount)
    /\ mine(AfterLock(L1(head), c, token, amount))
    /\ watchLocked(parseLockedLog(c, token, amount, head + 1))

\* The governor settles a note that was bridged out, by hand.
unlock(c) ==
    /\ c \in nullifiers
    /\ Unlockable(L1(head), c)
    /\ mine(AfterUnlock(L1(head), c))
    /\ UNCHANGED handlers

\* The transactions of the blocks above b are dropped.
reorganise(b) ==
    /\ l1' = [i \in 1 .. head |-> IF i <= b THEN l1[i] ELSE L1(b)]
    /\ UNCHANGED <<finalized, clientVars, client, contractVars, handlers>>

finalize(b) ==
    /\ finalized' = b
    /\ UNCHANGED <<l1, clientVars, client, contractVars, handlers>>

-----------------------------------------------------------------------------
(* The clients follow                                                      *)

\* A finality update, with the execution payload of its finalized header.
assembleLightClientUpdate(f, attested, signature, signers) ==
    [finalized_slot |-> f, attested_slot |-> attested, signature_slot |-> signature,
     signers |-> signers, state |-> L1(f)]

\* What sync committees sign: two thirds of one attest only what is final, a
\* few members any block that was there.
Updates ==
    LET Below(limit, signers) ==
          {assembleLightClientUpdate(f, a, s, signers) :
              f \in 1 .. limit, a \in {head - 2, head - 1}, s \in 1 .. head}
    IN Below(finalized, COMMITTEE_SIZE) \cup Below(head, 1)

\* What the beacon API serves: the latest, signed by the whole committee.
fetchFinalityUpdate ==
    assembleLightClientUpdate(finalized, head - 1, head, COMMITTEE_SIZE)

client_update(u) ==
    /\ client = "light"
    /\ update_header(u)
    /\ UNCHANGED <<ethereum, signalVars, client, contractVars, handlers>>

\* The header loop of `watch`.
tick == finalized > 0 /\ client_update(fetchFinalityUpdate)

submitPostRoot(u) ==
    /\ record_root(u.finalized_slot, u.state)
    /\ UNCHANGED <<ethereum, committeePeriod, signalVars, client, contractVars, handlers>>

\* The command: the update itself, or its root posted with the admin's key.
relayHeader ==
    /\ finalized > 0
    /\ client_update(fetchFinalityUpdate) \/ submitPostRoot(fetchFinalityUpdate)

\* Journals are proved for steps between consensus states of the final chain.
Journals == [pre : ConsensusStates, post : ConsensusStates]

relaySignal(journal) ==
    /\ client = "signal"
    /\ journal.post.finalized \in 1 .. finalized
    /\ receive(journal.pre, journal.post)
    /\ UNCHANGED <<ethereum, committeePeriod, client, contractVars, handlers>>

client_prove(slot) ==
    /\ client = "signal"
    /\ prove_execution(slot, L1(slot))
    /\ UNCHANGED <<ethereum, committeePeriod, client, contractVars, handlers>>

-----------------------------------------------------------------------------
(* The bridge contract                                                     *)

\* The storage proof: the root of the block is known, is the root of the state
\* the proof was made from, and that state has a record that says so.
Proved(block, state, c, token, amount) ==
    /\ block \in Blocks
    /\ root[block] # NoRoot /\ state = root[block]
    /\ state.locks[c] # NoLock
    /\ TokenOf(state.locks[c]) = token
    /\ AmountOf(state.locks[c]) = amount

Mintable(block, state, c, token, amount) ==
    /\ Proved(block, state, c, token, amount)
    /\ c \notin bridged

bridge_in(block, state, c, token, amount) ==
    /\ Mintable(block, state, c, token, amount)
    /\ bridged' = bridged \cup {c}
    /\ minted' = Append(minted, [c |-> c, token |-> token, amount |-> amount])
    /\ UNCHANGED <<ethereum, clientVars, client, nullifiers>>

\* A bridged note is spent towards L1; the nullifier is the bridge's own.  The
\* contract takes any note of the pool: no lock answers to the others.
bridge_out(c) ==
    /\ c \in bridged
    /\ c \notin nullifiers
    /\ nullifiers' = nullifiers \cup {c}
    /\ UNCHANGED <<ethereum, clientVars, client, bridged, minted, handlers>>

\* BridgeOutEvent as the RPC returns it: the nullifier is a topic, and the
\* value is the map of the other fields, each with its length in bytes.
OutEvent(c) == [topic |-> {[of |-> c, bytes |-> 32]},
                value |-> {[of |-> "l1_recipient", bytes |-> 20],
                           [of |-> "amount", bytes |-> 16]}]

\* Anyone with an archive node.
submit_in(block, c) ==
    /\ root[block] # NoRoot
    /\ LET word == root[block].locks[c]
       IN bridge_in(block, root[block], c, TokenOf(word), AmountOf(word))
    /\ UNCHANGED handlers

readLock(c) ==
    LET word == L1(head).locks[c]
    IN [token |-> TokenOf(word), amount |-> AmountOf(word)]

readHead == headBlock

\* The command: the record as it is now, proved at the client's head.
relayIn(c) ==
    /\ bridge_in(readHead, L1(readHead), c, readLock(c).token, readLock(c).amount)
    /\ UNCHANGED handlers

-----------------------------------------------------------------------------
(* The relayer's handler of one Locked event                               *)

Become(h, g) == handlers' = (handlers \ {h}) \cup {g}
rest == <<ethereum, clientVars, client, contractVars>>

\* Without LIGHT_CLIENT_CONTRACT the block of the event stands for the head.
onLocked(h) ==
    /\ h.pc = "locked"
    /\ \E b \in {readHead, h.block} : Become(h, [h EXCEPT !.pc = "head", !.block = b])
    /\ UNCHANGED rest

\* eth_getProof at that block.
fetchInclusionProof(h) ==
    /\ h.pc = "head"
    /\ Become(h, [h EXCEPT !.pc = "proof", !.state = L1(h.block)])
    /\ UNCHANGED rest

\* Prepared by simulation, sent, and not waited for.
submitInvoke(h, accepted) == accepted /\ Become(h, [h EXCEPT !.pc = "sent"])

submitBridgeIn(h) ==
    /\ h.pc = "proof"
    /\ submitInvoke(h, Mintable(h.block, h.state, h.c, h.token, h.amount))
    /\ UNCHANGED rest

\* The transaction in a ledger.
bridgeInOp(h) ==
    /\ h.pc = "sent"
    /\ bridge_in(h.block, h.state, h.c, h.token, h.amount)
    /\ handlers' = handlers \ {h}

\* A call that throws is logged, a transaction that reverts or expires is not
\* even seen: nothing tries this lock again.
handler_fails(h) ==
    /\ handlers' = handlers \ {h}
    /\ UNCHANGED rest

-----------------------------------------------------------------------------
(* The relayer's out feed: every poll returns the recent events again      *)

\* The commitment of an event is the field of 32 bytes in its value.
parseBridgeOutEvent(value) == {field.of : field \in {f \in value : f.bytes = 32}}

\* The governor's call; one that would revert is logged.
settle(c) ==
    IF Unlockable(L1(head), c)
    THEN mine(AfterUnlock(L1(head), c)) /\ UNCHANGED handlers
    ELSE UNCHANGED vars

\* An event without a commitment is logged.
watchBridgeOut(c) ==
    LET parsed == parseBridgeOutEvent(OutEvent(c).value)
    IN IF parsed = {} THEN UNCHANGED vars ELSE \E k \in parsed : settle(k)

-----------------------------------------------------------------------------
Init ==
    /\ l1 = <<>> /\ finalized = 0
    /\ RootsInit /\ CommitteeInit /\ SignalInit
    /\ client \in {"light", "signal"}
    /\ bridged = {} /\ minted = <<>> /\ nullifiers = {} /\ handlers = {}

Ethereum ==
    \/ empty
    \/ \E c \in Commitments, t \in Tokens, a \in LockAmounts : lock(c, t, a)
    \/ \E c \in Commitments : unlock(c)
    \/ \E b \in finalized .. head - 1 : reorganise(b)
    \/ \E b \in finalized + 1 .. head - 1 : finalize(b)

Client ==
    \/ \E u \in Updates : client_update(u)
    \/ relayHeader
    \/ \E journal \in Journals : relaySignal(journal)
    \/ \E slot \in beaconRoot : client_prove(slot)

Contract ==
    \/ \E b \in Blocks, c \in Commitments : submit_in(b, c)
    \/ \E c \in Commitments : relayIn(c)
    \/ \E c \in Commitments : bridge_out(c)

Relayer ==
    \/ \E h \in handlers :
         \/ onLocked(h) \/ fetchInclusionProof(h) \/ submitBridgeIn(h)
         \/ bridgeInOp(h) \/ handler_fails(h)
    \/ \E c \in nullifiers : watchBridgeOut(c)

Next == Ethereum \/ Client \/ Contract \/ Relayer

\* The two loops of the relayer; nothing makes users or Ethereum act.
Fairness == WF_vars(tick) /\ WF_vars(\E c \in nullifiers : watchBridgeOut(c))

Spec == Init /\ [][Next]_vars /\ Fairness

-----------------------------------------------------------------------------
(* Properties                                                              *)

Deposits == [c : Commitments, token : Nat, amount : Nat]

\* Type invariant.
TypeOK ==
    /\ l1 \in Seq(States) /\ head <= MaxBlock /\ finalized \in 0 .. head
    /\ root \in [Blocks -> States \cup {NoRoot}]
    /\ headBlock \in 0 .. MaxBlock /\ headRoot \in States \cup {NoRoot}
    /\ committeePeriod \in {Unset, SeedPeriod}
    /\ currentState \in ConsensusStates /\ beaconRoot \subseteq Blocks
    /\ client \in {"light", "signal"}
    /\ bridged \subseteq Commitments /\ nullifiers \subseteq bridged
    /\ minted \in Seq(Deposits)
    /\ handlers \subseteq [pc : {"locked", "head", "proof", "sent"}, c : Commitments,
                           token : Nat, amount : Nat, block : 0 .. MaxBlock,
                           state : States]

\* Every root the bridge trusts is the state of a final block, whichever path
\* it came by and in whatever order, and the head is the newest of them with
\* its own root: a root of a block that a reorganisation drops would mint from
\* a lock that never was.
RootsFinal ==
    /\ \A b \in Blocks : root[b] # NoRoot =>
         b <= finalized /\ root[b] = L1(b) /\ b <= headBlock
    /\ headBlock > 0 => headRoot = root[headBlock] /\ headRoot # NoRoot
    /\ beaconRoot \subseteq 1 .. currentState.finalized
    /\ currentState.finalized <= finalized

\* The locks of token t that were not paid out, and what each is worth.
Held(s, t) == {c \in Commitments \ s.spentOnL2 :
                 s.locks[c] # NoLock /\ TokenOf(s.locks[c]) = t}
Values(s) == [c \in Commitments |-> AmountOf(s.locks[c])]

\* Every bridged note was minted once, for the token and the amount of a lock
\* that is final on L1, and unless it was bridged out that amount is still
\* there: the mint never exceeds the escrow.
MintBacked ==
    /\ \A i, j \in DOMAIN minted : minted[i].c = minted[j].c => i = j
    /\ \A i \in DOMAIN minted :
         LET m == minted[i]
         IN /\ L1(finalized).locks[m.c] = Pack(m.token, m.amount)
            /\ m.amount > 0
            /\ m.c \notin nullifiers => m.c \notin L1(head).spentOnL2
    /\ \A t \in Tokens : L1(head).escrow[t] = Total(Held(L1(head), t), Values(L1(head)))

\* While the seeded committee's period lasts, the head reaches every block that
\* becomes final: no update that was recorded out of order or reorganisation
\* stops the header loop for good.
HeadCatchesUp ==
    \A b \in Blocks :
        (client = "light" /\ finalized >= b)
            ~> (headBlock >= b \/ Period(head) # SeedPeriod)

\* What the relayer promises of its out feed: a bridge_out of a bridged note
\* leads to the unlock on L1, as long as Ethereum goes on.
OutFeedUnlocks ==
    \A c \in Commitments :
        c \in nullifiers ~> (c \in L1(head).spentOnL2 \/ head = MaxBlock)
=============================================================================
