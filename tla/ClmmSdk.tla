------------------------------ MODULE ClmmSdk ------------------------------
(***************************************************************************)
(* The clients of the CLMM: the note store and the mint witness of         *)
(* sdk/typescript, the order in which clmm-frontend lays out the public    *)
(* inputs, and what the contract and the mint circuit make of them.  A     *)
(* hash is the tuple it was made from; that the library's stand-in for     *)
(* Poseidon2 agrees with the circuits' is granted.                         *)
(***************************************************************************)
EXTENDS ClmmSdkTree, FiniteSets, SequencesExt

Zero == <<"zero">>

deriveOwnerKey(key) == <<"owner", key>>
computeNoteCommitment(asset, amount, owner, blinding) ==
    <<"note", asset, amount, owner, blinding>>
computeNullifier(commitment, key) == <<"nullifier", commitment, key>>

-----------------------------------------------------------------------------
(* notes.ts: the store keeps its notes in the order they came              *)

createNote(asset, amount, key, blinding) ==
    LET commitment == computeNoteCommitment(asset, amount, deriveOwnerKey(key), blinding)
    IN  [asset |-> asset, amount |-> amount, owner |-> deriveOwnerKey(key), key |-> key,
         blinding |-> blinding, commitment |-> commitment,
         nullifier |-> computeNullifier(commitment, key)]

EmptyStore == [notes |-> <<>>, spentNullifiers |-> {}]

addNote(store, note) ==
    IF \E n \in Range(store.notes) : n.commitment = note.commitment
    THEN [store EXCEPT !.notes = [i \in DOMAIN @ |->
              IF @[i].commitment = note.commitment THEN note ELSE @[i]]]
    ELSE [store EXCEPT !.notes = Append(@, note)]

markSpent(store, spent) == [store EXCEPT !.spentNullifiers = @ \cup {spent}]

getBalance(store, asset) ==
    FoldSeq(LAMBDA n, sum :
                IF n.asset = asset /\ n.nullifier \notin store.spentNullifiers
                THEN sum + n.amount ELSE sum, 0, store.notes)

\* The notes alone: which of them are spent is not written down.
export(store) == store.notes
import(store, notes) == FoldSeq(LAMBDA n, s : addNote(s, n), store, notes)

-----------------------------------------------------------------------------
(* inputs.ts.  request: [poolId, tickLower, tickUpper, liquidityDelta];    *)
(* position: the existing position, or nothing.                            *)

\* A zero counts as missing.
Existing(position, field, default) ==
    IF \E p \in position : p[field] # 0
    THEN (CHOOSE p \in position : TRUE)[field] ELSE default

\* The blinding is a parameter that goes into no hash.
computePositionCommitment(request, position, owner, nonce, blinding) ==
    <<"position", request, Existing(position, "growth", 0),
      Existing(position, "owed", 0), owner, nonce>>

generateMintPrivateInputs(note, path, request, position, pool) ==
    [note |-> note, path |-> path, request |-> request, pool |-> pool,
     growth |-> Existing(position, "growth", 0), owed |-> Existing(position, "owed", 0),
     nonce |-> Existing(position, "nonce", 0),
     blinding |-> Existing(position, "blinding", note.blinding),
     ownerKey |-> note.key]

\* In the order of the interface PublicInputs.
generateMintPublicInputs(root, note, request, position) ==
    LET new == computePositionCommitment(request, position, deriveOwnerKey(note.key),
                   Existing(position, "nonce", 1),
                   Existing(position, "blinding", note.blinding))
    IN  <<root, computeNullifier(new, note.key), Existing(position, "commitment", Zero),
          new, <<"0x1">>, <<"0x2">>, note.nullifier,
          computeNoteCommitment(0, 0, deriveOwnerKey(note.key), note.blinding + 1),
          <<"min", request>>>>

\* index.ts: the path is made over the notes of this store, not of the tree.
createMintProof(store, root, note, request, pool, depth) ==
    LET commitments == [i \in DOMAIN store.notes |-> store.notes[i].commitment]
        found == {i \in DOMAIN commitments : commitments[i] = note.commitment}
    IN  {[publicInputs |-> generateMintPublicInputs(root, note, request, {}),
          privateInputs |-> generateMintPrivateInputs(note,
              generateMerkleProof(commitments, i - 1, depth), request, {}, pool)]
            : i \in found}

-----------------------------------------------------------------------------
(* clmm-public-inputs.ts                                                   *)

CLMM_PUBLIC_INPUT_ORDER ==
    [mint |-> <<"merkle_root", "position_nullifier", "old_position_commitment",
                "new_position_commitment", "pool_state_old", "pool_state_new",
                "input_note_nullifier">>,
     swap |-> <<"merkle_root", "input_nullifier", "output_commitment",
                "pool_state_old", "pool_state_new">>,
     collect |-> <<"merkle_root", "position_nullifier", "old_position_commitment",
                   "new_position_commitment", "pool_state_old",
                   "output_commitment_0", "output_commitment_1">>,
     burn |-> <<"merkle_root", "position_nullifier", "old_position_commitment",
                "new_position_commitment", "pool_state_old", "pool_state_new",
                "output_commitment_0", "output_commitment_1">>]

encodeClmmPublicInputs(op, inputs) ==
    [i \in DOMAIN CLMM_PUBLIC_INPUT_ORDER[op] |-> inputs[CLMM_PUBLIC_INPUT_ORDER[op][i]]]

assertClmmPublicInputBytes(op, publicInputs) ==
    Len(publicInputs) = Len(CLMM_PUBLIC_INPUT_ORDER[op])

-----------------------------------------------------------------------------
(* The contract's parsers: how many fields, and which are read from where  *)

Parsers ==
    [mint |-> [length |-> 7, merkle_root |-> 0, position_nullifier |-> 1,
               new_position_commitment |-> 3, pool_state_old |-> 4, input_nullifier |-> 6],
     swap |-> [length |-> 5, merkle_root |-> 0, input_nullifier |-> 1,
               output_commitment |-> 2, pool_state_old |-> 3],
     burn |-> [length |-> 8, merkle_root |-> 0, position_nullifier |-> 1,
               pool_state_old |-> 4, output_commitment_0 |-> 6, output_commitment_1 |-> 7],
     collect |-> [length |-> 7, merkle_root |-> 0, position_nullifier |-> 1,
                  new_position_commitment |-> 3, pool_state_old |-> 4,
                  output_commitment_0 |-> 5, output_commitment_1 |-> 6]]

\* The inputs by name, or nothing: the call fails.
parse_public_inputs(op, inputs) ==
    {[name \in DOMAIN Parsers[op] \ {"length"} |-> inputs[Parsers[op][name] + 1]]
        : n \in {Len(inputs)} \cap {Parsers[op].length}}

\* What the mint circuit asserts of a witness, by its messages.
clmm_mint_main(pub, in) ==
    LET note == computeNoteCommitment(in.note.asset, in.note.amount, in.note.owner,
                                      in.note.blinding)
    IN  [input_nullifier |-> pub[7] = computeNullifier(note, in.note.key),
         merkle_root |-> pub[1] = computeRoot(note, in.path),
         position_nullifier |-> pub[3] # Zero
                                  => pub[2] = computeNullifier(pub[3], in.ownerKey),
         bounds |-> in.request.tickLower < in.request.tickUpper,
         active |-> /\ in.request.tickLower <= in.pool.currentTick
                    /\ in.pool.currentTick < in.request.tickUpper,
         asset |-> in.note.asset = in.pool.asset0,
         new_position |-> pub[4] = <<"position", in.request, in.growth, in.owed,
                                     deriveOwnerKey(in.ownerKey), in.nonce, in.blinding>>,
         pool_state_old |-> pub[5] = <<"pool", in.request.poolId, in.pool>>,
         self_reference |-> pub[2] # pub[7]]

-----------------------------------------------------------------------------
(***************************************************************************)
(* What the clients of the CLMM promise, over the notes, stores, requests  *)
(* and pools of small sets.  MCClmm checks it.                             *)
(***************************************************************************)

Operations == {"mint", "swap", "collect", "burn"}

\* The front end lays out the public inputs of the four private operations as
\* the contract reads them: each input arrives under its own name, except that
\* the contract calls the nullifier of the note a mint spends input_nullifier.
ClientLayoutsAgree ==
    \A op \in Operations :
        LET names == {CLMM_PUBLIC_INPUT_ORDER[op][i] :
                          i \in DOMAIN CLMM_PUBLIC_INPUT_ORDER[op]}
            inputs == encodeClmmPublicInputs(op, [name \in names |-> name])
            Called(name) == IF op = "mint" /\ name = "input_nullifier"
                            THEN "input_note_nullifier" ELSE name
        IN  /\ assertClmmPublicInputBytes(op, inputs)
            /\ \E parsed \in parse_public_inputs(op, inputs) :
                  \A name \in DOMAIN parsed : parsed[name] = Called(name)

Requests == [poolId : {0}, tickLower : {0, 1}, tickUpper : {1, 2}, liquidityDelta : {1, 2}]
PoolStates == [asset0 : {0}, currentTick : 0 .. 2]
Notes == {createNote(asset, amount, key, blinding) :
             asset \in {0, 1}, amount \in {0, 1}, key \in {1, 2}, blinding \in {1, 2}}
Stores == {FoldSeq(LAMBDA n, s : addNote(s, n), EmptyStore, notes) :
              notes \in UNION {[1 .. k -> Notes] : k \in 0 .. 2}}

\* No mint the library prepares passes.  The contract refuses its nine public
\* inputs by their number, and the circuit what they say: the new position is
\* committed with nonce 1 and opened with nonce 0, and the state of the pool is
\* a placeholder.  The note's nullifier is right, and its path leads to the
\* root only if the store and the tree hold that one note.
SdkMintIsRefused ==
    \A store \in Stores : \A request \in Requests : \A pool \in PoolStates :
        \A i \in DOMAIN store.notes :
            LET note == store.notes[i]
                tree == [j \in DOMAIN store.notes |-> store.notes[j].commitment]
                root == compute_root_from_leaves(tree, 2)
                proofs == createMintProof(store, root, note, request, pool, 2)
            IN  /\ Cardinality(proofs) = 1
                /\ \A proof \in proofs :
                      LET holds == clmm_mint_main(proof.publicInputs, proof.privateInputs)
                      IN  /\ parse_public_inputs("mint", proof.publicInputs) = {}
                          /\ {"new_position", "pool_state_old"}
                                = {check \in DOMAIN holds :
                                      ~ holds[check]
                                      /\ check \notin {"merkle_root", "bounds", "active", "asset"}}
                          /\ holds.merkle_root <=> Len(tree) = 1

\* The blinding of a position hides nothing: two positions of one owner with
\* the same request have one commitment, and so one nullifier, and only one of
\* them could be spent.  Not even that one: it is the nullifier that the mint
\* itself hands to the contract, which takes it as spent there and then.
PositionsCollide ==
    \A request \in Requests : \A note, other \in Notes :
        LET Mint(n) == generateMintPublicInputs(<<"root">>, n, request, {})
        IN  /\ Mint(note)[2] = computeNullifier(Mint(note)[4], note.key)
            /\ note.key = other.key
                  <=> /\ Mint(note)[4] = Mint(other)[4]
                      /\ Mint(note)[2] = Mint(other)[2]

\* A store that was exported and imported again has the same balance exactly
\* when none of its notes was spent: which ones were is not exported.
ImportForgetsSpends ==
    \A store \in Stores : \A spent \in SUBSET {n.nullifier : n \in Range(store.notes)} :
        LET before == FoldSet(LAMBDA x, s : markSpent(s, x), store, spent)
            after == import(EmptyStore, export(before))
        IN  \A asset \in {0, 1} :
                getBalance(before, asset) = getBalance(after, asset)
                  <=> \A n \in Range(store.notes) :
                          n.nullifier \in spent => n.asset # asset \/ n.amount = 0
=============================================================================
