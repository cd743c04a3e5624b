------------------------------- MODULE Session -------------------------------
(***************************************************************************)
(* The browser session: which wallet is connected (useWallet.tsx), which   *)
(* shielded identity is active (useWraith.tsx, shielded-identity.ts), under *)
(* whose name the store reads and writes (note-store.ts), and the indexer   *)
(* passes (indexer-service.ts) that outlive a switch of wallets.            *)
(*                                                                         *)
(* A session is a record; each step maps it to the set of its successors,  *)
(* empty when the step cannot happen.  Between two awaits nothing else runs,*)
(* so that a step goes from one await to the next.  WalletIndexer has the   *)
(* life of one identity in detail; here a ledger holds one payment, named   *)
(* by the key that can spend it, and a leaf is named by its position.       *)
(***************************************************************************)
EXTENDS Integers, SequencesExt, FiniteSets, TLC

CONSTANT Wallets         \* Stellar addresses

NoOne == "null"
NoKey == <<>>
Unread == -1             \* a pass that has not asked for the latest ledger yet

When(guard, next) == IF guard THEN {next} ELSE {}

Namespaces == Wallets \cup {"anon"}

\* Start: a browser in which nothing was stored.
Start ==
    [status |-> "disconnected", address |-> NoOne, stored |-> NoOne,
     active |-> NoOne, activeKey |-> NoKey,
     keys |-> [a \in Wallets |-> NoKey],
     notes |-> [n \in Namespaces |-> {}],
     leaves |-> [n \in Namespaces |-> <<>>],
     cursor |-> [n \in Namespaces |-> 0],
     deriving |-> {}, bound |-> NoOne, drawn |-> 0,
     ready |-> FALSE, receiveCode |-> NoKey,
     indexers |-> <<>>, indexer |-> 0, passes |-> <<>>, inflight |-> FALSE,
     op |-> NoKey, chain |-> <<>>]

-----------------------------------------------------------------------------
(* note-store.ts: whose keys are read and written                          *)

Namespace(s) == IF s.active = NoOne THEN "anon" ELSE s.active

setActiveAddress(s, address) ==
    IF address = s.active THEN s
    ELSE [s EXCEPT !.active = address, !.activeKey = NoKey]

\* The key is kept under the address that is active now.
setSpendingKey(s, key) ==
    [s EXCEPT !.activeKey = key,
              !.keys = [a \in Wallets |-> IF a = s.active THEN key ELSE @[a]]]

getSpendingKey(s) ==
    IF s.activeKey # NoKey \/ s.active = NoOne THEN s.activeKey ELSE s.keys[s.active]

addNotes(s, added) == [s EXCEPT !.notes[Namespace(s)] = @ \cup added]

\* Clear data: everything but keys, in every namespace; not what is in memory.
clearAllNotes(s) ==
    {[s EXCEPT !.notes = Start.notes, !.leaves = Start.leaves,
               !.cursor = Start.cursor]}

-----------------------------------------------------------------------------
(* indexer-service.ts                                                      *)

startIndexer(s, key) ==
    IF s.indexer # 0 /\ s.indexers[s.indexer].key = key THEN s
    ELSE [s EXCEPT !.indexers = Append(@, [key |-> key,
                                           leaves |-> s.leaves[Namespace(s)],
                                           cursor |-> s.cursor[Namespace(s)]]),
                   !.indexer = Len(s.indexers) + 1]

clearIndexer(s) == [s EXCEPT !.indexer = 0, !.inflight = FALSE]

\* A pass keeps the indexer it started with.
syncIndexer(s) ==
    IF s.inflight \/ s.indexer = 0 THEN s
    ELSE [s EXCEPT !.inflight = TRUE,
                   !.passes = Append(@, [indexer |-> s.indexer, latest |-> Unread])]

\* A pass that ends clears inflight, whoever set it.
pass_over(s, i) == [s EXCEPT !.passes = RemoveAt(@, i), !.inflight = FALSE]

getLatestLedger(s, i) ==
    When(s.passes[i].latest = Unread, [s EXCEPT !.passes[i].latest = Len(s.chain)])

rpc_fails(s, i) == {pass_over(s, i)}

\* insertLeaf: a leaf that is known is passed over, the next one is appended,
\* a gap throws (no pass gets here with one).
Appended(leaves, start, last) ==
    IF start > Len(leaves) + 1 THEN leaves
    ELSE leaves \o [j \in 1 .. (IF last > Len(leaves) THEN last - Len(leaves) ELSE 0)
                        |-> Len(leaves) + j]

\* sync reads on, keeps what belongs to its key and moves its cursor to the
\* ledger that was the latest when it began; then the service stores the tree.
\* All of it goes where the store points now.
pass_ends(s, i) ==
    LET pass == s.passes[i]
        ix == s.indexers[pass.indexer]
        start == IF ix.cursor > 1 THEN ix.cursor ELSE 1
        last == IF start > pass.latest THEN 0 ELSE Len(s.chain)
        read == [ix EXCEPT !.leaves = Appended(@, start, last),
                           !.cursor = IF last = 0 THEN @ ELSE pass.latest + 1]
        found == {[leaf |-> j, key |-> ix.key]
                    : j \in {j \in start .. last : s.chain[j] = ix.key}}
        kept == addNotes(s, found)
    IN  When(pass.latest # Unread,
             pass_over([kept EXCEPT !.indexers[pass.indexer] = read,
                                    !.leaves[Namespace(s)] = read.leaves,
                                    !.cursor[Namespace(s)] = read.cursor], i))

-----------------------------------------------------------------------------
(* useWraith.tsx and shielded-identity.ts: from a wallet to an identity    *)

\* The effect for any status but connected.
forget(s) ==
    clearIndexer([s EXCEPT !.active = NoOne, !.activeKey = NoKey, !.ready = FALSE,
                           !.receiveCode = NoKey, !.bound = NoOne])

\* The effect goes on with the key, unless another effect has replaced it.
identity_resolved(s, address, key) ==
    IF s.bound # address THEN s
    ELSE syncIndexer(startIndexer([s EXCEPT !.receiveCode = key, !.ready = TRUE,
                                            !.bound = NoOne], key))

\* While a signature for the address is awaited its promise is shared: the
\* store is not pointed at the address a second time.
resolveShieldedIdentity(s, address) ==
    LET effect == [s EXCEPT !.ready = FALSE, !.bound = address]
        pointed == setActiveAddress(effect, address)
        cached == s.keys[address]
    IN  IF address \in s.deriving THEN effect
        ELSE IF cached # NoKey
        THEN identity_resolved(setSpendingKey(pointed, cached), address, cached)
        ELSE [pointed EXCEPT !.deriving = @ \cup {address}]

DerivedKey(address) == <<"signature", address>>
randomSpendingKey(s) == <<"random", s.drawn>>

derived(s, address, key) ==
    When(address \in s.deriving,
         identity_resolved(setSpendingKey([s EXCEPT !.deriving = @ \ {address}], key),
                           address, key))

signed(s, address) == derived(s, address, DerivedKey(address))

\* Declined, or the wallet cannot sign messages.
not_signed(s, address) ==
    derived([s EXCEPT !.drawn = @ + 1], address, randomSpendingKey(s))

-----------------------------------------------------------------------------
(* useWallet.tsx                                                           *)

connect(s) == {forget([s EXCEPT !.status = "connecting"])}

onWalletSelected(s, address) ==
    When(s.status = "connecting",
         resolveShieldedIdentity(
            [s EXCEPT !.status = "connected", !.address = address, !.stored = address],
            address))

onClosed(s) ==
    When(s.status = "connecting", forget([s EXCEPT !.status = "disconnected"]))

disconnect(s) ==
    When(s.status = "connected",
         forget([s EXCEPT !.status = "disconnected", !.address = NoOne,
                          !.stored = NoOne]))

\* A reload keeps local storage, and resumes the wallet that was chosen.
reload(s) ==
    LET fresh == [Start EXCEPT !.stored = s.stored, !.keys = s.keys,
                               !.notes = s.notes, !.leaves = s.leaves,
                               !.cursor = s.cursor, !.drawn = s.drawn,
                               !.chain = s.chain]
    IN  {IF s.stored = NoOne THEN fresh
         ELSE resolveShieldedIdentity(
                [fresh EXCEPT !.status = "connected", !.address = s.stored], s.stored)}

-----------------------------------------------------------------------------
(* What goes on meanwhile                                                  *)

\* The poll of useWraith.tsx.
interval(s) == When(s.ready, syncIndexer(s))

\* Somebody pays to the receive code that is on the screen.
paid(s) == When(s.receiveCode # NoKey, [s EXCEPT !.chain = Append(@, s.receiveCode)])

\* A deposit takes the key before it is signed and confirmed, and is stored
\* after that.
deposit_starts(s) ==
    When(s.ready /\ s.op = NoKey /\ getSpendingKey(s) # NoKey,
         [s EXCEPT !.op = getSpendingKey(s)])

deposit_confirmed(s) ==
    When(s.op # NoKey,
         syncIndexer(addNotes([s EXCEPT !.op = NoKey, !.chain = Append(@, s.op)],
                              {[leaf |-> Len(s.chain) + 1, key |-> s.op]})))

-----------------------------------------------------------------------------
(***************************************************************************)
(* What survives a switch of wallets and what does not, over every short  *)
(* sequence of steps.  MCBridge assumes the statements.                      *)
(***************************************************************************)

CONSTANTS MaxHasty, MaxPatient, MaxLedger     \* numbers of steps, and of ledgers

Only(S) == CHOOSE x \in S : TRUE
Somebody == CHOOSE a \in Wallets : TRUE
Other == CHOOSE a \in Wallets : a # Somebody

\* Both wallets have been here before and both have been paid; the first one
\* is connected again.
Returned ==
    LET known == [Start EXCEPT !.keys = [a \in Wallets |-> DerivedKey(a)],
                               !.chain = <<DerivedKey(Somebody), DerivedKey(Other)>>]
    IN  Only(onWalletSelected(Only(connect(known)), Somebody))

Works(s) ==
    UNION ({onWalletSelected(s, a) \cup signed(s, a) \cup not_signed(s, a) : a \in Wallets}
           \cup {getLatestLedger(s, i) \cup rpc_fails(s, i) \cup pass_ends(s, i)
                    : i \in DOMAIN s.passes}
           \cup {interval(s), paid(s), deposit_starts(s), deposit_confirmed(s)})

Switches(s) == connect(s) \cup onClosed(s) \cup disconnect(s) \cup reload(s)

\* The wallet is left alone while a signature, a pass or a deposit is awaited.
AtRest(s) == s.passes = <<>> /\ s.deriving = {} /\ s.op = NoKey

Patient(s) == Works(s) \cup (IF AtRest(s) THEN Switches(s) ELSE {})
Hasty(s) == Works(s) \cup Switches(s) \cup clearAllNotes(s)
Clearing(s) == Works(s) \cup (IF AtRest(s) THEN reload(s) \cup clearAllNotes(s) ELSE {})

Bounded(s) ==
    /\ Len(s.chain) <= MaxLedger
    /\ Len(s.passes) <= 2
    /\ Len(s.indexers) <= 3

Reachable(Steps(_), steps) ==
    LET Explored[n \in 0 .. steps] ==
            IF n = 0 THEN [all |-> {Start, Returned}, new |-> {Start, Returned}]
            ELSE LET before == Explored[n - 1]
                     new == {s \in UNION {Steps(t) : t \in before.new} : Bounded(s)}
                            \ before.all
                 IN  [all |-> before.all \cup new, new |-> new]
    IN  Explored[steps].all

-----------------------------------------------------------------------------
\* The tree that is stored under any name is a prefix of the pool's and
\* reaches the stored cursor.
TreeTrue(s) ==
    \A n \in Namespaces :
        /\ s.leaves[n] = [i \in 1 .. Len(s.leaves[n]) |-> i]
        /\ Len(s.leaves[n]) <= Len(s.chain)
        /\ s.cursor[n] <= Len(s.leaves[n]) + 1

\* Every wallet has its own key and the notes of that key, and nothing is kept
\* without a name.
Separate(s) ==
    /\ \A a, b \in Wallets : a # b => s.keys[a] = NoKey \/ s.keys[a] # s.keys[b]
    /\ \A a \in Wallets :
          /\ \A b \in Wallets : s.keys[a] = DerivedKey(b) => a = b
          /\ \A n \in s.notes[a] : n.key = s.keys[a]
    /\ s.notes["anon"] = {}
    /\ s.ready => s.receiveCode = s.keys[s.address] /\ s.active = s.address

\* What was paid to a key can be spent with a key that is stored, or derived
\* again.
KeyKept(s) ==
    \A key \in Range(s.chain) :
        \E a \in Wallets : key \in {DerivedKey(a), s.keys[a]}

\* A payment below the cursor that is not in the store, and that no indexer in
\* memory is going to read.
Missed(s) ==
    \E a \in Wallets, j \in DOMAIN s.chain :
        /\ s.chain[j] = s.keys[a] /\ j < s.cursor[a]
        /\ [leaf |-> j, key |-> s.keys[a]] \notin s.notes[a]
        /\ \A i \in DOMAIN s.indexers : j < s.indexers[i].cursor

-----------------------------------------------------------------------------
\* However hastily wallets are switched and data is cleared, and wherever a
\* pass that outlives the switch stores its tree, witnesses come from a prefix
\* of the pool's tree (indexer-service.ts: one cursor, stored with its leaves).
StoredTreeSurvives == \A s \in Reachable(Hasty, MaxHasty) : TreeTrue(s)

\* Switches while nothing is awaited keep the identities apart, lose no key and
\* miss no payment.
PatientSwitchesSeparate ==
    \A s \in Reachable(Patient, MaxPatient) : Separate(s) /\ KeyKept(s) /\ ~Missed(s)

\* Hasty ones do not: a signature that comes late is stored as the key of the
\* next wallet; a pass that ends late stores its notes under the next wallet
\* and moves that wallet's cursor past payments nobody has looked for; and a
\* wallet that is connected again while it is asked to sign works without a
\* name, so that a key drawn at random is gone with the page.
HastySwitchesMix ==
    LET states == Reachable(Hasty, MaxHasty) IN
    /\ \E s \in states, a, b \in Wallets : a # b /\ s.keys[b] = DerivedKey(a)
                                                 /\ s.receiveCode = s.keys[b]
    /\ \E s \in states, a \in Wallets : \E n \in s.notes[a] : n.key # s.keys[a]
    /\ \E s \in states : s.notes["anon"] # {}
    /\ \E s \in Reachable(LAMBDA s : Works(s) \cup Switches(s), MaxHasty) : Missed(s)
    /\ \E s \in states : ~KeyKept(s)

\* note-store.ts:190-191 says that clearing makes discovery run again from the
\* start.  The indexer in memory keeps its cursor, and its next pass stores it.
ClearingMisses == \E s \in Reachable(Clearing, MaxPatient) : Missed(s)
=============================================================================
