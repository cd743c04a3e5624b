------------------------------- MODULE ClmmApp -------------------------------
(***************************************************************************)
(* The page of the CLMM front end (App.tsx) with the client it submits     *)
(* through (lib/stellar.ts), and the table of notes it reads from the      *)
(* contract.  A step maps a page to its successors; it goes from one await *)
(* to the next.  A ledger is a number, and so is the contract's state at    *)
(* that ledger; the accounts are those of the wallets that get connected.   *)
(***************************************************************************)
EXTENDS Integers, SequencesExt, FiniteSets

CONSTANT Accounts

None == "null"
Unread == 0

When(guard, next) == IF guard THEN {next} ELSE {}

-----------------------------------------------------------------------------
(* What the contract records of its notes                                  *)

\* Deposits and the operations of every pool are numbered apart, and share
\* one table.
NoRecords(pools) ==
    [deposits |-> 0, sequence |-> [p \in pools |-> 0], note |-> <<>>]

get_note_commitment(records, id, index) ==
    IF <<id, index>> \in DOMAIN records.note THEN records.note[<<id, index>>] ELSE None

\* written[i] is recorded under the index i - 1.
Recorded(records, id, written) ==
    [records EXCEPT !.note =
        [k \in {id} \X (0 .. Len(written) - 1) |-> written[k[2] + 1]] @@ @]

deposit_private(records) ==
    Recorded([records EXCEPT !.deposits = @ + 1], records.deposits + 1, <<"Deposit">>)

Outputs(operation) ==
    CASE operation \in {"Mint", "Swap"} -> <<operation>>
      [] operation = "Burn" -> <<operation, operation>>
      [] operation = "Collect" -> <<"Position", operation, operation>>

private_operation(records, pool, operation) ==
    Recorded([records EXCEPT !.sequence[pool] = @ + 1], records.sequence[pool] + 1,
             Outputs(operation))

\* mint_public, burn_public and claim_protocol_fees count, and record nothing.
public_operation(records, pool) == [records EXCEPT !.sequence[pool] = @ + 1]

\* The rows of the table of commitments, each with what it calls its note.
loadCommitments(records) ==
    {row \in {<<"Mint", 1, 0>>, <<"Swap", 2, 0>>, <<"Collect", 3, 0>>, <<"Collect", 3, 1>>,
              <<"Burn", 4, 0>>, <<"Burn", 4, 1>>} :
        get_note_commitment(records, row[2], row[3]) # None}

-----------------------------------------------------------------------------
(* The page                                                                *)

NoTx == [label |-> None, account |-> None, stage |-> "none", id |-> 0]

\* Start: the page is shown, and its effect has begun to read.
Start ==
    [wallet |-> None, connecting |-> FALSE, loading |-> TRUE,
     txPending |-> None, txHash |-> FALSE, error |-> None,
     data |-> [pools |-> Unread, balancesOf |-> None],
     refreshes |-> <<[wallet |-> None, pools |-> Unread, awaited |-> FALSE]>>,
     tx |-> NoTx, sent |-> <<>>, ledger |-> 1]

\* It reads for the wallet of the render that made it.
refresh(p, wallet, awaited) ==
    [p EXCEPT !.loading = TRUE, !.error = None,
              !.refreshes = Append(@, [wallet |-> wallet, pools |-> Unread,
                                       awaited |-> awaited])]

\* A submission ends with the refresh it waits for.
refresh_over(p, i) ==
    LET over == [p EXCEPT !.loading = FALSE, !.refreshes = RemoveAt(@, i)]
    IN  IF p.refreshes[i].awaited THEN [over EXCEPT !.txPending = None, !.tx = NoTx]
        ELSE over

getPool(p, i) ==
    When(p.refreshes[i].pools = Unread, [p EXCEPT !.refreshes[i].pools = p.ledger])

\* The first read throws; the others are replaced by null.
getPool_fails(p, i) ==
    When(p.refreshes[i].pools = Unread, refresh_over([p EXCEPT !.error = "load"], i))

\* All it has read is set at once.
refresh_ends(p, i) ==
    LET r == p.refreshes[i] IN
    When(r.pools # Unread,
         refresh_over([p EXCEPT !.data = [pools |-> r.pools, balancesOf |-> r.wallet]], i))

connect(p) == When(~p.connecting, [p EXCEPT !.connecting = TRUE, !.error = None])

\* A signer is a new object each time, so that the page is read again.
connected(p, account) ==
    When(p.connecting,
         refresh([p EXCEPT !.connecting = FALSE, !.wallet = account], account, FALSE))

connect_fails(p) ==
    When(p.connecting, [p EXCEPT !.connecting = FALSE, !.error = "connect"])

-----------------------------------------------------------------------------
(* A submission                                                            *)

\* What the buttons of the three forms ask.
disabled(p) == p.wallet = None \/ p.txPending # None

\* createPool, mintLiquidity, mintTesterTokens.
submit(p, label) ==
    When(~disabled(p),
         [p EXCEPT !.txPending = label, !.txHash = FALSE, !.error = None,
                   !.tx = [label |-> label, account |-> p.wallet, stage |-> "signing",
                           id |-> 0]])

submit_fails(p) == [p EXCEPT !.error = "submit", !.txPending = None, !.tx = NoTx]

\* It cannot be prepared, is not signed, or sendTransaction says ERROR.
refused(p) == When(p.tx.stage = "signing", submit_fails(p))

\* With any other answer it counts as sent.  TRY_AGAIN_LATER is one, and then
\* no ledger will have it.
sendTransaction(p, answer) ==
    When(p.tx.stage = "signing",
         [p EXCEPT !.tx.stage = "polling", !.tx.id = Len(p.sent) + 1,
                   !.sent = Append(@, [label |-> p.tx.label,
                                       fate |-> IF answer = "PENDING" THEN "pending"
                                                ELSE "expired"])])

\* Whatever no ledger has is NOT_FOUND, and asked for once more.
getTransaction(p) ==
    LET fate == p.sent[p.tx.id].fate IN
    IF p.tx.stage # "polling" THEN {}
    ELSE IF fate = "SUCCESS"
    THEN {refresh([p EXCEPT !.txHash = TRUE, !.tx.stage = "refreshing"], p.tx.account, TRUE)}
    ELSE IF fate = "FAILED" THEN {submit_fails(p)}
    ELSE {p}

\* getTransaction itself throws.
poll_fails(p) == When(p.tx.stage = "polling", submit_fails(p))

-----------------------------------------------------------------------------
(* The ledgers                                                             *)

\* A transaction has sixty seconds: it is in a ledger by then, or in none.
close(p, id, fate) ==
    When(p.sent[id].fate = "pending",
         [p EXCEPT !.ledger = @ + 1, !.sent[id].fate = fate])

-----------------------------------------------------------------------------
(***************************************************************************)
(* What the CLMM page shows, and what it says of a submission, over every   *)
(* sequence of at most MaxSteps steps; and which notes the contract's table *)
(* has, over every sequence of at most MaxRecords calls.  MCClmm assumes     *)
(* the statements.                                                          *)
(***************************************************************************)

CONSTANTS MaxSteps, MaxRecords, MaxLedger, MaxSent

Steps(p) ==
    UNION ({getPool(p, i) \cup getPool_fails(p, i) \cup refresh_ends(p, i)
                : i \in DOMAIN p.refreshes}
           \cup {connected(p, a) : a \in Accounts}
           \cup {submit(p, "Create pool"), refused(p), getTransaction(p), poll_fails(p),
                 connect(p), connect_fails(p)}
           \cup {sendTransaction(p, answer) : answer \in {"PENDING", "TRY_AGAIN_LATER"}}
           \cup {close(p, id, fate) : id \in DOMAIN p.sent,
                                      fate \in {"SUCCESS", "FAILED", "expired"}}
           \cup {{refresh(p, p.wallet, FALSE)}})

\* Nobody asks for a second reading while one goes on,
OneReading(p) == {q \in Steps(p) : Len(q.refreshes) <= 1}

\* nor connects another wallet while a submission is pending.
Patient(p) == {q \in OneReading(p) : q.txPending # None => q.wallet = p.wallet}

Bounded(p) ==
    Len(p.refreshes) <= 2 /\ p.ledger <= MaxLedger /\ Len(p.sent) <= MaxSent

\* A wallet is connected and everything has been read.
Connected ==
    LET Only(S) == CHOOSE x \in S : TRUE
        Read(p) == Only(refresh_ends(Only(getPool(p, 1)), 1))
    IN  Read(Only(connected(Only(connect(Read(Start))), CHOOSE a \in Accounts : TRUE)))

Pages(Next(_)) ==
    LET Explored[n \in 0 .. MaxSteps] ==
            IF n = 0 THEN [all |-> {Start, Connected}, new |-> {Start, Connected}]
            ELSE LET before == Explored[n - 1]
                     new == {p \in UNION {Next(q) : q \in before.new} : Bounded(p)}
                            \ before.all
                 IN  [all |-> before.all \cup new, new |-> new]
    IN  Explored[MaxSteps].all

\* Evaluated once by the module that assumes the statements.
Hasty == Pages(Steps)
OneByOne == Pages(OneReading)
Patiently == Pages(Patient)

\* The histories of two pools' calls, as pairs of what was called and what is
\* recorded.
Histories ==
    LET Pools == {1, 2}
        Called(h, call, records) == [calls |-> Append(h.calls, call), records |-> records]
        Calls(h) ==
            {Called(h, <<"Deposit", h.records.deposits + 1>>, deposit_private(h.records))}
            \cup {Called(h, <<o, h.records.sequence[p] + 1>>, private_operation(h.records, p, o))
                    : o \in {"Mint", "Swap", "Burn", "Collect"}, p \in Pools}
            \cup {Called(h, <<"public", 0>>, public_operation(h.records, p)) : p \in Pools}
        Explored[n \in 0 .. MaxRecords] ==
            IF n = 0 THEN {[calls |-> <<>>, records |-> NoRecords(Pools)]}
            ELSE Explored[n - 1] \cup UNION {Calls(h) : h \in Explored[n - 1]}
    IN  Explored[MaxRecords]

-----------------------------------------------------------------------------
AtRest(p) == p.refreshes = <<>> /\ p.txPending = None /\ ~p.connecting

\* A submission is pending exactly while it is being made, one at a time, and
\* a transaction is reported as made only when a ledger has it.
OneAtATime(hasty) ==
    \A p \in hasty :
        /\ (p.txPending = None) <=> (p.tx = NoTx)
        /\ p.txHash => \E id \in DOMAIN p.sent : p.sent[id].fate = "SUCCESS"
        /\ Cardinality({i \in DOMAIN p.refreshes : p.refreshes[i].awaited}) <= 1

\* When readings do not overlap and the wallet stays, a page at rest shows the
\* balances of the wallet it names and the pools its transaction left, or an
\* error.
PatientPageIsTrue(patiently) ==
    \A p \in patiently :
        AtRest(p) /\ p.error = None =>
            /\ p.data.balancesOf = p.wallet
            /\ p.txHash /\ Len(p.sent) = 1 => p.data.pools = p.ledger

\* A submission reads again for the wallet it was made with, and so the page
\* of a wallet connected meanwhile ends with the balances of the one before.
SubmissionReadsForItsOwn(oneByOne) ==
    \E p \in oneByOne :
        AtRest(p) /\ p.error = None /\ p.wallet # None /\ p.data.balancesOf # p.wallet

\* When readings overlap, an older reading that ends later is what stays, with the
\* balances of the wallet before and the pools from before the transaction;
\* and the page no longer says it is loading although a reading goes on.
LateReadingStays(hasty) ==
    /\ \E p \in hasty : AtRest(p) /\ p.error = None /\ p.wallet # None
                        /\ p.data.balancesOf # p.wallet
    /\ \E p \in hasty : AtRest(p) /\ p.error = None /\ p.txHash /\ p.data.pools < p.ledger
    /\ \E p \in hasty : p.refreshes # <<>> /\ ~p.loading

\* A transaction that no ledger takes is polled for ever: only an RPC that
\* fails lets the user submit again (stellar.ts, submitSignedXdr).
ExpiredStaysPending(hasty) ==
    LET stuck == {p \in hasty : p.tx.stage = "polling" /\ p.sent[p.tx.id].fate = "expired"} IN
    /\ stuck # {}
    /\ \A p \in stuck :
          getTransaction(p) = {p}
          /\ \A q \in Steps(p) : q.txPending = None => q \in poll_fails(p)

\* What is said to have failed may be in a ledger later, and once more when it
\* is submitted again.
FailedMayLand(hasty) ==
    \E p \in hasty :
        /\ p.error = "submit" /\ p.txPending = None
        /\ Cardinality({id \in DOMAIN p.sent : p.sent[id].fate = "SUCCESS"}) = 2

\* The table gives a deposit's note under its number, and an operation's under
\* its own, only as long as nobody else's call had the same number; and what
\* the page calls a swap is whatever came second.
RecordsAreShared ==
    LET Numbered(h, call) == \E i \in DOMAIN h.calls : h.calls[i] = call IN
    /\ \A h \in Histories :
          (\A i, j \in DOMAIN h.calls : h.calls[i][2] = h.calls[j][2] => i = j) =>
             \A i \in DOMAIN h.calls : h.calls[i][1] # "public" =>
                get_note_commitment(h.records, h.calls[i][2], 0)
                    \in {h.calls[i][1], "Position"}
    /\ \E h \in Histories :
          Numbered(h, <<"Deposit", 1>>) /\ get_note_commitment(h.records, 1, 0) # "Deposit"
    /\ \E h \in Histories : \E row \in loadCommitments(h.records) :
          row[1] = "Swap" /\ get_note_commitment(h.records, row[2], row[3]) = "Burn"
=============================================================================
