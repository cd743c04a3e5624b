----------------------------- MODULE BridgeForm -----------------------------
(***************************************************************************)
(* The deposit and withdrawal form of the wallet (Bridge.tsx) with the      *)
(* token registry behind it (tokens.ts): what the user may choose and when, *)
(* which flow the button starts and the awaits it goes through, live and    *)
(* not in mock mode.  As in Session, a step maps a form to its successors.  *)
(***************************************************************************)
EXTENDS Naturals, Sequences

CONSTANTS
    Sacs,         \* token contracts somebody may paste
    NATIVE_SAC    \* the contract of the native asset, one of them

Invalid == "invalid"          \* typed, but no address
None == "none"

When(guard, next) == IF guard THEN {next} ELSE {}

-----------------------------------------------------------------------------
(* tokens.ts                                                               *)

\* A token that has no contract on this network has none here.
CURATED_TOKENS == {[code |-> "XLM", sac |-> NATIVE_SAC, native |-> TRUE],
                   [code |-> "BTC", sac |-> None, native |-> FALSE]}

depositableTokens == {t \in CURATED_TOKENS : t.sac # None}

BRIDGED_ASSET_CODES == {"bETH"}

\* A custom token is what its contract says; it is never the native one.
resolveCustomToken(sac) == [code |-> sac, sac |-> sac, native |-> FALSE]

assetIdFor(token) == IF token.native THEN "0" ELSE token.sac

\* wraith-pool, asset_id_of: what a withdrawal of that contract's token must
\* have committed to.
asset_id_of(sac) == IF sac = NATIVE_SAC THEN "0" ELSE sac

isWithdrawableTo(l1, code) == (l1 = "ethereum") <=> (code \in BRIDGED_ASSET_CODES)

-----------------------------------------------------------------------------
(* The form                                                                *)

InitialForm ==
    [l1 |-> "stellar", direction |-> "deposit",
     depositToken |-> CHOOSE t \in depositableTokens : TRUE,
     customMode |-> FALSE, customSac |-> "", customError |-> FALSE,
     resolvingCustom |-> FALSE, lookup |-> None,
     withdrawNote |-> "", amountValid |-> FALSE, recipient |-> "",
     status |-> "idle", step |-> 0, error |-> FALSE,
     flow |-> 0, mounted |-> TRUE, asked |-> <<>>]

Running(f) == f.status = "running"
Editable(f) == f.mounted /\ ~Running(f)

\* After customMode or customSac changed: the lookup under way is abandoned,
\* and its ending no longer sets anything.
lookupEffect(f) ==
    IF f.customMode /\ f.customSac \in Sacs
    THEN [f EXCEPT !.lookup = f.customSac, !.resolvingCustom = TRUE,
                   !.customError = FALSE]
    ELSE [f EXCEPT !.lookup = None]

found(f) ==
    When(f.mounted /\ f.lookup # None,
         [f EXCEPT !.depositToken = resolveCustomToken(f.lookup),
                   !.resolvingCustom = FALSE, !.lookup = None])

not_found(f) ==
    When(f.mounted /\ f.lookup # None,
         [f EXCEPT !.customError = TRUE, !.resolvingCustom = FALSE, !.lookup = None])

OnStellarDeposit(f) == Editable(f) /\ f.direction = "deposit" /\ f.l1 = "stellar"

pickToken(f, token) ==
    LET picked == [f EXCEPT !.customMode = FALSE, !.customSac = "",
                            !.customError = FALSE, !.depositToken = token]
    IN  When(OnStellarDeposit(f),
             IF f.customMode \/ f.customSac # "" THEN lookupEffect(picked) ELSE picked)

pickCustom(f) ==
    When(OnStellarDeposit(f) /\ ~f.customMode,
         lookupEffect([f EXCEPT !.customMode = TRUE, !.customError = FALSE]))

typeSac(f, sac) ==
    When(OnStellarDeposit(f) /\ f.customMode /\ f.customSac # sac,
         lookupEffect([f EXCEPT !.customSac = sac]))

typeAmount(f) ==
    When(Editable(f) /\ f.direction = "deposit", [f EXCEPT !.amountValid = TRUE])

typeRecipient(f, recipient) ==
    When(Editable(f) /\ f.direction = "withdraw", [f EXCEPT !.recipient = recipient])

pickNote(f, commitment) ==
    When(Editable(f) /\ f.direction = "withdraw", [f EXCEPT !.withdrawNote = commitment])

\* Notes that the chosen chain takes and whose index is known.
withdrawableNotes(f, notes) ==
    IF f.direction # "withdraw" THEN {}
    ELSE {n \in notes : ~n.spent /\ n.indexed /\ isWithdrawableTo(f.l1, n.code)}

\* The picked note, or the first one that is left.
selectedNote(f, notes) ==
    LET list == withdrawableNotes(f, notes)
        picked == {n \in list : n.commitment = f.withdrawNote}
    IN  IF picked # {} THEN picked
        ELSE IF list = {} THEN {} ELSE {CHOOSE n \in list : TRUE}

cleared(f) ==
    [f EXCEPT !.status = "idle", !.step = 0, !.error = FALSE,
              !.amountValid = FALSE, !.recipient = ""]

defaultRecipient(direction, l1) ==
    IF direction = "withdraw" /\ l1 = "stellar" THEN "stellar" ELSE ""

selectChain(f, next) ==
    When(Editable(f) /\ next # f.l1,
         [cleared([f EXCEPT !.l1 = next]) EXCEPT
            !.recipient = defaultRecipient(f.direction, next)])

flip(f) ==
    LET next == IF f.direction = "deposit" THEN "withdraw" ELSE "deposit"
    IN  When(Editable(f),
             [cleared([f EXCEPT !.direction = next]) EXCEPT
                !.recipient = defaultRecipient(next, f.l1)])

\* "Deposit again", "Withdraw again".
reset(f) == When(f.mounted /\ f.status \in {"done", "error"}, cleared(f))

-----------------------------------------------------------------------------
(* The button                                                              *)

\* What it offers, in the order in which the code looks.  w says how far the
\* wallets are.
action(f, w, notes) ==
    IF Running(f) THEN "working"
    ELSE IF ~w.stellar THEN "connect"
    ELSE IF ~w.identityReady THEN "preparing"
    ELSE IF f.direction = "deposit"
    THEN IF f.l1 = "stellar"
         THEN IF f.resolvingCustom THEN "resolving"
              ELSE IF f.depositToken.sac = None THEN "unavailable"
              ELSE IF ~f.amountValid THEN "amount"
              ELSE "run"
         ELSE IF ~w.evm THEN "connect evm"
              ELSE IF ~w.sepolia THEN "switch"
              ELSE IF ~f.amountValid THEN "amount"
              ELSE "run"
    ELSE IF selectedNote(f, notes) = {} THEN "no note"
         ELSE IF f.recipient # f.l1 THEN "recipient"
         ELSE "run"

\* The awaits each flow goes through: what it asks of the chains, and at last
\* of the balances.
STEPS(direction, l1) ==
    CASE direction = "deposit" /\ l1 = "stellar" -> <<"deposit", "refresh">>
      [] direction = "deposit" /\ l1 = "ethereum" -> <<"lock", "head", "minted", "refresh">>
      [] direction = "withdraw" /\ l1 = "stellar" -> <<"withdraw", "refresh">>
      [] direction = "withdraw" /\ l1 = "ethereum" -> <<>>

Request(f, notes) ==
    IF f.direction = "deposit"
    THEN IF f.l1 = "stellar"
         THEN [what |-> "deposit", l1 |-> f.l1, of |-> f.depositToken,
               assetId |-> assetIdFor(f.depositToken)]
         ELSE [what |-> "deposit", l1 |-> f.l1, of |-> None, assetId |-> "bETH"]
    ELSE [what |-> "withdraw", l1 |-> f.l1, assetId |-> "",
          of |-> CHOOSE n \in selectedNote(f, notes) : TRUE]

fail(f) == [f EXCEPT !.flow = 0, !.status = "error", !.error = TRUE]

\* Live, bridging out to Ethereum throws at once.
run(f, w, notes) ==
    LET started == [f EXCEPT !.status = "running", !.step = 0, !.error = FALSE,
                             !.flow = 1, !.asked = Append(@, Request(f, notes))]
    IN  When(f.mounted /\ action(f, w, notes) = "run",
             IF STEPS(f.direction, f.l1) = <<>> THEN fail(f) ELSE started)

\* The awaited call succeeds, the poll sees what it waits for.
flow_goes_on(f) ==
    LET request == f.asked[Len(f.asked)]
        ended == f.flow = Len(STEPS(request.what, request.l1))
    IN  When(f.mounted /\ f.flow # 0,
             IF ended THEN [f EXCEPT !.flow = 0, !.status = "done"]
             ELSE [f EXCEPT !.flow = @ + 1, !.step = f.flow])

\* It throws, or the poll has gone on for six minutes.
flow_fails(f) == When(f.mounted /\ f.flow # 0, fail(f))

\* The page is left: the polls give up; one call goes on to its end, unseen.
leave(f) == When(f.mounted, [f EXCEPT !.mounted = FALSE, !.lookup = None])

-----------------------------------------------------------------------------
(***************************************************************************)
(* What the deposit and withdrawal form asks for, whatever its user does in *)
(* at most MaxSteps steps.  MCBridge assumes the statements.                *)
(***************************************************************************)

CONSTANT MaxSteps

Wallets == [stellar |-> TRUE, identityReady |-> TRUE, evm |-> TRUE, sepolia |-> TRUE]

Stored(commitment, code, indexed) ==
    [commitment |-> commitment, code |-> code, indexed |-> indexed, spent |-> FALSE]
Notes == {Stored("x", "XLM", TRUE), Stored("y", "bETH", TRUE), Stored("z", "bETH", FALSE)}

\* What changes the text of the contract's address, or the token.
Edits(f) ==
    UNION ({pickToken(f, t) : t \in CURATED_TOKENS}
           \cup {typeSac(f, sac) : sac \in Sacs \cup {Invalid}}
           \cup {pickCustom(f)})

Others(f) ==
    UNION ({pickNote(f, n.commitment) : n \in Notes}
           \cup {selectChain(f, l1) : l1 \in {"stellar", "ethereum"}}
           \cup {typeRecipient(f, f.l1), typeAmount(f), flip(f), reset(f), leave(f),
                 run(f, Wallets, Notes), flow_goes_on(f), flow_fails(f), not_found(f)})

Steps(f) == Edits(f) \cup Others(f) \cup found(f)

Forms ==
    LET Explored[n \in 0 .. MaxSteps] ==
            IF n = 0 THEN [all |-> {InitialForm}, new |-> {InitialForm}]
            ELSE LET before == Explored[n - 1]
                     next == UNION {Steps(f) : f \in before.new}
                     new == {f \in next : Len(f.asked) <= 2} \ before.all
                 IN  [all |-> before.all \cup new, new |-> new]
    IN  Explored[MaxSteps].all

Asked(f) == {f.asked[i] : i \in DOMAIN f.asked}

-----------------------------------------------------------------------------
\* The flow that is under way is the one the form shows, and a withdrawal is
\* of a note that its chain takes and whose index is known.
FlowIsTheForms(forms) ==
    \A f \in forms :
        /\ (f.mounted /\ (Running(f) \/ f.flow # 0)) =>
              /\ Running(f) /\ f.flow = f.step + 1
              /\ f.flow \in DOMAIN STEPS(f.direction, f.l1)
              /\ f.asked[Len(f.asked)] = Request(f, Notes)
        /\ \A r \in Asked(f) : r.what = "withdraw" =>
              r.of.indexed /\ isWithdrawableTo(r.l1, r.of.code)
        /\ f.status = "done" =>
              f.step + 1 = Len(STEPS(f.direction, f.l1))

\* What a curated token's deposit commits to is what the pool asks for when it
\* is withdrawn.  The native contract, pasted as a custom token, is deposited
\* under an asset that no withdrawal will ever match (lib.rs:163).
DepositsRedeemable(forms) ==
    LET Deposits(f) == {r \in Asked(f) : r.what = "deposit" /\ r.l1 = "stellar"}
        Redeemable(r) == r.assetId = asset_id_of(r.of.sac)
    IN  /\ \A f \in forms : \A r \in Deposits(f) :
              Redeemable(r) <=> r.of \in CURATED_TOKENS \/ r.of.sac # NATIVE_SAC
        /\ \E f \in forms : \E r \in Deposits(f) : ~Redeemable(r)

\* In custom mode the last token that was found is what will be deposited,
\* whatever the field says now.
FieldIsNotTheToken(forms) ==
    \E f \in forms : Running(f) /\ f.customMode /\ f.depositToken.sac # f.customSac

\* A lookup that is abandoned leaves the form waiting, and only a lookup that
\* ends makes it wait no more: curated tokens cannot be deposited any longer.
AbandonedLookupSticks(forms) ==
    LET stuck == {f \in forms : f.resolvingCustom /\ f.lookup = None} IN
    /\ \E f \in stuck : ~f.customMode
    /\ \A f \in stuck : \A g \in Edits(f) \cup Others(f) : g.lookup = None => g.resolvingCustom
    /\ \A f \in stuck :
          action(f, Wallets, Notes) = "run" => f.direction = "withdraw" \/ f.l1 = "ethereum"
=============================================================================
