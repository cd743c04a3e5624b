--------------------------- MODULE ShieldedLedger ---------------------------
(***************************************************************************)
(* What the shielded pool promises, with no trees, nullifiers or orders:   *)
(* value enters and leaves only at the public edge, by the amount that     *)
(* crosses it, and whatever happens in between never creates any.          *)
(***************************************************************************)
EXTENDS Integers

CONSTANT Assets

VARIABLES
    reserve,   \* what backs the shielded layer: tokens held, bridge mints
    claims     \* what the shielded layer owes: notes and locked orders

ledgerVars == <<reserve, claims>>

Init == /\ reserve = [a \in Assets |-> 0]
        /\ claims = [a \in Assets |-> 0]

\* Value of asset a crosses the edge inwards: claims rise by at most as much.
Enter(a) ==
    /\ reserve' \in [Assets -> Nat] /\ claims' \in [Assets -> Nat]
    /\ reserve'[a] > reserve[a]
    /\ \A b \in Assets \ {a} : reserve'[b] = reserve[b]
    /\ claims'[a] - claims[a] <= reserve'[a] - reserve[a]
    /\ \A b \in Assets \ {a} : claims'[b] <= claims[b]

\* Value of asset a leaves: at least as much is given up inside.
Exit(a) ==
    /\ reserve' \in [Assets -> Nat] /\ claims' \in [Assets -> Nat]
    /\ reserve'[a] < reserve[a]
    /\ \A b \in Assets \ {a} : reserve'[b] = reserve[b]
    /\ claims[a] - claims'[a] >= reserve[a] - reserve'[a]
    /\ \A b \in Assets \ {a} : claims'[b] <= claims[b]

\* Notes and orders are exchanged inside: no claim on any asset grows.
Settle ==
    /\ UNCHANGED reserve
    /\ claims' \in [Assets -> Nat]
    /\ \A b \in Assets : claims'[b] <= claims[b]

Next == \/ \E a \in Assets : Enter(a) \/ Exit(a)
        \/ Settle

Spec == Init /\ [][Next]_ledgerVars

-----------------------------------------------------------------------------
\* Everything owed inside is backed, asset by asset.
Solvent == \A a \in Assets : claims[a] <= reserve[a]
=============================================================================
