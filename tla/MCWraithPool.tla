---------------------------- MODULE MCWraithPool ----------------------------
(* Two parts of the pool on small instances.  Prices are multiples of 1/2  *)
(* and "64-bit" values are 0 .. 3, so that a lock can exceed them.         *)
EXTENDS WraithPool

\* Without orders: every deposit, bridge mint, transfer and withdrawal.
NotesNext == Edge \/ Pay
NotesSpec == Init /\ [][NotesNext]_vars

\* Without transfers: notes are placed, matched, cancelled and withdrawn.
SwapNext == Edge \/ Swap
SwapSpec == Init /\ [][SwapNext]_vars

MCAssets == {"base", "quote"}
MCPairs == {<<"base", "quote">>}

\* The community modules' sum and Total agree.
ASSUME TotalIsSum ==
    \A f \in [1 .. 3 -> 0 .. 2] : \A S \in SUBSET (1 .. 3) :
        Total(S, f) = SumFunctionOnSet(f, S)
=============================================================================
