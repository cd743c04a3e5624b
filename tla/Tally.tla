-------------------------------- MODULE Tally --------------------------------
(***************************************************************************)
(* Sums over finite sets, as counts.  A member x of S that weighs f[x]     *)
(* stands for f[x] units <<x, 1>> .. <<x, f[x]>>, and the total of S is    *)
(* the number of units.  It is what SumFunctionOnSet of the community      *)
(* modules computes (MCWraithPool checks it); stated this way, its laws are *)
(* laws of Cardinality and can be proved without an induction.             *)
(***************************************************************************)
EXTENDS Integers, FiniteSets

Units(S, f) == UNION {{x} \X (1 .. f[x]) : x \in S}
Total(S, f) == Cardinality(Units(S, f))
=============================================================================
