--------------------------- MODULE MCRestingOrder ---------------------------
(* A small arithmetic in which floors, halves and truncation all happen:   *)
(* prices are multiples of 1/3, "64-bit" values are 0..7.                  *)
EXTENDS RestingOrder

MCPrices == 1 .. 7
MCSizes == 0 .. 7
=============================================================================
