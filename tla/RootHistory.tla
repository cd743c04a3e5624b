---------------------------- MODULE RootHistory ----------------------------
(* push_root of merkle.rs, and the sdk's copy of it in merkle.ts: append a *)
(* root, then drop the oldest while there are too many.                    *)
EXTENDS Integers, Sequences

CONSTANT ROOT_HISTORY    \* how many roots stay acceptable (100 in both)

KeepLast_Oldest(s) == IF Len(s) <= ROOT_HISTORY THEN s
                      ELSE SubSeq(s, 1, ROOT_HISTORY)
KeepLast(s) == IF Len(s) <= ROOT_HISTORY THEN s
               ELSE SubSeq(s, Len(s) - ROOT_HISTORY + 1, Len(s))
=============================================================================
