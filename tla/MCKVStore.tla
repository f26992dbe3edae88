----------------------------- MODULE MCKVStore -----------------------------
(* Instances of KVStore for TLC.                                           *)
EXTENDS KVStore

CONSTANTS k1, k2, k3, small, big

(* k1 and k2 collide in the RAM table, k3 sorts after them.                *)
MCHash == [k \in Keys |-> IF k = k3 THEN 3 ELSE 7]

(* A big record takes two pages.                                           *)
MCPages == (small :> 1) @@ (big :> 2)

(* k1 and k2 have the same hash and are used alike.                        *)
MCSymmetry == Permutations({k1, k2})
=============================================================================
