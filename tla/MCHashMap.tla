------------------------------ MODULE MCHashMap ------------------------------
(***************************************************************************)
(* A table of three colliding keys that starts at two slots (one of them   *)
(* usable) and may grow twice.                                             *)
(***************************************************************************)
EXTENDS HashMap

CONSTANTS k1, k2, k3

(* k1, k2 and Key{} share a home slot at every capacity; k3's is the next  *)
(* one in the small table and another in the larger ones.                  *)
MCHash == [k \in AllKeys |-> CASE k = k1 -> 3
                               [] k = k2 -> 3
                               [] k = k3 -> 4
                               [] OTHER  -> 3]
=============================================================================
