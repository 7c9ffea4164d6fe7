------------------------------ MODULE MCLRUCache -------------------------------
(***************************************************************************)
(* TLC instance of LRUCache: three keys of which one is twice as large, and *)
(* limits that hold one, two or all of them.                                *)
(***************************************************************************)
EXTENDS LRUCache, TLC

CONSTANTS k1, k2, k3

KeySet == {k1, k2, k3}
BytesOf == [k \in KeySet |-> IF k = k3 THEN 2 ELSE 1]
Alike == Permutations({k1, k2})
===============================================================================
