------------------------------ MODULE MCFontCache ------------------------------
(***************************************************************************)
(* TLC instance of FontCache: two fonts in memory, of which limits leave    *)
(* room for one, a mapped one, and one that cannot be loaded.               *)
(***************************************************************************)
EXTENDS FontCache, TLC

CONSTANTS f1, f2, m, x, o1, o2, o3, s1, s2

FileSizes == [id \in {f1, f2, m, x} |-> 1]

Alike == Permutations({o1, o2, o3}) \cup Permutations({s1, s2}) \cup Permutations({f1, f2})
===============================================================================
