------------------------- MODULE MCCacheGenerations -------------------------
(* A small instance of CacheGenerations: two workers on one host, one on    *)
(* another, two keys.                                                       *)
EXTENDS CacheGenerations, TLC

CONSTANTS w1, w2, w3, h1, h2, k1, k2

Symmetry == Permutations({w1, w2}) \cup Permutations({k1, k2})   \* alike
MCHostOf == [w \in Workers |-> IF w = w3 THEN h2 ELSE h1]
=============================================================================
