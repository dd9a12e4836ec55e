--------------------------- MODULE MCClientCalls ---------------------------
(* Instances of ClientCalls: one state property and one uncacheable one.    *)
EXTENDS ClientCalls

CONSTANTS k1, k2

MCKeys == {k1, k2}   \* k1 is cacheable, k2 is not
MCPartitionOf == [k \in MCKeys |-> IF k = k1 THEN "state" ELSE NoPartition]
=============================================================================
