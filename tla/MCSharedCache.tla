--------------------------- MODULE MCSharedCache ---------------------------
(* Small instances of SharedCache: one or two workers, up to three keys.    *)
EXTENDS SharedCache, TLC

CONSTANTS w1, w2, k1, k2, k3, state, object

MCWorkers == {w1, w2}
MCParts == {state, object}
MCPartOf == [k \in Keys |-> IF k = k3 THEN object ELSE state]
MCMaxEntries == [p \in Parts |-> IF p = state THEN 1 ELSE 2]
MCTtl == [p \in Parts |-> IF p = state THEN 1 ELSE 2]
Symmetry == Permutations(Workers)     \* the workers are alike
MCReadPartitions == <<{state}, {object}>>
MCOnePartition == <<{object}>>
=============================================================================
