--------------------------- MODULE MCMixedReceive ---------------------------
(* Small instances of MixedReceive. *)
EXTENDS MixedReceive, TLC

CONSTANTS p1, p2

MCPeers == {p1, p2}
MCOnePeer == {p1}
Symmetry == Permutations(MCPeers)
=============================================================================
