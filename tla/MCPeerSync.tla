---------------------------- MODULE MCPeerSync ----------------------------
(* PeerSync for TLC: plain files (whole-file last-writer-wins by hash).    *)
EXTENDS PeerSync, TLC

CONSTANTS a, b

(* Bodies are numbers ranked by their hash; the empty body ranks last but  *)
(* one, so that losing to it and beating it both happen.                   *)
MCHash(x) == IF x = NoFile THEN 15 ELSE 10 * x
MCMerge(x, y) == x
MCGuard(x, y) == y

Symmetry == Permutations(Node)
=============================================================================
