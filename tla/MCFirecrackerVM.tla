-------------------------- MODULE MCFirecrackerVM --------------------------
(* FirecrackerVM for TLC.                                                  *)
EXTENDS FirecrackerVM, TLC

CONSTANTS a, b, c1, c2

Symmetry == Permutations(Client)
=============================================================================
