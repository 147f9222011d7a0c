---------------------------- MODULE MCChatRun ----------------------------
(* Small instances of ChatRun for TLC.                                    *)
EXTENDS ChatRun, TLC

CONSTANTS m1, m2, c1, c2

(* Messages and handlers are interchangeable.                             *)
Symmetry == Permutations(Msg) \cup Permutations(Client)
==========================================================================
