------------------------------- MODULE MCHost -------------------------------
(* What runs on the host, for TLC: Chat's replies (ChatRun), the VMs of    *)
(* Windows (QemuVM) and the coding agents (AgentSessions).  The parts      *)
(* share no state: a behaviour runs the one sys names.                     *)
EXTENDS ChatRun, QemuVM, AgentSessions, TLC

CONSTANTS c1, c2, m1, m2, v1, v2, r1, r2

VARIABLES sys

AllVars == <<sys, vars, qemuVars, agentVars>>

-----------------------------------------------------------------------------
(* Where a part may start in several states, one stands in while another   *)
(* part runs.                                                              *)
AllInit ==
    /\ sys \in {"chat", "qemu", "agents"}
    /\ Init /\ QemuInit /\ AgentsInit
    /\ sys # "agents" => ~other

AllNext ==
    /\ UNCHANGED sys
    /\ \/ sys = "chat" /\ Next /\ UNCHANGED <<qemuVars, agentVars>>
       \/ sys = "qemu" /\ QemuNext /\ UNCHANGED <<vars, agentVars>>
       \/ sys = "agents" /\ AgentsNext /\ UNCHANGED <<vars, qemuVars>>

AllSpec == AllInit /\ [][AllNext]_AllVars

(* Requests are interchangeable, and so are messages.                      *)
Symmetry == Permutations({c1, c2}) \cup Permutations({m1, m2})

=============================================================================
