------------------------------- MODULE MCVMs -------------------------------
(* The Linux VM manager for TLC: under systemd, where VMs outlive the      *)
(* daemon (FirecrackerVM's own variables; the cfg's constants for more     *)
(* requests, Twice for more stops), and where they die with it and names   *)
(* are deleted too (Mortal, with variables of its own).  A behaviour runs  *)
(* the one sys names.                                                      *)
EXTENDS FirecrackerVM, TLC

CONSTANTS a, c1, c2

VARIABLES sys

VARIABLES dir2, meta2, rec2, tap2, procs2, autostart2, up2, running2,
          waits2, stops2, locks2, auto2, cl2, fresh2, left2

(* Fewer requests, and a second stop, crash or reboot: a guest that was    *)
(* adopted is adopted again.                                               *)
Twice == INSTANCE FirecrackerVM WITH MaxOps <- 2, MaxDowns <- 2

(* One name, beside its Delete; a failing step, a stop or crash of the     *)
(* daemon.                                                                 *)
Mortal == INSTANCE FirecrackerVM
            WITH dir <- dir2, meta <- meta2, rec <- rec2, tap <- tap2, procs <- procs2,
                 autostart <- autostart2, up <- up2, running <- running2,
                 waits <- waits2, stops <- stops2, locks <- locks2, auto <- auto2,
                 cl <- cl2, fresh <- fresh2, left <- left2, Keep <- FALSE,
                 Ops <- {"create", "start", "stop", "delete"},
                 MaxOps <- 3, MaxFaults <- 1, MaxDowns <- 1

MortalVars == <<dir2, meta2, rec2, tap2, procs2, autostart2, up2,
                running2, waits2, stops2, locks2, auto2, cl2, fresh2,
                left2>>
AllVars == <<sys, vars, MortalVars>>

AllInit == sys \in {"kept", "twice", "mortal"} /\ Init /\ Mortal!Init

AllNext ==
    /\ UNCHANGED sys
    /\ \/ sys = "kept" /\ Next /\ UNCHANGED MortalVars
       \/ sys = "twice" /\ Twice!Next /\ UNCHANGED MortalVars
       \/ sys = "mortal" /\ Mortal!Next /\ UNCHANGED vars

(* Fairness, where requests are waited for.                                *)
AllFairness ==
    /\ \A c \in Request : SF_MortalVars(sys = "mortal" /\ Mortal!Step(c))
    /\ WF_MortalVars(sys = "mortal" /\ Mortal!Ended)
    /\ WF_MortalVars(sys = "mortal" /\ \E p \in procs2 : Mortal!Killed(p) /\ Mortal!GuestExits(p))

AllSpec == AllInit /\ [][AllNext]_AllVars /\ AllFairness

(* Create, Start, Stop and Delete of one name beside each other, a failing *)
(* step, a stop or crash of the daemon: every request returns.             *)
RequestsReturn == Mortal!RequestsFinish
=============================================================================
