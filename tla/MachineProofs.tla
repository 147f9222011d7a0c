--------------------------- MODULE MachineProofs ---------------------------
(***************************************************************************)
(* Machines and what runs in them, for any number of them, of requests and *)
(* of crashes: the runtime and the installer of a Mac (MacSetup), the      *)
(* addresses and disks of the VMs under QEMU (QemuVM), and the agents'     *)
(* sessions over restarts of the host (AgentSessions).                     *)
(***************************************************************************)
EXTENDS MacSetup, QemuVM, AgentSessions, TLAPS, NaturalsInduction, WellFoundedInduction

(* A set of natural numbers has a smallest one.                            *)
LEMMA Smallest ==
    ASSUME NEW S, S \subseteq Nat, S # {}
    PROVE  \E s \in S : \A t \in S : s <= t
<1>1. PICK s \in S : \A t \in S : ~(<<t, s>> \in OpToRel(<, Nat))
  BY NatLessThanWellFounded, WFMin, Zenon
<1>2. \A t \in S : ~(t < s)
  BY <1>1 DEF OpToRel
<1> QED BY <1>2

-----------------------------------------------------------------------------
(* Macs.                                                                   *)
Phase == {"new", "setup", "error", "interrupted", "installing", "ready", "stopped"}
Place == InRuntime \cup {"idle", "runtime", "media", "verify", "disk", "launch", "settle"}
Dir   == {"none", "old", "own"}

(* The types the two proofs need.                                          *)
MacTypes ==
    /\ phase \in [Mac -> Phase] /\ active \in [Mac -> BOOLEAN]
    /\ cancelled \in [Mac -> BOOLEAN]
    /\ saved \in [Mac -> [phase : Phase, active : BOOLEAN]]
    /\ installed \in [Mac -> BOOLEAN]
    /\ qemu \in [Mac -> {"off", "coming", "on"}] /\ boot \in [Mac -> {"cd", "disk"}]
    /\ pc \in [Mac -> Place]
    /\ runtime \in Dir /\ previous \in Dir /\ had \in BOOLEAN

-----------------------------------------------------------------------------
(* The runtime.  One worker at a time is under runtimeMu, and where it is  *)
(* says which of the two directories may be missing.                       *)
RuntimeInv ==
    /\ \A m, k \in Mac : pc[m] \in InRuntime /\ pc[k] \in InRuntime => m = k
    /\ \A m \in Mac :
         /\ pc[m] \in {"fetch", "clear"} => runtime /= "none" \/ previous = "none"
         /\ pc[m] = "away" => previous = "none"
         /\ pc[m] = "sweep" => runtime /= "none"
    /\ RuntimeKept

(* The installer.  A Mac that is "installing" with no worker has its QEMU  *)
(* on or off, never coming up; a worker's Mac is in setup, on file too.   *)
InstallerInv ==
    /\ \A m \in Mac :
         /\ pc[m] /= "idle" => active[m] /\ phase[m] = "setup" /\ saved[m].phase = "setup"
         /\ phase[m] = "installing" => qemu[m] /= "coming"
         /\ saved[m].phase = "installing" => qemu[m] /= "coming"
    /\ InstallerOffInstalled

-----------------------------------------------------------------------------
(* Every step keeps the types.                                             *)
LEMMA MacTypesKept == Spec => []MacTypes
<1>1. Init => MacTypes
  BY DEF Init, MacTypes, Phase, Place, Dir, InRuntime
<1>2. MacTypes /\ [Next]_vars => MacTypes'
  <2> SUFFICES ASSUME MacTypes, [Next]_vars PROVE MacTypes'
    OBVIOUS
  <2> USE DEF MacTypes
  <2>1. CASE UNCHANGED vars
    BY <2>1 DEF vars, mac, files, guest, dirs, counts
  <2>2. CASE Restart
    BY <2>2 DEF Restart, Reopened, Running, Phase, Place, files, guest, dirs
  <2>3. ASSUME NEW m \in Mac, Start(m) PROVE MacTypes'
    <3>1. phase' \in [Mac -> Phase]
      BY <2>3 DEF Start, Phase
    <3>2. /\ active' \in [Mac -> BOOLEAN] /\ cancelled' \in [Mac -> BOOLEAN]
          /\ saved' \in [Mac -> [phase : Phase, active : BOOLEAN]]
          /\ pc' \in [Mac -> Place]
      <4>1. CASE UNCHANGED <<active, cancelled, saved, pc>>
        BY <4>1
      <4>2. CASE ~UNCHANGED <<active, cancelled, saved, pc>>
        <5>1. /\ active' = [active EXCEPT ![m] = TRUE]
              /\ cancelled' = [cancelled EXCEPT ![m] = FALSE]
              /\ saved' = [saved EXCEPT ![m] = [phase |-> "setup", active |-> TRUE]]
              /\ pc' = [pc EXCEPT ![m] = "runtime"]
          BY <2>3, <4>2 DEF Start
        <5> QED BY <5>1 DEF Phase, Place
      <4> QED BY <4>1, <4>2
    <3> QED BY <2>3, <3>1, <3>2 DEF Start, files, guest, dirs
  <2>4. ASSUME NEW m \in Mac, Cancel(m) PROVE MacTypes'
    BY <2>4 DEF Cancel, files, guest, dirs
  <2>5. ASSUME NEW m \in Mac, Worker(m) PROVE MacTypes'
    <3> DEFINE Typed == /\ phase \in [Mac -> Phase] /\ active \in [Mac -> BOOLEAN]
                        /\ cancelled \in [Mac -> BOOLEAN]
                        /\ saved \in [Mac -> [phase : Phase, active : BOOLEAN]]
                        /\ pc \in [Mac -> Place]
    <3>0. ASSUME NEW p \in Phase, Ends(m, p) PROVE Typed'
      BY <3>0 DEF Ends, Place
    <3>1. Failed(m) => Typed'
      BY <3>0 DEF Failed, Phase
    <3>2. ASSUME NEW p \in Place, GoTo(m, p) PROVE Typed'
      BY <3>2 DEF GoTo, mac
    <3>3. CASE Fails(m)
      BY <3>1, <3>3 DEF Fails, files, guest, dirs
    <3>4. CASE ensureRuntime(m)
      BY <3>4 DEF ensureRuntime, recoverRuntime, mac, files, guest, Place, InRuntime
    <3>5. CASE RuntimeServes(m) \/ Staged(m)
      BY <3>2, <3>5 DEF RuntimeServes, Staged, files, guest, dirs, Place, InRuntime
    <3>6. CASE ClearPrevious(m)
      BY <3>1, <3>2, <3>6 DEF ClearPrevious, files, guest, Place, InRuntime, Dir
    <3>7. CASE MoveAway(m)
      BY <3>2, <3>7 DEF MoveAway, files, guest, Place, InRuntime, Dir
    <3>8. CASE PutInPlace(m)
      BY <3>1, <3>2, <3>8 DEF PutInPlace, recoverRuntime, files, guest, Place, InRuntime, Dir
    <3>9. CASE Sweep(m)
      BY <3>1, <3>2, <3>9 DEF Sweep, files, guest, Place, InRuntime, Dir
    <3>10. CASE fetch(m)
      BY <3>10 DEF fetch, mac, guest, dirs
    <3>11. CASE verifyFile(m) \/ DiskReady(m)
      BY <3>1, <3>2, <3>11 DEF verifyFile, DiskReady, guest, dirs, Place
    <3>12. CASE launch(m)
      BY <3>2, <3>12 DEF launch, files, guest, dirs, Place
    <3>13. CASE Settled(m)
      BY <3>0, <3>1, <3>13 DEF Settled, files, guest, dirs, Phase
    <3> QED BY <2>5, <3>3, <3>4, <3>5, <3>6, <3>7, <3>8, <3>9, <3>10, <3>11, <3>12, <3>13
            DEF Worker
  <2>6. ASSUME NEW m \in Mac, QemuUp(m) \/ QemuEnds(m) PROVE MacTypes'
    BY <2>6 DEF QemuUp, QemuEnds, mac, files, dirs
  <2>7. ASSUME NEW m \in Mac, Finish(m) PROVE MacTypes'
    BY <2>7 DEF Finish, guest, dirs, Phase
  <2> QED BY <2>1, <2>2, <2>3, <2>4, <2>5, <2>6, <2>7 DEF Next
<1> QED BY <1>1, <1>2, PTL DEF Spec

-----------------------------------------------------------------------------
(* A runtime once in place is never lost, wherever activateRuntime is cut  *)
(* short and whichever Mac's setup comes next.                             *)
THEOREM RuntimeSurvives == Spec => []RuntimeKept
<1>1. Init => RuntimeInv
  BY DEF Init, RuntimeInv, RuntimeKept, InRuntime
<1>2. MacTypes /\ RuntimeInv /\ [Next]_vars => RuntimeInv'
  <2> SUFFICES ASSUME MacTypes, RuntimeInv, [Next]_vars PROVE RuntimeInv'
    OBVIOUS
  <2>0. pc \in [Mac -> Place]
    BY DEF MacTypes
  <2>a. ASSUME UNCHANGED dirs, NEW m \in Mac,
               pc' = pc \/ \E p \in Place \ InRuntime : pc' = [pc EXCEPT ![m] = p]
        PROVE  RuntimeInv'
    BY <2>0, <2>a DEF RuntimeInv, RuntimeKept, InRuntime, dirs
  <2>1. CASE UNCHANGED vars
    BY <2>1 DEF RuntimeInv, RuntimeKept, vars, dirs
  <2>2. CASE Restart
    BY <2>2 DEF Restart, RuntimeInv, RuntimeKept, InRuntime, dirs
  <2>3. ASSUME NEW m \in Mac, Start(m) \/ Cancel(m) \/ QemuUp(m) \/ QemuEnds(m) \/ Finish(m)
        PROVE  RuntimeInv'
    <3>1. UNCHANGED dirs /\ (pc' = pc \/ pc' = [pc EXCEPT ![m] = "runtime"])
      BY <2>3 DEF Start, Cancel, QemuUp, QemuEnds, Finish
    <3> QED BY <3>1, <2>a DEF Place, InRuntime
  <2>4. ASSUME NEW m \in Mac, Worker(m) PROVE RuntimeInv'
    <3>0. Failed(m) => pc' = [pc EXCEPT ![m] = "idle"]
      BY DEF Failed, Ends
    <3>1. CASE Fails(m) \/ fetch(m) \/ verifyFile(m) \/ DiskReady(m) \/ launch(m) \/ Settled(m)
      <4>1. UNCHANGED dirs
        BY <3>1 DEF Fails, fetch, verifyFile, DiskReady, launch, Settled
      <4>2. \/ pc' = pc
            \/ pc' = [pc EXCEPT ![m] = "idle"] \/ pc' = [pc EXCEPT ![m] = "disk"]
            \/ pc' = [pc EXCEPT ![m] = "launch"] \/ pc' = [pc EXCEPT ![m] = "settle"]
        BY <3>0, <3>1 DEF Fails, fetch, verifyFile, DiskReady, launch, Settled, Ends, GoTo
      <4> QED BY <4>1, <4>2, <2>a DEF Place, InRuntime
    <3>2. CASE ensureRuntime(m)
      <4>1. pc' = [pc EXCEPT ![m] = "fetch"] /\ had' = had
            /\ \A k \in Mac : pc[k] \notin InRuntime
        BY <3>2 DEF ensureRuntime, RuntimeMuFree
      <4>2. /\ runtime' /= "none" \/ previous' = "none"
            /\ RuntimeKept'
        BY <3>2, <4>1 DEF ensureRuntime, recoverRuntime, RuntimeInv, RuntimeKept
      <4> QED BY <2>0, <4>1, <4>2 DEF RuntimeInv, InRuntime
    <3>3. ASSUME pc[m] \in InRuntime, NEW p \in Place, pc' = [pc EXCEPT ![m] = p],
                 p \in {"fetch", "clear"} => runtime' /= "none" \/ previous' = "none",
                 p = "away" => previous' = "none",
                 p = "sweep" => runtime' /= "none",
                 RuntimeKept'
          PROVE  RuntimeInv'
      BY <2>0, <3>3 DEF RuntimeInv, InRuntime
    <3>4. CASE RuntimeServes(m) \/ Staged(m)
      <4>1. /\ pc[m] = "fetch" /\ UNCHANGED dirs
            /\ \E p \in {"disk", "media", "clear"} : pc' = [pc EXCEPT ![m] = p]
        BY <3>4 DEF RuntimeServes, Staged, At, GoTo
      <4>2. RuntimeKept' /\ (runtime' /= "none" \/ previous' = "none")
        BY <4>1 DEF RuntimeInv, RuntimeKept, dirs
      <4> QED BY <3>3, <4>1, <4>2 DEF InRuntime, Place
    <3>5. CASE ClearPrevious(m)
      <4>1. /\ pc[m] = "clear" /\ UNCHANGED <<runtime, had>>
            /\ \/ previous' = "none" /\ pc' = [pc EXCEPT ![m] = "away"]
               \/ previous' = previous /\ pc' = [pc EXCEPT ![m] = "idle"]
        BY <3>0, <3>5 DEF ClearPrevious, At, GoTo
      <4>2. RuntimeKept'
        BY <4>1 DEF RuntimeInv, RuntimeKept
      <4> QED BY <3>3, <4>1, <4>2 DEF InRuntime, Place
    <3>6. CASE MoveAway(m)
      <4>1. /\ pc[m] = "away" /\ pc' = [pc EXCEPT ![m] = "put"]
            /\ previous' = runtime /\ had' = had
        BY <3>6 DEF MoveAway, At, GoTo
      <4>2. RuntimeKept'
        BY <4>1 DEF RuntimeInv, RuntimeKept
      <4> QED BY <3>3, <4>1, <4>2 DEF InRuntime, Place
    <3>7. CASE PutInPlace(m)
      <4>1. /\ pc[m] = "put"
            /\ \/ pc' = [pc EXCEPT ![m] = "sweep"] /\ runtime' = "own"
               \/ pc' = [pc EXCEPT ![m] = "idle"] /\ recoverRuntime /\ had' = had
        BY <3>0, <3>7 DEF PutInPlace, At, GoTo
      <4>2. RuntimeKept'
        BY <4>1 DEF RuntimeInv, RuntimeKept, recoverRuntime
      <4> QED BY <3>3, <4>1, <4>2 DEF InRuntime, Place
    <3>8. CASE Sweep(m)
      <4>1. /\ pc[m] = "sweep" /\ UNCHANGED <<runtime, had>>
            /\ \E p \in {"idle", "disk", "media"} : pc' = [pc EXCEPT ![m] = p]
        BY <3>0, <3>8 DEF Sweep, At, GoTo
      <4>2. RuntimeKept'
        BY <4>1 DEF RuntimeInv, RuntimeKept
      <4> QED BY <3>3, <4>1, <4>2 DEF InRuntime, Place
    <3> QED BY <2>4, <3>1, <3>2, <3>4, <3>5, <3>6, <3>7, <3>8 DEF Worker
  <2> QED BY <2>1, <2>2, <2>3, <2>4 DEF Next
<1>3. RuntimeInv => RuntimeKept
  BY DEF RuntimeInv
<1> QED BY <1>1, <1>2, <1>3, MacTypesKept, PTL DEF Spec

-----------------------------------------------------------------------------
(* Finish, launch, the end of a worker and a new daemon's look at the Macs *)
(* never put the installer over a confirmed system.                        *)
THEOREM InstallerStaysOff == Spec => []InstallerOffInstalled
<1>1. Init => InstallerInv
  BY DEF Init, InstallerInv, InstallerOffInstalled
<1>2. MacTypes /\ InstallerInv /\ [Next]_vars => InstallerInv'
  <2> SUFFICES ASSUME MacTypes, InstallerInv, [Next]_vars PROVE InstallerInv'
    OBVIOUS
  <2> USE DEF InstallerInv, InstallerOffInstalled
  <2>0. /\ phase \in [Mac -> Phase] /\ active \in [Mac -> BOOLEAN]
        /\ saved \in [Mac -> [phase : Phase, active : BOOLEAN]]
        /\ installed \in [Mac -> BOOLEAN]
        /\ qemu \in [Mac -> {"off", "coming", "on"}] /\ boot \in [Mac -> {"cd", "disk"}]
        /\ pc \in [Mac -> Place]
    BY DEF MacTypes
  <2>1. CASE UNCHANGED vars
    BY <2>1 DEF vars, mac, files, guest
  <2>2. CASE Restart
    BY <2>0, <2>2 DEF Restart, Reopened, Running, files, guest
  <2>3. ASSUME NEW m \in Mac, Start(m) PROVE InstallerInv'
    <3>1. CASE pc' = [pc EXCEPT ![m] = "runtime"]
      BY <2>0, <2>3, <3>1 DEF Start, files, guest
    <3>2. CASE phase' = [phase EXCEPT ![m] = "error"] /\ UNCHANGED <<active, cancelled, saved, pc>>
      BY <2>0, <2>3, <3>2 DEF Start, files, guest
    <3> QED BY <2>3, <3>1, <3>2 DEF Start
  <2>4. ASSUME NEW m \in Mac, Cancel(m) PROVE InstallerInv'
    BY <2>4 DEF Cancel, files, guest
  <2>5. ASSUME NEW m \in Mac, Worker(m) PROVE InstallerInv'
    <3>1. ASSUME NEW p \in Phase, Ends(m, p), UNCHANGED <<installed, guest>>,
                 p = "installing" => qemu[m] = "on"
          PROVE  InstallerInv'
      BY <2>0, <3>1 DEF Ends, guest
    <3>2. ASSUME NEW p, GoTo(m, p), UNCHANGED <<installed, guest>>, pc[m] /= "idle"
          PROVE  InstallerInv'
      BY <2>0, <3>2 DEF GoTo, mac, guest
    <3>3. ASSUME Failed(m), UNCHANGED <<installed, guest>> PROVE InstallerInv'
      BY <3>1, <3>3 DEF Failed, Phase
    <3>4. CASE Fails(m) \/ RuntimeServes(m) \/ Staged(m) \/ ClearPrevious(m)
               \/ PutInPlace(m) \/ Sweep(m) \/ verifyFile(m) \/ DiskReady(m) \/ MoveAway(m)
      <4>1. UNCHANGED <<installed, guest>> /\ pc[m] /= "idle"
        BY <3>4 DEF Fails, RuntimeServes, Staged, ClearPrevious, PutInPlace, Sweep,
                    verifyFile, DiskReady, MoveAway, At, files
      <4>2. Failed(m) \/ \E p \in Place : GoTo(m, p)
        BY <3>4 DEF Fails, RuntimeServes, Staged, ClearPrevious, PutInPlace, Sweep,
                    verifyFile, DiskReady, MoveAway, Place, InRuntime
      <4> QED BY <3>2, <3>3, <4>1, <4>2
    <3>5. CASE ensureRuntime(m)
      BY <2>0, <3>5 DEF ensureRuntime, At, mac, files, guest
    <3>6. CASE fetch(m)
      BY <3>6 DEF fetch, mac, guest
    <3>7. CASE launch(m)
      <4>1. /\ pc[m] = "launch" /\ pc' = [pc EXCEPT ![m] = "settle"]
            /\ UNCHANGED <<phase, active, saved, installed>>
        BY <3>7 DEF launch, At, GoTo, mac, files
      <4>2. CASE UNCHANGED guest
        BY <2>0, <4>1, <4>2 DEF guest
      <4>3. CASE /\ qemu' = [qemu EXCEPT ![m] = "coming"]
                 /\ boot' = [boot EXCEPT ![m] = IF installed[m] THEN "disk" ELSE "cd"]
        <5>1. phase[m] = "setup" /\ saved[m].phase /= "installing"
          BY <4>1
        <5> QED BY <2>0, <4>1, <4>3, <5>1
      <4> QED BY <3>7, <4>2, <4>3 DEF launch
    <3>8. CASE Settled(m)
      <4>1. UNCHANGED <<installed, guest>>
        BY <3>8 DEF Settled, files
      <4> QED BY <3>1, <3>3, <3>8, <4>1 DEF Settled, Running, Phase
    <3> QED BY <2>5, <3>4, <3>5, <3>6, <3>7, <3>8 DEF Worker
  <2>6. ASSUME NEW m \in Mac, QemuUp(m) \/ QemuEnds(m) PROVE InstallerInv'
    BY <2>0, <2>6 DEF QemuUp, QemuEnds, mac, files
  <2>7. ASSUME NEW m \in Mac, Finish(m) PROVE InstallerInv'
    BY <2>0, <2>7 DEF Finish, Running, guest
  <2> QED BY <2>1, <2>2, <2>3, <2>4, <2>5, <2>6, <2>7 DEF Next
<1>3. InstallerInv => InstallerOffInstalled
  BY DEF InstallerInv
<1> QED BY <1>1, <1>2, <1>3, MacTypesKept, PTL DEF Spec

-----------------------------------------------------------------------------
(* VMs under QEMU.                                                         *)
Pcs == Locked \cup {"idle", "lock"}
Request == [op : Kinds \cup {"none"}, vm : VM \cup {NoVM}, gen : Nat, pc : Pcs, proc : Nat]
Child == [vm : VM \cup {NoVM}, alive : BOOLEAN, reaped : BOOLEAN, job : BOOLEAN]

QemuTypes ==
    /\ dir \in [VM -> {"none", "bare", "whole"}]
    /\ addr \in [VM -> Nat]
    /\ gen \in [VM -> Nat]
    /\ req \in [Req -> Request]
    /\ running \in [VM -> Nat]
    /\ proc \in [Proc -> Child]
    /\ \A r \in Req : req[r].pc /= "idle" => req[r].vm \in VM
    /\ \A p \in Proc : ~proc[p].reaped => proc[p].vm \in VM

(* One Create at a time is in createMu, and what it has chosen no VM with  *)
(* a vm.json claims.                                                       *)
CreateAlone ==
    /\ \A q, r \in Req : req[q].pc \in InCreate /\ req[r].pc \in InCreate => q = r
    /\ \A r \in Req, w \in VM : req[r].pc \in {"fill", "save"} /\ w /= req[r].vm /\ dir[w] = "whole"
                                  => addr[w] /= addr[req[r].vm]

AddressInv == QemuTypes /\ CreateAlone /\ DistinctAddresses

(* A mutex has one holder.  On a name nobody strayed to, the holder has    *)
(* the mutex m.locks holds, so no two hold one each; a Start there spawns  *)
(* only while nothing runs, and what is not reaped is what runs.           *)
HolderAlone ==
    \A q, r \in Req : req[q].pc \in Locked /\ req[r].pc \in Locked
                      /\ req[q].vm = req[r].vm /\ req[q].gen = req[r].gen => q = r
Straight(v) ==
    /\ \A r \in Req : req[r].pc \in Locked /\ req[r].vm = v =>
          req[r].gen = gen[v] /\ (req[r].pc = "spawn" => running[v] = 0)
    /\ \A p \in Proc : ~proc[p].reaped /\ proc[p].vm = v => running[v] = p

DiskInv == QemuTypes /\ HolderAlone /\ \A v \in VM \ strayed : Straight(v)
Inv == AddressInv /\ DiskInv
-----------------------------------------------------------------------------
(* A request goes on: only where it is changes.                            *)
LEMMA WentOn ==
    ASSUME QemuTypes, NEW r \in Req, NEW place \in Pcs, ReqGoTo(r, place), req[r].vm \in VM
    PROVE  /\ req' \in [Req -> Request]
           /\ req'[r].pc = place /\ req'[r].vm = req[r].vm /\ req'[r].gen = req[r].gen
           /\ req'[r].proc = req[r].proc /\ req'[r].op = req[r].op
           /\ \A q \in Req \ {r} : req'[q] = req[q]
           /\ \A q \in Req : req'[q].pc /= "idle" => req'[q].vm \in VM
<1>1. req[r] \in Request
  BY DEF QemuTypes
<1> DEFINE x == [req[r] EXCEPT !.pc = place]
<1>2. x \in Request /\ x.pc = place /\ x.vm = req[r].vm /\ x.gen = req[r].gen /\ x.proc = req[r].proc
      /\ x.op = req[r].op
  BY <1>1 DEF Request
<1>3. req' = [req EXCEPT ![r] = x]
  BY DEF ReqGoTo
<1> HIDE DEF x
<1> QED BY <1>2, <1>3 DEF QemuTypes

(* A request returns: it is no more.                                       *)
LEMMA Returned ==
    ASSUME QemuTypes, NEW r \in Req, ReqReturn(r)
    PROVE  /\ req' \in [Req -> Request]
           /\ req'[r].pc = "idle"
           /\ \A q \in Req \ {r} : req'[q] = req[q]
           /\ \A q \in Req : req'[q].pc /= "idle" => req'[q].vm \in VM
<1>1. NoReq \in Request /\ NoReq.pc = "idle"
  BY DEF NoReq, Request, Pcs
<1>2. req' = [req EXCEPT ![r] = NoReq]
  BY DEF ReqReturn
<1> QED BY <1>1, <1>2 DEF QemuTypes

(* allocateIP: the address is one that no readable vm.json claims.         *)
LEMMA ChosenUnclaimed == ASSUME Unclaimed /= {} PROVE Min(Unclaimed) \in Unclaimed
<1>1. Unclaimed \subseteq Nat
  BY QemuAssumption DEF Unclaimed
<1>2. \E x \in Unclaimed : \A y \in Unclaimed : x <= y
  BY <1>1, Smallest
<1> QED BY <1>2 DEF Min

-----------------------------------------------------------------------------
(* Each step keeps the types.                                              *)
LEMMA QemuTypesKept == QemuTypes /\ [QemuNext]_qemuVars => QemuTypes'
<1> SUFFICES ASSUME QemuTypes, [QemuNext]_qemuVars PROVE QemuTypes'
  OBVIOUS
<1>0. ASSUME req' \in [Req -> Request], \A q \in Req : req'[q].pc /= "idle" => req'[q].vm \in VM,
             UNCHANGED <<vmFiles, running, proc>>
      PROVE QemuTypes'
  BY <1>0 DEF QemuTypes, vmFiles
<1>1. CASE UNCHANGED qemuVars
  BY <1>1 DEF qemuVars, QemuTypes
<1>2. ASSUME NEW r \in Req, NEW op \in Kinds, NEW v \in VM, Ask(r, op, v) PROVE QemuTypes'
  <2> DEFINE x == [op |-> op, vm |-> v, gen |-> gen[v], pc |-> "lock", proc |-> 0]
  <2>1. x \in Request /\ x.vm = v
    BY DEF Request, QemuTypes, Pcs
  <2>2. req' = [req EXCEPT ![r] = x]
    BY <1>2 DEF Ask
  <2> HIDE DEF x
  <2>3. req' \in [Req -> Request] /\ \A q \in Req : req'[q].pc /= "idle" => req'[q].vm \in VM
    BY <2>1, <2>2 DEF QemuTypes
  <2> QED BY <1>0, <1>2, <2>3 DEF Ask
<1>3. ASSUME NEW r \in Req, Lock(r) \/ CreateMu(r) \/ CreateStat(r) \/ cloneDisk(r) \/ StartLoad(r)
                            \/ StartFails(r) \/ StartReady(r) \/ StopKilled(r)
      PROVE QemuTypes'
  <2>1. ReqReturn(r) \/ \E place \in Pcs : ReqGoTo(r, place)
    BY <1>3 DEF Lock, CreateMu, CreateStat, cloneDisk, StartLoad, StartFails, StartReady, StopKilled,
       AfterStop, Pcs, Locked, InCreate
  <2>2. req[r].pc /= "idle"
    BY <1>3 DEF Lock, CreateMu, CreateStat, cloneDisk, StartLoad, StartFails, StartReady, StopKilled, ReqAt
  <2>3. req[r].vm \in VM
    BY <2>2 DEF QemuTypes
  <2>4. UNCHANGED <<vmFiles, running, proc>>
    BY <1>3 DEF Lock, CreateMu, CreateStat, cloneDisk, StartLoad, StartFails, StartReady, StopKilled
  <2> QED BY <1>0, <2>1, <2>3, <2>4, WentOn, Returned
<1>4. ASSUME NEW r \in Req, CreateDir(r) PROVE QemuTypes'
  <2>1. req[r].vm \in VM
    BY <1>4 DEF CreateDir, ReqAt, QemuTypes
  <2>2. CASE Unclaimed = {}
    BY <1>0, <1>4, <2>2, Returned DEF CreateDir
  <2>3. CASE Unclaimed /= {}
    <3>1. Min(Unclaimed) \in Nat
      BY <2>3, ChosenUnclaimed, QemuAssumption DEF Unclaimed
    <3>2. ReqGoTo(r, "fill") /\ "fill" \in Pcs
      BY <1>4, <2>3 DEF CreateDir, Pcs, Locked, InCreate
    <3>3. dir' \in [VM -> {"none", "bare", "whole"}] /\ addr' \in [VM -> Nat]
          /\ UNCHANGED <<gen, running, proc>>
      BY <1>4, <2>1, <2>3, <3>1 DEF CreateDir, QemuTypes
    <3> QED BY <2>1, <3>2, <3>3, WentOn DEF QemuTypes
  <2> QED BY <2>2, <2>3
<1>5. ASSUME NEW r \in Req, CreateSave(r) PROVE QemuTypes'
  <2>1. req[r].vm \in VM /\ req[r] \in Request
    BY <1>5 DEF CreateSave, ReqAt, QemuTypes
  <2> DEFINE x == [req[r] EXCEPT !.op = "start", !.gen = gen[req[r].vm], !.pc = "lock"]
  <2>2. x \in Request /\ x.vm \in VM
    BY <2>1 DEF Request, QemuTypes, Pcs, Kinds
  <2>3. req' = [req EXCEPT ![r] = x]
    BY <1>5 DEF CreateSave
  <2> HIDE DEF x
  <2>4. req' \in [Req -> Request] /\ \A q \in Req : req'[q].pc /= "idle" => req'[q].vm \in VM
    BY <2>2, <2>3 DEF QemuTypes
  <2> QED BY <1>5, <2>1, <2>4 DEF CreateSave, QemuTypes
<1>6. ASSUME NEW r \in Req, CreateUndo(r) \/ DeleteDir(r) PROVE QemuTypes'
  <2>1. ReqReturn(r)
    BY <1>6 DEF CreateUndo, DeleteDir
  <2>2. /\ dir' \in [VM -> {"none", "bare", "whole"}] /\ gen' \in [VM -> Nat]
        /\ UNCHANGED <<addr, running, proc>>
    BY <1>6 DEF CreateUndo, DeleteDir, QemuTypes
  <2> QED BY <2>1, <2>2, Returned DEF QemuTypes
<1>7. ASSUME NEW r \in Req, StartSpawn(r) PROVE QemuTypes'
  <2>1. PICK p \in Proc, job \in BOOLEAN :
          /\ proc[p] = NoQemu
          /\ proc' = [proc EXCEPT ![p] =
                        [vm |-> req[r].vm, alive |-> TRUE, reaped |-> FALSE, job |-> job]]
          /\ running' = [running EXCEPT ![req[r].vm] = p]
          /\ req' = [req EXCEPT ![r].pc = "boot", ![r].proc = p]
    BY <1>7 DEF StartSpawn
  <2>2. req[r].vm \in VM /\ req[r] \in Request
    BY <1>7 DEF StartSpawn, ReqAt, QemuTypes
  <2>p. p \in Nat
    BY QemuAssumption DEF Proc
  <2> DEFINE x == [req[r] EXCEPT !.pc = "boot", !.proc = p]
             y == [vm |-> req[r].vm, alive |-> TRUE, reaped |-> FALSE, job |-> job]
  <2>3. x \in Request /\ x.vm \in VM /\ y \in Child /\ y.vm \in VM
    <3>1. x \in Request /\ x.vm \in VM
      BY <2>2, <2>p DEF Request, Pcs, Locked
    <3>2. y \in Child /\ y.vm \in VM
      BY <2>2 DEF Child
    <3> QED BY <3>1, <3>2
  <2>4. req' = [req EXCEPT ![r] = x] /\ proc' = [proc EXCEPT ![p] = y]
    BY <2>1
  <2> HIDE DEF x, y
  <2>5. /\ req' \in [Req -> Request] /\ \A q \in Req : req'[q].pc /= "idle" => req'[q].vm \in VM
        /\ proc' \in [Proc -> Child] /\ \A q \in Proc : ~proc'[q].reaped => proc'[q].vm \in VM
    BY <2>3, <2>4 DEF QemuTypes
  <2>6. running' \in [VM -> Nat]
    <3>1. running' = [running EXCEPT ![req[r].vm] = p]
      BY <2>1
    <3> QED BY <2>p, <3>1 DEF QemuTypes
  <2> QED BY <1>7, <2>5, <2>6 DEF StartSpawn, QemuTypes, vmFiles
<1>8. ASSUME NEW p \in Proc, GuestEnds(p) \/ waitProcess(p) PROVE QemuTypes'
  <2>1. proc[p] \in Child
    BY DEF QemuTypes
  <2>2. proc' \in [Proc -> Child] /\ \A q \in Proc : ~proc'[q].reaped => proc'[q].vm \in VM
    <3> DEFINE x == [proc[p] EXCEPT !.alive = FALSE]
               y == [proc[p] EXCEPT !.reaped = TRUE]
    <3>1. x \in Child /\ x.vm = proc[p].vm /\ x.reaped = proc[p].reaped /\ y \in Child /\ y.reaped
      BY <2>1 DEF Child
    <3>2. proc' = [proc EXCEPT ![p] = x] \/ proc' = [proc EXCEPT ![p] = y]
      BY <1>8 DEF GuestEnds, waitProcess
    <3> HIDE DEF x, y
    <3> QED BY <3>1, <3>2 DEF QemuTypes
  <2>3. running' \in [VM -> Nat] /\ UNCHANGED <<vmFiles, req>>
    BY <1>8 DEF GuestEnds, waitProcess, QemuTypes
  <2> QED BY <2>2, <2>3 DEF QemuTypes, vmFiles
<1>9. ASSUME NEW r \in Req, StopLoad(r) PROVE QemuTypes'
  <2>1. req[r].vm \in VM /\ req[r] \in Request /\ running[req[r].vm] \in Nat
    BY <1>9 DEF StopLoad, ReqAt, QemuTypes
  <2> DEFINE x == [req[r] EXCEPT !.pc = IF running[req[r].vm] = 0 THEN "rm" ELSE "halt",
                                 !.proc = running[req[r].vm]]
  <2>2. x \in Request /\ x.vm \in VM
    BY <2>1 DEF Request, Pcs, Locked
  <2>3. ReqReturn(r) \/ req' = [req EXCEPT ![r] = x]
    BY <1>9 DEF StopLoad
  <2> HIDE DEF x
  <2>4. req' \in [Req -> Request] /\ \A q \in Req : req'[q].pc /= "idle" => req'[q].vm \in VM
    BY <2>2, <2>3, Returned DEF QemuTypes
  <2> QED BY <1>0, <1>9, <2>4 DEF StopLoad
<1>10. ASSUME NEW r \in Req, stopRuntime(r) PROVE QemuTypes'
  <2>1. ReqReturn(r) \/ \E place \in Pcs : ReqGoTo(r, place)
    BY <1>10 DEF stopRuntime, AfterStop, Pcs, Locked
  <2>2. req[r].vm \in VM
    BY <1>10 DEF stopRuntime, ReqAt, QemuTypes
  <2>3. proc' = proc \/ \E p \in Nat : proc' = [proc EXCEPT ![p].alive = FALSE]
    BY <1>10 DEF stopRuntime, QemuTypes, Request
  <2>4. proc' \in [Proc -> Child] /\ \A q \in Proc : ~proc'[q].reaped => proc'[q].vm \in VM
    <3>1. CASE proc' = proc
      BY <3>1 DEF QemuTypes
    <3>2. ASSUME NEW p \in Proc, proc' = [proc EXCEPT ![p].alive = FALSE]
          PROVE  proc' \in [Proc -> Child] /\ \A q \in Proc : ~proc'[q].reaped => proc'[q].vm \in VM
      <4> DEFINE x == [proc[p] EXCEPT !.alive = FALSE]
      <4>1. x \in Child /\ x.vm = proc[p].vm /\ x.reaped = proc[p].reaped
        BY DEF QemuTypes, Child
      <4>2. proc' = [proc EXCEPT ![p] = x]
        BY <3>2
      <4> HIDE DEF x
      <4> QED BY <4>1, <4>2 DEF QemuTypes
    <3>3. ASSUME NEW p \in Nat, p \notin Proc, proc' = [proc EXCEPT ![p].alive = FALSE] PROVE proc' = proc
      BY <3>3 DEF QemuTypes
    <3> QED BY <2>3, <3>1, <3>2, <3>3
  <2> QED BY <1>10, <2>1, <2>2, <2>4, WentOn, Returned DEF stopRuntime, QemuTypes, vmFiles
<1>11. CASE Crash
  <2>1. NoReq \in Request /\ NoReq.pc = "idle"
    BY DEF NoReq, Request, Pcs
  <2>2. \A p \in Proc : proc'[p] \in Child /\ proc'[p].reaped
    <3> TAKE p \in Proc
    <3>1. CASE proc[p] = NoQemu
      BY <1>11, <3>1 DEF Crash, QemuTypes, Child, NoQemu
    <3>2. CASE proc[p] /= NoQemu
      BY <1>11, <3>2 DEF Crash, QemuTypes, Child
    <3> QED BY <3>1, <3>2
  <2> QED BY <1>11, <2>1, <2>2 DEF Crash, QemuTypes
<1> QED BY <1>1, <1>2, <1>3, <1>4, <1>5, <1>6, <1>7, <1>8, <1>9, <1>10, <1>11 DEF QemuNext, ReqStep
-----------------------------------------------------------------------------
(* Most steps leave the Create under way and the claims as they are, or    *)
(* drop some.                                                              *)
LEMMA ClaimsFrame ==
    ASSUME AddressInv, UNCHANGED addr, \A v \in VM : dir'[v] = "whole" => dir[v] = "whole",
           \A r \in Req : req'[r].pc \in InCreate => req[r].pc \in InCreate,
           \A r \in Req : req'[r].pc \in {"fill", "save"} =>
                req[r].pc \in {"fill", "save"} /\ req'[r].vm = req[r].vm /\ req[r].vm \in VM
    PROVE  CreateAlone' /\ DistinctAddresses'
BY DEF AddressInv, CreateAlone, DistinctAddresses

(* ... and the addresses apart, ...                                        *)
LEMMA AddressKept == AddressInv /\ [QemuNext]_qemuVars => AddressInv'
<1> SUFFICES ASSUME AddressInv, [QemuNext]_qemuVars PROVE AddressInv'
  OBVIOUS
<1>t. QemuTypes /\ QemuTypes'
  BY QemuTypesKept DEF AddressInv
<1>v. \A r \in Req : req[r].pc /= "idle" => req[r].vm \in VM
  BY <1>t DEF QemuTypes
<1> SUFFICES CreateAlone' /\ DistinctAddresses'
  BY <1>t DEF AddressInv
<1>1. CASE UNCHANGED qemuVars
  BY <1>1, <1>v, ClaimsFrame DEF qemuVars
<1>2. ASSUME NEW r \in Req, NEW op \in Kinds, NEW v \in VM, Ask(r, op, v)
      PROVE CreateAlone' /\ DistinctAddresses'
  <2>1. req'[r].pc = "lock" /\ \A q \in Req \ {r} : req'[q] = req[q]
    BY <1>2, <1>t DEF Ask, QemuTypes
  <2> QED BY <1>2, <1>v, <2>1, ClaimsFrame DEF Ask, vmFiles, InCreate
<1>3. ASSUME NEW r \in Req, Lock(r) \/ CreateStat(r) \/ cloneDisk(r) \/ StartLoad(r)
                            \/ StartFails(r) \/ StartReady(r) \/ StopKilled(r) \/ stopRuntime(r)
      PROVE CreateAlone' /\ DistinctAddresses'
  <2>1. \/ ReqReturn(r)
        \/ \E place \in Pcs : /\ ReqGoTo(r, place)
                              /\ place \in InCreate => req[r].pc \in InCreate
                              /\ place \in {"fill", "save"} => req[r].pc \in {"fill", "save"}
    BY <1>3 DEF Lock, CreateStat, cloneDisk, StartLoad, StartFails, StartReady, StopKilled,
       stopRuntime, AfterStop, Pcs, Locked, InCreate, ReqAt
  <2>2. req[r].pc /= "idle" /\ UNCHANGED <<dir, addr>>
    BY <1>3 DEF Lock, CreateStat, cloneDisk, StartLoad, StartFails, StartReady, StopKilled,
       stopRuntime, ReqAt, vmFiles
  <2>3. CASE ReqReturn(r)
    BY <1>t, <1>v, <2>2, <2>3, Returned, ClaimsFrame DEF InCreate
  <2>4. ASSUME NEW place \in Pcs, ReqGoTo(r, place), place \in InCreate => req[r].pc \in InCreate,
               place \in {"fill", "save"} => req[r].pc \in {"fill", "save"}
        PROVE CreateAlone' /\ DistinctAddresses'
    BY <1>t, <1>v, <2>2, <2>4, WentOn, ClaimsFrame
  <2> QED BY <2>1, <2>3, <2>4
<1>4. ASSUME NEW r \in Req, CreateMu(r) PROVE CreateAlone' /\ DistinctAddresses'
  <2>1. req'[r].pc = "stat" /\ \A q \in Req \ {r} : req'[q] = req[q]
    BY <1>4, <1>t DEF CreateMu, ReqGoTo, QemuTypes, Request
  <2>2. \A q \in Req : req[q].pc \notin InCreate
    BY <1>4 DEF CreateMu, CreateMuFree
  <2>3. UNCHANGED <<dir, addr>>
    BY <1>4 DEF CreateMu, vmFiles
  <2> QED BY <2>1, <2>2, <2>3 DEF AddressInv, CreateAlone, DistinctAddresses, InCreate
<1>5. ASSUME NEW r \in Req, CreateDir(r) PROVE CreateAlone' /\ DistinctAddresses'
  <2>1. req[r].pc = "dir" /\ req[r].vm \in VM
    BY <1>5, <1>v DEF CreateDir, ReqAt
  <2>2. CASE Unclaimed = {}
    BY <1>5, <1>t, <1>v, <2>2, Returned, ClaimsFrame DEF CreateDir, vmFiles, InCreate
  <2>3. CASE Unclaimed /= {}
    <3> DEFINE v == req[r].vm
               a == Min(Unclaimed)
    <3>1. dir' = [dir EXCEPT ![v] = "bare"] /\ addr' = [addr EXCEPT ![v] = a]
      BY <1>5, <2>3 DEF CreateDir
    <3>2. \A w \in VM : dir[w] = "whole" => addr[w] /= a
      BY <2>3, ChosenUnclaimed DEF Unclaimed, Claimed
    <3>3. /\ req'[r].pc = "fill" /\ req'[r].vm = v
          /\ \A q \in Req \ {r} : req'[q] = req[q]
      BY <1>5, <1>t, <2>1, <2>3, WentOn DEF CreateDir, Pcs, Locked, InCreate
    <3>4. \A q \in Req \ {r} : req[q].pc \notin InCreate
      BY <2>1 DEF AddressInv, CreateAlone, InCreate
    <3>5. /\ dir'[v] = "bare" /\ addr'[v] = a
          /\ \A w \in VM \ {v} : dir'[w] = dir[w] /\ addr'[w] = addr[w]
      BY <1>t, <2>1, <3>1 DEF QemuTypes
    <3> HIDE DEF v, a
    <3> QED BY <2>1, <3>2, <3>3, <3>4, <3>5 DEF AddressInv, CreateAlone, DistinctAddresses, InCreate
  <2> QED BY <2>2, <2>3
<1>6. ASSUME NEW r \in Req, CreateSave(r) PROVE CreateAlone' /\ DistinctAddresses'
  <2> DEFINE v == req[r].vm
  <2>1. req[r].pc = "save" /\ v \in VM
    BY <1>6, <1>v DEF CreateSave, ReqAt
  <2>2. dir' = [dir EXCEPT ![v] = "whole"] /\ UNCHANGED addr
    BY <1>6 DEF CreateSave
  <2>3. req'[r].pc = "lock" /\ \A q \in Req \ {r} : req'[q] = req[q]
    BY <1>6, <1>t DEF CreateSave, QemuTypes, Request
  <2>4. dir'[v] = "whole" /\ \A w \in VM \ {v} : dir'[w] = dir[w]
    BY <1>t, <2>1, <2>2 DEF QemuTypes
  <2>5. \A w \in VM \ {v} : dir[w] = "whole" => addr[w] /= addr[v]
    BY <2>1 DEF AddressInv, CreateAlone
  <2>6. \A q \in Req \ {r} : req[q].pc \notin InCreate
    BY <2>1 DEF AddressInv, CreateAlone, InCreate
  <2> HIDE DEF v
  <2> QED BY <2>1, <2>2, <2>3, <2>4, <2>5, <2>6 DEF AddressInv, CreateAlone, DistinctAddresses, InCreate
<1>7. ASSUME NEW r \in Req, CreateUndo(r) \/ DeleteDir(r) PROVE CreateAlone' /\ DistinctAddresses'
  <2>1. ReqReturn(r) /\ UNCHANGED addr /\ \A w \in VM : dir'[w] = "whole" => dir[w] = "whole"
    BY <1>7, <1>t DEF CreateUndo, DeleteDir, QemuTypes
  <2> QED BY <1>t, <1>v, <2>1, Returned, ClaimsFrame DEF InCreate
<1>8. ASSUME NEW r \in Req, StartSpawn(r) \/ StopLoad(r) PROVE CreateAlone' /\ DistinctAddresses'
  <2>1. /\ UNCHANGED <<dir, addr>> /\ req'[r].pc \notin InCreate
        /\ \A q \in Req \ {r} : req'[q] = req[q]
    <3>1. CASE StartSpawn(r)
      BY <1>t, <3>1 DEF StartSpawn, vmFiles, QemuTypes, Request, InCreate
    <3>2. CASE StopLoad(r)
      BY <1>t, <3>2, Returned DEF StopLoad, vmFiles, QemuTypes, Request, InCreate
    <3> QED BY <1>8, <3>1, <3>2
  <2> QED BY <1>v, <2>1, ClaimsFrame DEF InCreate
<1>9. ASSUME NEW p \in Proc, GuestEnds(p) \/ waitProcess(p) PROVE CreateAlone' /\ DistinctAddresses'
  BY <1>9, <1>v, ClaimsFrame DEF GuestEnds, waitProcess, vmFiles
<1>10. CASE Crash
  BY <1>10, <1>v, ClaimsFrame DEF Crash, NoReq, InCreate
<1> QED BY <1>1, <1>2, <1>3, <1>4, <1>5, <1>6, <1>7, <1>8, <1>9, <1>10 DEF QemuNext, ReqStep

-----------------------------------------------------------------------------
(* Most steps leave the holders, what runs and the mutexes as they are, or *)
(* let one go.                                                             *)
LEMMA HoldersFrame ==
    ASSUME DiskInv, UNCHANGED <<gen, running>>, strayed \subseteq strayed',
           \A r \in Req : req'[r].pc \in Locked =>
                /\ req[r].pc \in Locked /\ req'[r].vm = req[r].vm /\ req'[r].gen = req[r].gen
                /\ req'[r].pc = "spawn" => req[r].pc = "spawn",
           \A p \in Proc : ~proc'[p].reaped => ~proc[p].reaped /\ proc'[p].vm = proc[p].vm
    PROVE  HolderAlone' /\ \A v \in VM \ strayed' : Straight(v)'
BY DEF DiskInv, HolderAlone, Straight

(* ... and what runs as the holder of the name's mutex knows it.           *)
LEMMA DiskKept == DiskInv /\ [QemuNext]_qemuVars => DiskInv'
<1> SUFFICES ASSUME DiskInv, [QemuNext]_qemuVars PROVE DiskInv'
  OBVIOUS
<1>t. QemuTypes /\ QemuTypes'
  BY QemuTypesKept DEF DiskInv
<1>v. \A r \in Req : req[r].pc /= "idle" => req[r].vm \in VM
  BY <1>t DEF QemuTypes
<1> DEFINE Goal == HolderAlone' /\ \A v \in VM \ strayed' : Straight(v)'
<1> SUFFICES Goal
  BY <1>t DEF DiskInv
<1>1. CASE UNCHANGED qemuVars
  BY <1>1, HoldersFrame DEF qemuVars
<1>2. ASSUME NEW r \in Req, NEW op \in Kinds, NEW v \in VM, Ask(r, op, v) PROVE Goal
  <2>1. req'[r].pc = "lock" /\ \A q \in Req \ {r} : req'[q] = req[q]
    BY <1>2, <1>t DEF Ask, QemuTypes
  <2> QED BY <1>2, <2>1, HoldersFrame DEF Ask, vmFiles, Locked, InCreate
<1>3. ASSUME NEW r \in Req, CreateMu(r) \/ CreateStat(r) \/ CreateDir(r) \/ cloneDisk(r) \/ CreateUndo(r)
                            \/ StartFails(r) \/ StartReady(r) \/ StopKilled(r) \/ stopRuntime(r)
      PROVE Goal
  <2>1. req[r].pc \in Locked /\ \/ ReqReturn(r)
                                \/ \E place \in Locked \ {"spawn"} : ReqGoTo(r, place)
    BY <1>3 DEF CreateMu, CreateStat, CreateDir, cloneDisk, CreateUndo, StartFails, StartReady, StopKilled,
       stopRuntime, AfterStop, Locked, InCreate, ReqAt
  <2>2. UNCHANGED <<gen, running, strayed>>
    BY <1>3 DEF CreateMu, CreateStat, CreateDir, cloneDisk, CreateUndo, StartFails, StartReady, StopKilled,
       stopRuntime, vmFiles
  <2>3. \A p \in Proc : ~proc'[p].reaped => ~proc[p].reaped /\ proc'[p].vm = proc[p].vm
    <3>1. CASE proc' = proc
      BY <3>1
    <3>2. CASE proc' = [proc EXCEPT ![req[r].proc].alive = FALSE]
      BY <1>t, <3>2 DEF QemuTypes, Child
    <3> QED BY <1>3, <3>1, <3>2 DEF CreateMu, CreateStat, CreateDir, cloneDisk, CreateUndo, StartFails,
               StartReady, StopKilled, stopRuntime
  <2>4. CASE ReqReturn(r)
    BY <1>t, <2>2, <2>3, <2>4, Returned, HoldersFrame DEF Locked, InCreate
  <2>5. ASSUME NEW place \in Locked \ {"spawn"}, ReqGoTo(r, place) PROVE Goal
    <3>1. place \in Pcs /\ req[r].vm \in VM
      BY <1>v, <2>1 DEF Pcs, Locked, InCreate
    <3> QED BY <1>t, <2>1, <2>2, <2>3, <2>5, <3>1, WentOn, HoldersFrame
  <2> QED BY <2>1, <2>4, <2>5
<1>4. ASSUME NEW r \in Req, Lock(r) PROVE Goal
  <2> DEFINE v == req[r].vm
  <2>1. req[r].pc = "lock" /\ v \in VM
    BY <1>4, <1>v DEF Lock, ReqAt
  <2>2. /\ req'[r].pc \in Locked \ {"spawn"} /\ req'[r].vm = v /\ req'[r].gen = req[r].gen
        /\ \A q \in Req \ {r} : req'[q] = req[q]
    BY <1>4, <1>t, <2>1, WentOn DEF Lock, Pcs, Locked
  <2>3. \A q \in Req \ {r} : ~(req[q].pc \in Locked /\ req[q].vm = v /\ req[q].gen = req[r].gen)
    BY <1>4 DEF Lock, MutexFree
  <2>4. /\ UNCHANGED <<gen, running, proc>> /\ strayed \subseteq strayed'
        /\ req[r].gen = gen[v] \/ v \in strayed'
    BY <1>4 DEF Lock, vmFiles
  <2> HIDE DEF v
  <2>5. HolderAlone'
    BY <2>2, <2>3 DEF DiskInv, HolderAlone
  <2>6. ASSUME NEW w \in VM \ strayed' PROVE Straight(w)'
    BY <2>2, <2>4 DEF DiskInv, Straight
  <2> QED BY <2>5, <2>6
<1>5. ASSUME NEW r \in Req, CreateSave(r) PROVE Goal
  <2>1. req'[r].pc = "lock" /\ \A q \in Req \ {r} : req'[q] = req[q]
    BY <1>5, <1>t DEF CreateSave, QemuTypes, Request
  <2> QED BY <1>5, <2>1, HoldersFrame DEF CreateSave, Locked, InCreate
<1>6. ASSUME NEW r \in Req, StartLoad(r) PROVE Goal
  <2> DEFINE v == req[r].vm
  <2>1. req[r].pc = "load" /\ v \in VM /\ UNCHANGED <<gen, running, proc, strayed>>
    BY <1>6, <1>v DEF StartLoad, ReqAt, vmFiles
  <2>2. CASE ReqReturn(r)
    BY <1>t, <2>1, <2>2, Returned, HoldersFrame DEF Locked, InCreate
  <2>3. CASE ReqGoTo(r, "spawn") /\ running[v] = 0
    <3>1. /\ req'[r].pc = "spawn" /\ req'[r].vm = v /\ req'[r].gen = req[r].gen
          /\ \A q \in Req \ {r} : req'[q] = req[q]
      BY <1>t, <2>1, <2>3, WentOn DEF Pcs, Locked
    <3>2. req[r].pc \in Locked
      BY <2>1 DEF Locked
    <3> HIDE DEF v
    <3>3. HolderAlone'
      BY <3>1, <3>2 DEF DiskInv, HolderAlone, v
    <3>4. ASSUME NEW w \in VM \ strayed' PROVE Straight(w)'
      BY <2>1, <2>3, <3>1, <3>2 DEF DiskInv, Straight, v
    <3> QED BY <3>3, <3>4
  <2> QED BY <1>6, <2>2, <2>3 DEF StartLoad
<1>7. ASSUME NEW r \in Req, StartSpawn(r) PROVE Goal
  <2> DEFINE v == req[r].vm
  <2>1. PICK p \in Proc, job \in BOOLEAN :
          /\ proc[p] = NoQemu
          /\ proc' = [proc EXCEPT ![p] = [vm |-> v, alive |-> TRUE, reaped |-> FALSE, job |-> job]]
          /\ running' = [running EXCEPT ![v] = p]
    BY <1>7 DEF StartSpawn
  <2>2. req[r].pc = "spawn" /\ v \in VM /\ UNCHANGED <<gen, strayed>>
    BY <1>7, <1>v DEF StartSpawn, ReqAt, vmFiles
  <2>3. /\ req'[r].pc = "boot" /\ req'[r].vm = v /\ req'[r].gen = req[r].gen
        /\ \A q \in Req \ {r} : req'[q] = req[q]
    BY <1>7, <1>t DEF StartSpawn, QemuTypes, Request
  <2>4. /\ proc'[p].vm = v /\ \A q \in Proc \ {p} : proc'[q] = proc[q]
        /\ running'[v] = p /\ \A w \in VM \ {v} : running'[w] = running[w]
    BY <1>t, <2>1, <2>2 DEF QemuTypes
  <2>5. req[r].pc \in Locked
    BY <2>2 DEF Locked
  <2> HIDE DEF v
  <2>6. HolderAlone'
    BY <2>3, <2>5 DEF DiskInv, HolderAlone, v
  <2>7. ASSUME NEW w \in VM \ strayed' PROVE Straight(w)'
    <3>1. Straight(w) /\ HolderAlone
      BY <2>2 DEF DiskInv
    <3>2. CASE w /= v
      BY <2>2, <2>3, <2>4, <3>1, <3>2 DEF Straight
    <3>3. CASE w = v
      <4>1. running[v] = 0 /\ req[r].gen = gen[v]
        BY <2>2, <2>5, <3>1, <3>3 DEF Straight, v
      <4>2. \A q \in Proc : ~proc[q].reaped => proc[q].vm /= v
        BY <4>1, <3>1, <3>3, QemuAssumption DEF Straight, Proc
      <4>3. \A q \in Req \ {r} : req[q].pc \in Locked => req[q].vm /= v
        BY <2>5, <3>1, <3>3, <4>1 DEF Straight, HolderAlone, v
      <4> QED BY <2>2, <2>3, <2>4, <3>3, <4>1, <4>2, <4>3 DEF Straight
    <3> QED BY <3>2, <3>3
  <2> QED BY <2>6, <2>7
<1>8. ASSUME NEW p \in Proc, GuestEnds(p) PROVE Goal
  <2>1. \A q \in Proc : ~proc'[q].reaped => ~proc[q].reaped /\ proc'[q].vm = proc[q].vm
    BY <1>8, <1>t DEF GuestEnds, QemuTypes, Child
  <2> QED BY <1>8, <2>1, HoldersFrame DEF GuestEnds, vmFiles
<1>9. ASSUME NEW p \in Proc, waitProcess(p) PROVE Goal
  <2> DEFINE v == proc[p].vm
  <2>1. proc'[p].reaped /\ \A q \in Proc \ {p} : proc'[q] = proc[q]
    BY <1>9, <1>t DEF waitProcess, QemuTypes, Child
  <2>2. UNCHANGED <<gen, req, strayed>>
    BY <1>9 DEF waitProcess, vmFiles
  <2>3. v \in VM
    BY <1>9, <1>t DEF waitProcess, QemuTypes
  <2>4. /\ running'[v] = IF running[v] = p THEN 0 ELSE running[v]
        /\ \A w \in VM \ {v} : running'[w] = running[w]
    BY <1>9, <1>t, <2>3 DEF waitProcess, QemuTypes
  <2>5. \A w \in VM : running[w] = 0 => running'[w] = 0
    BY <2>3, <2>4
  <2>6. HolderAlone'
    BY <2>2 DEF DiskInv, HolderAlone
  <2>7. ASSUME NEW w \in VM \ strayed' PROVE Straight(w)'
    <3>1. Straight(w)
      BY <2>2 DEF DiskInv
    <3>2. ASSUME NEW q \in Proc, ~proc'[q].reaped, proc'[q].vm = w PROVE running'[w] = q
      <4>1. q /= p /\ running[w] = q
        BY <2>1, <3>1, <3>2 DEF Straight
      <4> QED BY <2>3, <2>4, <4>1
    <3> QED BY <2>2, <2>5, <3>1, <3>2 DEF Straight
  <2> QED BY <2>6, <2>7
<1>10. ASSUME NEW r \in Req, StopLoad(r) PROVE Goal
  <2>1. req[r].pc = "load" /\ UNCHANGED <<gen, running, proc, strayed>>
    BY <1>10 DEF StopLoad, ReqAt, vmFiles
  <2>2. CASE ReqReturn(r)
    BY <1>t, <2>1, <2>2, Returned, HoldersFrame DEF Locked, InCreate
  <2>3. CASE req' = [req EXCEPT ![r].pc = IF running[req[r].vm] = 0 THEN "rm" ELSE "halt",
                                ![r].proc = running[req[r].vm]]
    <3>1. /\ req'[r].pc \in {"rm", "halt"} /\ req'[r].vm = req[r].vm /\ req'[r].gen = req[r].gen
          /\ \A q \in Req \ {r} : req'[q] = req[q]
      BY <1>t, <2>3 DEF QemuTypes, Request
    <3> QED BY <2>1, <3>1, HoldersFrame DEF Locked
  <2> QED BY <1>10, <2>2, <2>3 DEF StopLoad
<1>11. ASSUME NEW r \in Req, DeleteDir(r) PROVE Goal
  <2> DEFINE v == req[r].vm
  <2>1. req[r].pc = "rm" /\ v \in VM /\ UNCHANGED <<running, proc, strayed>>
    BY <1>11, <1>v DEF DeleteDir, ReqAt
  <2>2. req'[r].pc = "idle" /\ \A q \in Req \ {r} : req'[q] = req[q]
    BY <1>11, <1>t, Returned DEF DeleteDir
  <2>3. CASE UNCHANGED gen
    BY <2>1, <2>2, <2>3, HoldersFrame DEF Locked, InCreate
  <2>4. CASE gen' = [gen EXCEPT ![v] = @ + 1]
    <3>1. \A w \in VM \ {v} : gen'[w] = gen[w]
      BY <1>t, <2>4 DEF QemuTypes
    <3>2. req[r].pc \in Locked /\ "idle" \notin Locked
      BY <2>1 DEF Locked, InCreate
    <3>3. HolderAlone'
      BY <2>2, <3>2 DEF DiskInv, HolderAlone
    <3>4. ASSUME NEW w \in VM \ strayed' PROVE Straight(w)'
      <4>1. Straight(w) /\ HolderAlone
        BY <2>1 DEF DiskInv
      <4>2. CASE w /= v
        BY <2>1, <2>2, <3>1, <3>2, <4>1, <4>2 DEF Straight
      <4>3. CASE w = v
        <5>1. \A q \in Req \ {r} : ~(req[q].pc \in Locked /\ req[q].vm = w)
          BY <3>2, <4>1, <4>3 DEF Straight, HolderAlone
        <5> QED BY <2>1, <2>2, <3>2, <4>1, <5>1 DEF Straight
      <4> QED BY <4>2, <4>3
    <3> QED BY <3>3, <3>4
  <2> QED BY <1>11, <2>3, <2>4 DEF DeleteDir
<1>12. CASE Crash
  <2>1. \A r \in Req : req'[r].pc \notin Locked
    BY <1>12 DEF Crash, NoReq, Locked, InCreate
  <2>2. \A p \in Proc : proc'[p].reaped
    BY <1>12, <1>t DEF Crash, QemuTypes, Child, NoQemu
  <2> QED BY <2>1, <2>2 DEF HolderAlone, Straight
<1> QED BY <1>1, <1>2, <1>3, <1>4, <1>5, <1>6, <1>7, <1>8, <1>9, <1>10, <1>11, <1>12 DEF QemuNext, ReqStep

(* Both invariants hold in every state.                                    *)
LEMMA QemuInvariant == QemuSpec => [](AddressInv /\ DiskInv)
<1>1. QemuInit => QemuTypes
  BY DEF QemuInit, QemuTypes, NoReq, NoQemu, Request, Child, Pcs
<1>2. QemuInit => AddressInv /\ DiskInv
  BY <1>1 DEF QemuInit, AddressInv, CreateAlone, DistinctAddresses, DiskInv, HolderAlone, Straight,
     NoReq, NoQemu, Locked, InCreate
<1> QED BY <1>2, AddressKept, DiskKept, PTL DEF QemuSpec

(* Two VMs never have one guest address: the scan of allocateIP and the    *)
(* save that claims its choice are one section under createMu.             *)
THEOREM AddressesApart == QemuSpec => []DistinctAddresses
<1>1. AddressInv => DistinctAddresses
  BY DEF AddressInv
<1> QED BY <1>1, QemuInvariant, PTL

(* Two QEMUs run on one disk only where a request had the mutex of a name  *)
(* after a Delete had dropped it from m.locks (vmLock, Delete).            *)
THEOREM OneQemuOnADisk == QemuSpec => []OneQemuPerDisk
<1>1. DiskInv => OneQemuPerDisk
  BY DEF DiskInv, Straight, OneQemuPerDisk, QemuTypes
<1> QED BY <1>1, QemuInvariant, PTL

-----------------------------------------------------------------------------
(* Agents' sessions.                                                       *)
(* The largest of some session numbers is one of them: the smallest bound. *)
LEMMA Largest ==
    ASSUME NEW S, S \subseteq Name, S # {}
    PROVE  Max(S) \in S /\ \A s \in S : s <= Max(S)
<1>0. PICK o \in S : TRUE
  OBVIOUS
<1>t. \A s \in S : s \in Nat /\ s >= 1
  BY SessionAssumption DEF Name
<1> DEFINE Bounds == {b \in Nat : \A s \in S : s <= b}
<1>1. Bounds \subseteq Nat /\ Names \in Bounds
  BY SessionAssumption DEF Name
<1>2. PICK b \in Bounds : \A t \in Bounds : b <= t
  BY <1>1, Smallest
<1>3. b \in S
  <2> SUFFICES ASSUME b \notin S PROVE FALSE
    OBVIOUS
  <2>1. \A s \in S : s \in Nat /\ s <= b /\ s /= b
    BY <1>2, <1>t
  <2>3. b - 1 \in Bounds
    BY <1>0, <1>t, <1>2, <2>1
  <2> QED BY <1>2, <2>3
<1>4. \E x \in S : \A y \in S : x >= y
  BY <1>2, <1>3 DEF Name
<1> QED BY <1>4 DEF Max, Name

-----------------------------------------------------------------------------
Conv == Nat \ {0}
Carried == [Name -> Nat]

AgentTypes ==
    /\ hostBoot \in Nat \ {0} /\ up \in BOOLEAN /\ convs \in Nat
    /\ tmux \in Carried /\ status \in Carried /\ stopped \in Carried
    /\ live.names \in Carried /\ looked \in Carried
    /\ live = [boot |-> live.boot, names |-> live.names]
    /\ live.boot \in 0..hostBoot /\ (live.boot = 0 => live.names = Quiet)
    /\ win \in [Window -> Name \cup {AtRest}]
    /\ arch \in Name \cup {NoArch}
    /\ taken \subseteq Name \X Conv

(* Where a conversation that a restart of the host took is: a stopped row, *)
(* under way, ended, or in the note and the status file until the daemon   *)
(* starts.                                                                 *)
Noted(n, c) == /\ ~up /\ live.boot \notin {0, hostBoot}
               /\ live.names[n] = c /\ status[n] = c /\ tmux[n] = None
Held(n, c) == stopped[n] = c \/ tmux[n] = c \/ c \in ended \/ Noted(n, c)

(* A stopped row has its conversation in the status file and no session of *)
(* its name; none is being archived.                                       *)
RowSound(n) == stopped[n] /= None => status[n] = stopped[n] /\ tmux[n] = None /\ arch /= n

AgentInv ==
    /\ AgentTypes
    /\ \A n \in Name \ {1}, c \in Conv : <<n, c>> \in taken => Held(n, c)
    /\ \A n \in Name \ {1} : RowSound(n)
    /\ arch /= NoArch => up

(* A new session has a number that neither runs nor is stopped.            *)
LEMMA NewNumber ==
    ASSUME AgentTypes, NEW n, n = nextAgentSession, n \in Name
    PROVE  n \notin Live /\ n \notin Stopped /\ n /= 1
<1> DEFINE S == Live \cup Stopped \cup {1}
<1>1. S \subseteq Name
  BY SessionAssumption DEF Live, Stopped, Name
<1>2. Max(S) \in S /\ \A s \in S : s <= Max(S)
  BY <1>1, Largest
<1>3. n = 1 + Max(S)
  BY DEF nextAgentSession
<1>4. \A s \in S : s \in Nat
  BY <1>1 DEF Name
<1> HIDE DEF S
<1>5. n \notin S
  BY <1>2, <1>3, <1>4
<1> QED BY <1>5 DEF S

(* Every step of the daemon, the host, the CLIs and the windows keeps it.  *)
LEMMA AgentInvariant == AgentsSpec => []AgentInv
<1>1. AgentsInit => AgentInv
  BY SessionAssumption DEF AgentsInit, AgentInv, AgentTypes, Carried, Quiet, NoLook, AtRest, NoArch, None, RowSound
<1>2. AgentInv /\ [AgentsNext]_agentVars => AgentInv'
  <2> SUFFICES ASSUME AgentInv, [AgentsNext]_agentVars PROVE AgentInv'
    OBVIOUS
  <2> USE DEF AgentInv
  <2> USE DEF AgentTypes, Carried, Held, Noted, RowSound, None, NoArch, AtRest, Conv
  <2>1. CASE UNCHANGED agentVars
    BY <2>1 DEF agentVars, agentFiles, memory, fates
  <2>2. CASE Look
    BY <2>2 DEF Look, agentFiles, fates
  <2>3. CASE noteAgentSessions
    <3>1. looked' \in Carried
      BY <2>3, SessionAssumption DEF noteAgentSessions, NoLook
    <3>2. CASE looked = last
      BY <2>3, <3>1, <3>2 DEF noteAgentSessions, fates
    <3>3. CASE looked /= last
      <4>1. live' = [boot |-> hostBoot, names |-> looked]
        BY <2>3, <3>3 DEF noteAgentSessions
      <4> QED BY <2>3, <3>1, <4>1 DEF noteAgentSessions, fates
    <3> QED BY <3>2, <3>3
  <2>4. CASE Starts
    <3>1. CASE live.boot \in {0, hostBoot}
      BY <2>4, <3>1 DEF Starts, noteHostRestart, memory, fates
    <3>2. CASE live.boot \notin {0, hostBoot}
      <4>1. live' = [boot |-> hostBoot, names |-> tmux]
        BY <2>4, <3>2 DEF Starts, noteHostRestart
      <4>2. stopped' = [n \in Name |->
                IF live.names[n] /= None /\ tmux[n] = None /\ status[n] /= None
                THEN status[n] ELSE stopped[n]]
        BY <2>4, <3>2 DEF Starts, noteHostRestart
      <4>3. AgentTypes'
        BY <2>4, <4>1, <4>2 DEF Starts, memory, fates
      <4>4. ASSUME NEW n \in Name \ {1} PROVE RowSound(n)'
        BY <2>4, <4>2 DEF Starts, memory, Name
      <4>5. ASSUME NEW n \in Name \ {1}, NEW c \in Conv, <<n, c>> \in taken PROVE Held(n, c)'
        BY <2>4, <4>2, <4>5 DEF Starts, fates
      <4> QED BY <2>4, <4>3, <4>4, <4>5 DEF Starts, memory, fates
    <3> QED BY <3>1, <3>2
  <2>5. CASE Stops
    <3>1. looked' \in Carried /\ win' \in [Window -> Name \cup {AtRest}] /\ arch' = 0
      BY <2>5, SessionAssumption DEF Stops, Forget, NoLook
    <3>2. UNCHANGED <<hostBoot, tmux, status, live, stopped, convs, taken, ended>> /\ ~up' /\ up' \in BOOLEAN /\ up
      BY <2>5 DEF Stops, agentFiles, fates
    <3>3. AgentTypes'
      BY <3>1, <3>2 DEF Quiet
    <3>4. ASSUME NEW n \in Name \ {1} PROVE RowSound(n)'
      BY <3>1, <3>2 DEF Name
    <3>5. ASSUME NEW n \in Name \ {1}, NEW c \in Conv, <<n, c>> \in taken PROVE Held(n, c)'
      BY <3>2, <3>5
    <3> QED BY <3>1, <3>2, <3>3, <3>4, <3>5
  <2>6. CASE HostDown
    <3> DEFINE Took == {k \in Live : live.names[k] = tmux[k] /\ status[k] = tmux[k]}
    <3>1. tmux' = [n \in Name |-> 0] /\ UNCHANGED <<live, status, stopped, ended, convs>>
          /\ ~up' /\ hostBoot' = hostBoot + 1 /\ arch' = 0
      BY <2>6 DEF HostDown, Forget, agentFiles, Quiet
    <3>2. taken' = {t \in taken : ~Runs(t[2])} \cup {<<n, tmux[n]>> : n \in Took}
      BY <2>6 DEF HostDown
    <3>3. \A n \in Took : n \in Name /\ tmux[n] \in Conv
      BY DEF Live
    <3>4. taken' \subseteq Name \X Conv
      <4>1. \A n \in Took : <<n, tmux[n]>> \in Name \X Conv
        BY <3>3
      <4> QED BY <3>2, <4>1
    <3>5. AgentTypes'
      <4>1. looked' \in Carried /\ win' \in [Window -> Name \cup {AtRest}]
        BY <2>6, SessionAssumption DEF HostDown, Forget, NoLook
      <4>2. hostBoot' \in Nat \ {0} /\ live.boot \in 0..hostBoot'
        BY <3>1
      <4>3. up' \in BOOLEAN
        BY <2>6 DEF HostDown
      <4> QED BY <3>1, <3>4, <4>1, <4>2, <4>3 DEF Quiet
    <3>6. ASSUME NEW n \in Name \ {1}, NEW c \in Conv, <<n, c>> \in taken' PROVE Held(n, c)'
      <4>1. CASE <<n, c>> \in taken /\ ~Runs(c)
        <5>1. tmux[n] /= c
          BY <4>1 DEF Runs
        <5> QED BY <3>1, <4>1, <5>1
      <4>2. CASE n \in Took /\ c = tmux[n]
        <5>1. live.names[n] = c /\ status[n] = c /\ live.boot /= 0
          BY <4>2 DEF Quiet
        <5> QED BY <3>1, <5>1
      <4>3. <<n, c>>[2] = c
        OBVIOUS
      <4> HIDE DEF Took
      <4> QED BY <3>2, <3>6, <4>1, <4>2, <4>3
    <3>7. ASSUME NEW n \in Name \ {1} PROVE RowSound(n)'
      BY <3>1 DEF Name
    <3> QED BY <3>1, <3>5, <3>6, <3>7
  <2>7. CASE OtherSession
    BY <2>7 DEF OtherSession, agentFiles, memory, fates
  <2>8. CASE Opens
    <3> DEFINE n == nextAgentSession
    <3>1. n \in Name /\ n \notin Live /\ n \notin Stopped /\ n /= 1
      BY <2>8, NewNumber DEF Opens
    <3>2. tmux[n] = 0 /\ stopped[n] = 0
      BY <3>1 DEF Live, Stopped
    <3>3. /\ tmux' = [tmux EXCEPT ![n] = convs + 1] /\ status' = [status EXCEPT ![n] = 0]
          /\ convs' = convs + 1 /\ up
          /\ UNCHANGED <<hostBoot, up, live, stopped, looked, win, arch, taken, ended>>
      BY <2>8 DEF Opens, NewSession, memory, fates
    <3> HIDE DEF n
    <3>4. AgentTypes'
      BY <3>1, <3>3
    <3>5. ASSUME NEW m \in Name \ {1} PROVE RowSound(m)'
      BY <3>1, <3>2, <3>3
    <3>6. ASSUME NEW m \in Name \ {1}, NEW c \in Conv, <<m, c>> \in taken PROVE Held(m, c)'
      BY <3>1, <3>2, <3>3, <3>6
    <3> QED BY <3>3, <3>4, <3>5, <3>6
  <2>9. CASE unnoteAgentSession
    <3>1. live'.boot = live.boot /\ live'.names = [live.names EXCEPT ![arch] = 0]
          /\ live' = [boot |-> live'.boot, names |-> live'.names]
      BY <2>9 DEF unnoteAgentSession
    <3>2. live.boot = 0 => live'.names = Quiet
      BY <3>1 DEF Quiet
    <3>3. AgentTypes'
      BY <2>9, <3>1, <3>2 DEF unnoteAgentSession, fates
    <3>4. ASSUME NEW n \in Name \ {1} PROVE RowSound(n)'
      BY <2>9 DEF unnoteAgentSession, Name
    <3>5. ASSUME NEW n \in Name \ {1}, NEW c \in Conv, <<n, c>> \in taken PROVE Held(n, c)'
      BY <2>9, <3>5 DEF unnoteAgentSession, fates
    <3> QED BY <2>9, <3>3, <3>4, <3>5 DEF unnoteAgentSession, fates
  <2>10. ASSUME NEW n \in Name, Reports(n) PROVE AgentInv'
    BY <2>10 DEF Reports, memory, fates, Live
  <2>11. ASSUME NEW n \in Name, Exits(n) PROVE AgentInv'
    BY <2>11 DEF Exits, agentFiles, memory, Live
  <2>12. ASSUME NEW n \in Name, wakeAgentSession(n) PROVE AgentInv'
    BY <2>12 DEF wakeAgentSession, Wake, memory, fates, Live, Stopped
  <2>13. ASSUME NEW n \in Name, forgetStopped(n) PROVE AgentInv'
    BY <2>13 DEF forgetStopped, memory, Live, Stopped
  <2>14. ASSUME NEW n \in Name, Archives(n) PROVE AgentInv'
    BY <2>14 DEF Archives, Live, Stopped
  <2>15. ASSUME NEW w \in Window, WindowOpens(w) PROVE AgentInv'
    BY <2>15 DEF WindowOpens, StartOwn, NewSession, fates, Live, Stopped
  <2>16. ASSUME NEW w \in Window, wakeLastStopped(w) PROVE AgentInv'
    BY <2>16 DEF wakeLastStopped, StartOwn, NewSession, Wake, fates, Live, Stopped
  <2> QED BY <2>1, <2>2, <2>3, <2>4, <2>5, <2>6, <2>7, <2>8, <2>9, <2>10, <2>11, <2>12, <2>13,
             <2>14, <2>15, <2>16 DEF AgentsNext
<1> QED BY <1>1, <1>2, PTL DEF AgentsSpec

(* What a restart of the host took of the sessions noted is a stopped row, *)
(* runs again, or was ended since (noteHostRestart, wakeAgentSession).     *)
THEOREM NothingIsLost == AgentsSpec => []NothingLost
<1>1. AgentInv => NothingLost
  BY DEF AgentInv, AgentTypes, Held, Noted, NothingLost, Runs
<1> QED BY <1>1, AgentInvariant, PTL
=============================================================================
