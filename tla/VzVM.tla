------------------------------- MODULE VzVM -------------------------------
(***************************************************************************)
(* The VM manager on macOS (internal/vmm/manager_darwin.go), for one VM    *)
(* name.  Unlike its Linux and Windows siblings it takes no lock per name: *)
(* vzManager.mu guards the map of machines only, dlMu the download.        *)
(* Requests for one name (two browsers, the CLI, the chat tool) interleave *)
(* at every file and machine operation.  The base image, the seed and the  *)
(* network are abstracted to steps that may fail.                          *)
(***************************************************************************)
EXTENDS Naturals, FiniteSets

CONSTANTS
    Req,        \* requests for the one name
    MaxFails    \* steps that fail

Op == {"create", "start", "stop", "delete"}
None == "none"

VARIABLES
    dir,       \* the VM's directory: "none", "part" (no vm.json yet) or "vm"
    mach,      \* the machines made, one per Start: request -> None, "starting", "running", "stopped"
    running,   \* vzManager.running: the request whose machine the name maps to, or None
    req,       \* request -> [op, pc, m]: m the machine it read from the map
    fails

vars == <<dir, mach, running, req, fails>>

Idle == [op |-> None, pc |-> "idle", m |-> None]

Init ==
    /\ dir \in {"none", "vm"}
    /\ mach = [r \in Req |-> None] /\ running = None
    /\ req = [r \in Req |-> Idle] /\ fails = 0

At(r, pc) == req[r].pc = pc
Go(r, pc) == req' = [req EXCEPT ![r].pc = pc]
Live(m) == m # None /\ mach[m] \in {"starting", "running"}

Ask(r, op) ==
    /\ At(r, "idle")
    /\ req' = [req EXCEPT ![r] = [op |-> op, pc |-> IF op = "create" THEN "stat" ELSE "load", m |-> None]]
    /\ UNCHANGED <<dir, mach, running, fails>>

----------------------------------------------------------------------------
(* Create.                                                                 *)
CreateStat(r) ==
    /\ At(r, "stat") /\ Go(r, IF dir = "none" THEN "image" ELSE "end")
    /\ UNCHANGED <<dir, mach, running, fails>>

(* dlMu: one downloads, the others find the image. *)
EnsureImage(r) ==
    /\ At(r, "image") /\ Go(r, "mkdir")
    /\ UNCHANGED <<dir, mach, running, fails>>

(* MkdirAll takes a directory that is there already. *)
CreateDir(r) ==
    /\ At(r, "mkdir") /\ Go(r, "files")
    /\ dir' = IF dir = "none" THEN "part" ELSE dir
    /\ UNCHANGED <<mach, running, fails>>

(* The disk, the seed and vm.json; each needs the directory. *)
CreateFiles(r) ==
    /\ At(r, "files")
    /\ IF dir = "none" THEN Go(r, "undo") /\ dir' = dir ELSE Go(r, "load") /\ dir' = "vm"
    /\ UNCHANGED <<mach, running, fails>>

CreateFails(r) ==
    /\ At(r, "files") /\ fails < MaxFails
    /\ fails' = fails + 1 /\ Go(r, "undo")
    /\ UNCHANGED <<dir, mach, running>>

CreateUndo(r) ==
    /\ At(r, "undo") /\ Go(r, "end")
    /\ dir' = "none"
    /\ UNCHANGED <<mach, running, fails>>

----------------------------------------------------------------------------
(* Start, alone or at the end of Create.                                   *)
loadMeta(r) ==
    /\ At(r, "load")
    /\ Go(r, IF dir # "vm" THEN "end" ELSE IF req[r].op \in {"stop", "delete"} THEN "look" ELSE "check")
    /\ UNCHANGED <<dir, mach, running, fails>>

StartCheck(r) ==
    /\ At(r, "check")
    /\ Go(r, IF running # None /\ mach[running] = "running" THEN "end" ELSE "build")
    /\ UNCHANGED <<dir, mach, running, fails>>

(* buildConfig opens the files; NewVirtualMachine and Start. *)
buildConfig(r) ==
    /\ At(r, "build")
    /\ IF dir # "vm" THEN Go(r, "end") /\ mach' = mach
       ELSE Go(r, "record") /\ mach' = [mach EXCEPT ![r] = "starting"]
    /\ UNCHANGED <<dir, running, fails>>

StartRecord(r) ==
    /\ At(r, "record") /\ Go(r, "wait")
    /\ running' = r
    /\ UNCHANGED <<dir, mach, fails>>

(* Running, its lease and its SSH port, or an error that leaves it so. *)
StartWait(r) ==
    /\ At(r, "wait") /\ Go(r, "end")
    /\ \/ mach[r] = "running"
       \/ fails < MaxFails
    /\ fails' = IF mach[r] = "running" THEN fails ELSE fails + 1
    /\ UNCHANGED <<dir, mach, running>>

Boots(r) ==
    /\ mach[r] = "starting" /\ mach' = [mach EXCEPT ![r] = "running"]
    /\ UNCHANGED <<dir, running, req, fails>>

----------------------------------------------------------------------------
(* Stop and Delete.                                                        *)
LookUp(r) ==
    /\ At(r, "look")
    /\ req' = [req EXCEPT ![r].m = running,
                          ![r].pc = IF req[r].op = "stop" /\ ~Live(running) THEN "end" ELSE "halt"]
    /\ UNCHANGED <<dir, mach, running, fails>>

(* A machine that is still starting cannot be stopped: Stop waits for it   *)
(* and gives up, Delete goes on.                                           *)
Halt(r) ==
    /\ At(r, "halt")
    /\ LET m == req[r].m IN
       IF m # None /\ mach[m] = "running"
       THEN mach' = [mach EXCEPT ![m] = "stopped"] /\ Go(r, "forget")
       ELSE /\ mach' = mach
            /\ Go(r, IF req[r].op = "stop" /\ Live(m) THEN "end" ELSE "forget")
    /\ UNCHANGED <<dir, running, fails>>

forget(r) ==
    /\ At(r, "forget")
    /\ running' = None
    /\ Go(r, IF req[r].op = "delete" THEN "remove" ELSE "end")
    /\ UNCHANGED <<dir, mach, fails>>

DeleteDir(r) ==
    /\ At(r, "remove") /\ Go(r, "end")
    /\ dir' = "none"
    /\ UNCHANGED <<mach, running, fails>>

Next == \E r \in Req :
    \/ \E op \in Op : Ask(r, op)
    \/ CreateStat(r) \/ EnsureImage(r) \/ CreateDir(r) \/ CreateFiles(r) \/ CreateFails(r) \/ CreateUndo(r)
    \/ loadMeta(r) \/ StartCheck(r) \/ buildConfig(r) \/ StartRecord(r) \/ StartWait(r) \/ Boots(r)
    \/ LookUp(r) \/ Halt(r) \/ forget(r) \/ DeleteDir(r)

Spec == Init /\ [][Next]_vars

----------------------------------------------------------------------------
(* A VM whose provisioning is done keeps its directory until it is         *)
(* deleted: "Provisioning is done: keep the directory from here on even if *)
(* boot fails" (manager_darwin.go, Create).                                *)
ProvisionedKept ==
    [][dir = "vm" /\ dir' = "none" => \E r \in Req : At(r, "remove") /\ ~At(r, "remove")']_vars
=============================================================================
