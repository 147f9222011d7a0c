------------------------------- MODULE QemuVM -------------------------------
(***************************************************************************)
(* The Windows VM manager (manager_windows.go, network_windows.go): QEMU   *)
(* children of the daemon, one directory and one guest address per VM, a   *)
(* mutex per name that Delete throws away, createMu around every Create,   *)
(* and a job object that takes the children along when the daemon dies.    *)
(* A mutex is its name and the number of Deletes of that name before it.   *)
(***************************************************************************)
EXTENDS Naturals, FiniteSets, FiniteSetsExt

CONSTANTS VM,         \* names
          Req,        \* requests in flight at once
          MaxAddr,    \* guest addresses of the network
          MaxProcs,   \* QEMU processes ever started
          MaxAsks,    \* requests ever made
          MaxDeaths  \* deaths of the daemon

ASSUME QemuAssumption == MaxAddr \in Nat /\ MaxProcs \in Nat

VARIABLES dir,        \* [VM -> "none", "bare" (no vm.json), "whole"]
          addr,       \* [VM -> the guest address in vm.json]
          gen,        \* [VM -> which mutex m.locks holds for it]
          req,        \* [Req -> [op, vm, gen, pc, proc]]
          running,    \* [VM -> process m.running names, 0 without]
          proc,       \* [1..MaxProcs -> [vm, alive, reaped, job]]
          asks, deaths,
          strayed     \* names some request entered on a mutex Delete dropped

qemuVars == <<dir, addr, gen, req, running, proc, asks, deaths, strayed>>

Proc  == 1..MaxProcs
NoVM  == ""
NoReq  == [op |-> "none", vm |-> NoVM, gen |-> 0, pc |-> "idle", proc |-> 0]
NoQemu == [vm |-> NoVM, alive |-> FALSE, reaped |-> TRUE, job |-> TRUE]
Kinds == {"create", "start", "stop", "delete"}
InCreate == {"stat", "dir", "fill", "save"}          \* createMu held
Locked   == {"mu", "load", "spawn", "boot", "halt", "kill", "rm"}
                \union InCreate

QemuInit ==
    /\ dir = [v \in VM |-> "none"] /\ addr = [v \in VM |-> 0]
    /\ gen = [v \in VM |-> 0] /\ req = [r \in Req |-> NoReq]
    /\ running = [v \in VM |-> 0] /\ proc = [p \in Proc |-> NoQemu]
    /\ asks = 0 /\ deaths = 0 /\ strayed = {}

ReqAt(r, pc)   == req[r].pc = pc
ReqGoTo(r, pc) == req' = [req EXCEPT ![r].pc = pc]
ReqReturn(r)   == req' = [req EXCEPT ![r] = NoReq]
Done(p)     == proc[p].reaped
vmFiles        == <<dir, addr, gen>>

\* A handler looks up the name's mutex (vmLock) and waits for it.
Ask(r, op, v) ==
    /\ ReqAt(r, "idle") /\ asks < MaxAsks /\ asks' = asks + 1
    /\ req' = [req EXCEPT ![r] =
                 [op |-> op, vm |-> v, gen |-> gen[v], pc |-> "lock", proc |-> 0]]
    /\ UNCHANGED <<vmFiles, running, proc, deaths, strayed>>

BugMutexFree(r) == TRUE

MutexFree(r) == \A q \in Req \ {r} : ~(req[q].pc \in Locked /\ req[q].vm = req[r].vm
                                    /\ req[q].gen = req[r].gen)

Lock(r) ==
    /\ ReqAt(r, "lock") /\ MutexFree(r)
    /\ ReqGoTo(r, IF req[r].op = "create" THEN "mu" ELSE "load")
    /\ strayed' = IF req[r].gen = gen[req[r].vm] THEN strayed
                                                 ELSE strayed \union {req[r].vm}
    /\ UNCHANGED <<vmFiles, running, proc, asks, deaths>>

-----------------------------------------------------------------------------
(* Create *)

CreateMuFree == \A q \in Req : req[q].pc \notin InCreate

BugCreateMu(r) ==
    /\ ReqAt(r, "mu")
    /\ ReqGoTo(r, "stat")
    /\ UNCHANGED <<vmFiles, running, proc, asks, deaths, strayed>>

CreateMu(r) ==
    /\ ReqAt(r, "mu") /\ CreateMuFree
    /\ ReqGoTo(r, "stat")
    /\ UNCHANGED <<vmFiles, running, proc, asks, deaths, strayed>>

\* "already exists" keeps the directory; so does a failed EnsureImage, as
\* there is none yet.
CreateStat(r) ==
    /\ ReqAt(r, "stat")
    /\ \/ ReqReturn(r)
       \/ dir[req[r].vm] = "none" /\ ReqGoTo(r, "dir")
    /\ UNCHANGED <<vmFiles, running, proc, asks, deaths, strayed>>

\* allocateIP: the first address no readable vm.json claims; none left: undone.
Claimed  == {addr[v] : v \in {w \in VM : dir[w] = "whole"}}
Unclaimed == (1..MaxAddr) \ Claimed

CreateDir(r) ==
    LET v == req[r].vm IN
    /\ ReqAt(r, "dir")
    /\ IF Unclaimed = {}
         THEN ReqReturn(r) /\ UNCHANGED vmFiles
         ELSE /\ dir' = [dir EXCEPT ![v] = "bare"]
              /\ addr' = [addr EXCEPT ![v] = Min(Unclaimed)]
              /\ ReqGoTo(r, "fill") /\ UNCHANGED gen
    /\ UNCHANGED <<running, proc, asks, deaths, strayed>>

\* The base image checked and copied into the directory, sparse.
cloneDisk(r) ==
    /\ ReqAt(r, "fill") /\ ReqGoTo(r, "save")
    /\ UNCHANGED <<vmFiles, running, proc, asks, deaths, strayed>>

\* Seed made and vm.json saved: both mutexes go, and Start follows.
CreateSave(r) ==
    LET v == req[r].vm IN
    /\ ReqAt(r, "save")
    /\ dir' = [dir EXCEPT ![v] = "whole"]
    /\ req' = [req EXCEPT ![r] = [@ EXCEPT !.op = "start", !.gen = gen[v],
                                           !.pc = "lock"]]
    /\ UNCHANGED <<addr, gen, running, proc, asks, deaths, strayed>>

CreateUndo(r) ==
    /\ ReqAt(r, "fill") \/ ReqAt(r, "save")
    /\ dir' = [dir EXCEPT ![req[r].vm] = "none"]
    /\ ReqReturn(r)
    /\ UNCHANGED <<addr, gen, running, proc, asks, deaths, strayed>>

-----------------------------------------------------------------------------
(* Start *)

StartLoad(r) ==
    LET v == req[r].vm IN
    /\ ReqAt(r, "load") /\ req[r].op = "start"
    /\ IF dir[v] /= "whole" \/ running[v] /= 0 THEN ReqReturn(r)
                                               ELSE ReqGoTo(r, "spawn")
    /\ UNCHANGED <<vmFiles, running, proc, asks, deaths, strayed>>

\* cmd.Start, assignToJob (a failure is logged only) and the entry in running.
StartSpawn(r) ==
    LET v == req[r].vm IN
    /\ ReqAt(r, "spawn")
    /\ \E p \in {q \in Proc : proc[q] = NoQemu}, job \in BOOLEAN :
         /\ \A q \in 1..(p - 1) : proc[q] /= NoQemu
         /\ proc' = [proc EXCEPT ![p] =
                       [vm |-> v, alive |-> TRUE, reaped |-> FALSE, job |-> job]]
         /\ running' = [running EXCEPT ![v] = p]
         /\ req' = [req EXCEPT ![r].pc = "boot", ![r].proc = p]
    /\ UNCHANGED <<vmFiles, asks, deaths, strayed>>

\* The EFI store, the log file or the process cannot be made.
StartFails(r) ==
    /\ ReqAt(r, "spawn") /\ ReqReturn(r)
    /\ UNCHANGED <<vmFiles, running, proc, asks, deaths, strayed>>

\* QEMU ends at once, or waitSSH: the guest answers, ends, or does not in
\* time.  The entry in running stays until waitProcess takes it.
StartReady(r) ==
    /\ ReqAt(r, "boot") /\ ReqReturn(r)
    /\ UNCHANGED <<vmFiles, running, proc, asks, deaths, strayed>>

-----------------------------------------------------------------------------
(* A QEMU process ends; waitProcess takes it off running. *)

GuestEnds(p) ==
    /\ proc[p].alive
    /\ proc' = [proc EXCEPT ![p].alive = FALSE]
    /\ UNCHANGED <<vmFiles, req, running, asks, deaths, strayed>>

waitProcess(p) ==
    LET v == proc[p].vm IN
    /\ ~proc[p].alive /\ ~proc[p].reaped
    /\ proc' = [proc EXCEPT ![p].reaped = TRUE]
    /\ running' = [running EXCEPT ![v] = IF @ = p THEN 0 ELSE @]
    /\ UNCHANGED <<vmFiles, req, asks, deaths, strayed>>

-----------------------------------------------------------------------------
(* Stop and Delete *)

\* vm.json and running are read; a Stop of what does not run is an error.
StopLoad(r) ==
    LET v == req[r].vm IN
    /\ ReqAt(r, "load") /\ req[r].op \in {"stop", "delete"}
    /\ IF dir[v] /= "whole" \/ (running[v] = 0 /\ req[r].op = "stop")
         THEN ReqReturn(r)
         ELSE req' = [req EXCEPT ![r].pc = IF running[v] = 0 THEN "rm" ELSE "halt",
                                 ![r].proc = running[v]]
    /\ UNCHANGED <<vmFiles, running, proc, asks, deaths, strayed>>

AfterStop(r) == IF req[r].op = "delete" THEN ReqGoTo(r, "rm") ELSE ReqReturn(r)

\* The guest powers off, or is killed when it does not in time.
stopRuntime(r) ==
    /\ ReqAt(r, "halt")
    /\ IF Done(req[r].proc)
         THEN AfterStop(r) /\ UNCHANGED proc
         ELSE /\ proc' = [proc EXCEPT ![req[r].proc].alive = FALSE]
              /\ ReqGoTo(r, "kill")
    /\ UNCHANGED <<vmFiles, running, asks, deaths, strayed>>

\* "did not stop": ten seconds after the kill nothing has reaped it.
StopKilled(r) ==
    /\ ReqAt(r, "kill")
    /\ \/ Done(req[r].proc) /\ AfterStop(r)
       \/ ~Done(req[r].proc) /\ ReqReturn(r)
    /\ UNCHANGED <<vmFiles, running, proc, asks, deaths, strayed>>

\* RemoveAll, then the mutex leaves m.locks while others may wait for it.  A
\* file that is open cannot be removed.
DeleteDir(r) ==
    LET v == req[r].vm IN
    /\ ReqAt(r, "rm") /\ ReqReturn(r)
    /\ \/ /\ \A p \in Proc : ~(proc[p].alive /\ proc[p].vm = v)
          /\ dir' = [dir EXCEPT ![v] = "none"]
          /\ gen' = [gen EXCEPT ![v] = @ + 1]
       \/ dir' = [dir EXCEPT ![v] = "bare"] /\ UNCHANGED gen
    /\ UNCHANGED <<addr, running, proc, asks, deaths, strayed>>

-----------------------------------------------------------------------------
\* The daemon dies and another takes the state lock: its memory is gone, and
\* with it every QEMU in the job.
Crash ==
    /\ deaths < MaxDeaths /\ deaths' = deaths + 1
    /\ req' = [r \in Req |-> NoReq]
    /\ gen' = [v \in VM |-> 0]
    /\ running' = [v \in VM |-> 0]
    /\ proc' = [p \in Proc |-> IF proc[p] = NoQemu THEN NoQemu ELSE
                  [proc[p] EXCEPT !.alive = @ /\ ~proc[p].job, !.reaped = TRUE]]
    /\ strayed' = {}
    /\ UNCHANGED <<dir, addr, asks>>

ReqStep(r) ==
    \/ Lock(r) \/ CreateMu(r) \/ CreateStat(r) \/ CreateDir(r) \/ cloneDisk(r) \/ CreateSave(r)
    \/ CreateUndo(r) \/ StartLoad(r) \/ StartSpawn(r) \/ StartFails(r)
    \/ StartReady(r) \/ StopLoad(r) \/ stopRuntime(r)
    \/ StopKilled(r) \/ DeleteDir(r)

QemuNext ==
    \/ \E r \in Req : ReqStep(r) \/ \E op \in Kinds, v \in VM : Ask(r, op, v)
    \/ \E p \in Proc : GuestEnds(p) \/ waitProcess(p)
    \/ Crash

QemuSpec == QemuInit /\ [][QemuNext]_qemuVars

-----------------------------------------------------------------------------
(* Properties *)

\* Two VMs never have one guest address, so one MAC and one set of forwards:
\* the scan of allocateIP and the save that claims its choice are one section.
DistinctAddresses ==
    \A v, w \in VM : v /= w /\ dir[v] = "whole" /\ dir[w] = "whole"
                        => addr[v] /= addr[w]

\* The daemon runs two QEMUs on one disk only where a request that waited for
\* the name's mutex got it after a Delete had dropped it from m.locks, so that
\* it and a later request each held "the" mutex.
OneQemuPerDisk ==
    \A p, q \in Proc :
      p /= q /\ proc[p].alive /\ proc[q].alive /\ proc[p].vm = proc[q].vm
        /\ ~proc[p].reaped /\ ~proc[q].reaped => proc[p].vm \in strayed
=============================================================================
