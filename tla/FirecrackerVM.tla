--------------------------- MODULE FirecrackerVM ---------------------------
(***************************************************************************)
(* The Linux VM manager (internal/vmm): Create, Start, Stop and Delete     *)
(* requests running side by side, the goroutine that waits for each        *)
(* Firecracker, the daemon's stop, crash and boot (adoptRunning,           *)
(* reconcileNetworks, autostart), and what survives on the host: the VM    *)
(* folder with vm.json, run.json and vm.lock, the processes, the TAPs.     *)
(*                                                                         *)
(* A disk is the folder's generation: Delete and a failed Create unlink    *)
(* it, a guest that still runs keeps the unlinked files and their lock.    *)
(***************************************************************************)
EXTENDS Integers, FiniteSets

CONSTANTS
    Name,         \* VM names
    Client,       \* API requests served at once
    Starter,      \* the boot goroutine that starts what autostart names
    Subnets,      \* how many /30 networks fit in network_cidr
    Ops,          \* requests made: subset of {"create","start","stop","delete"}
    Keep,         \* fcManager.keep: VMs outlive the daemon
    MaxOps,       \* bound: API requests in a behaviour
    MaxFaults,    \* bound: steps of a request that fail
    MaxDowns      \* bound: daemon stops, crashes and host reboots

ASSUME VMAssumption ==
    /\ Starter \notin Client \cup Name
    /\ Client \cap Name = {}
    /\ Keep \in BOOLEAN
    /\ Ops \subseteq {"create", "start", "stop", "delete"}
    /\ {Subnets, MaxOps, MaxFaults, MaxDowns} \subseteq Nat

VARIABLES
    dir,        \* name -> generation of its folder, 0 when there is none
    meta,       \* name -> vm.json: NoMeta, Torn, or [net, out]
    rec,        \* name -> the pid run.json names, 0 when there is none
    tap,        \* name -> its TAP with the firewall rules, 0 when there is none
    procs,      \* live Firecrackers: [pid, name, gen, lk]: the folder whose
                \* disk it uses, and the folder whose vm.lock it holds
    autostart,  \* names in the autostart file
    up,         \* the daemon: see Phase
    running,    \* m.running: name -> [pid, st], or NoRun
    waits,      \* waitProcess/waitAdopted goroutines: [pid, name, out, step]
    stops,      \* names StopVMs has not started a goroutine for
    locks,      \* m.locks: name -> its mutex, 0 when it has none
    auto,       \* names the autostart goroutine has not come to
    cl,         \* request goroutine -> where it is
    fresh,      \* [pid, gen, mu, tap]: the last ones handed out
    left        \* [ops, faults, downs]: what the bounds leave

vars == <<dir, meta, rec, tap, procs, autostart, up, running, waits, locks,
          stops, auto, cl, fresh, left>>

disk == <<dir, meta, rec>>
host == <<tap, procs>>
duty == <<stops, auto, autostart>>
daemon == <<up, running, waits, locks, duty>>

(* "term": SIGTERM taken, the running names saved; "failed": a listener    *)
(* failed.  The VMs are then kept or stopped, in "closing" with the API    *)
(* shut and in "failing" with it still open.                               *)
Phase == {"up", "term", "failed", "closing", "failing", "down"}

(* Goroutines that run a manager operation: API requests, autostart, and   *)
(* StopVMs's one for each name.                                            *)
Request == Client \cup {Starter} \cup Name
NoMeta == [net |-> 0, out |-> FALSE, ok |-> FALSE]
Torn == [net |-> 0, out |-> TRUE, ok |-> FALSE]
Meta(net, out) == [net |-> net, out |-> out, ok |-> TRUE]
NoRun == [pid |-> 0, st |-> "none"]

(* What a request goroutine knows: the mutex it waits for or holds; from   *)
(* loadMeta, the subnet and whether an outbound interface is set; the      *)
(* folder whose vm.lock it took and the one it opened vm.json in.          *)
Free == [pc |-> "idle", op |-> "none", name |-> Starter, mu |-> 0, net |-> 0,
         out |-> FALSE, gen |-> 0, wr |-> 0, pid |-> 0]

(* loadMeta: absent and unparseable both fail.                             *)
Loads(n) == meta[n].ok

Live(pid) == \E p \in procs : p.pid = pid

(* A channel done is closed: the wait goroutine of that pid, which a Start *)
(* launches after it has registered the runtime, is through.               *)
Done(pid) ==
    /\ \A w \in waits : w.pid # pid
    /\ \A c \in Request : cl[c].pc = "s_rec" => cl[c].pid # pid

(* One step of a request: from pc to pc, the fields in ch changed.         *)
At(c, pc) == cl[c].pc = pc
Goto(c, pc) == cl' = [cl EXCEPT ![c].pc = pc]
Return(c) == cl' = [cl EXCEPT ![c] = Free]

Fail == left.faults > 0 /\ left' = [left EXCEPT !.faults = @ - 1]

-----------------------------------------------------------------------------
(* Locks.                                                                  *)

(* Request c is between lock.Lock() and lock.Unlock().                     *)
Holds(c) == cl[c].pc \notin {"idle", "lock", "c_rm"}

MutexFree(mu) == \A c \in Request : Holds(c) => cl[c].mu # mu

CreateMuFree == \A c \in Request : cl[c].pc \notin {"c_make", "c_disk", "c_meta"}

(* vmLock: the name's mutex, made on first use.  Only fetched here: the    *)
(* Lock() that follows may wait.                                           *)
vmLock(c, op, n) ==
    LET mu == IF locks[n] = 0 THEN fresh.mu + 1 ELSE locks[n]
    IN  /\ locks' = [locks EXCEPT ![n] = mu]
        /\ fresh' = [fresh EXCEPT !.mu = IF mu > @ THEN mu ELSE @]
        /\ cl' = [cl EXCEPT ![c] = [Free EXCEPT !.pc = "lock", !.op = op,
                                               !.name = n, !.mu = mu]]

(* Mutant: run.json is asked, not the lock.                                *)
BugRunLocked(n) == rec[n] # 0

(* The vm.lock now in the folder is held: by a Firecracker, or by a Start, *)
(* which closes its handle only when it returns.                           *)
RunLocked(n) ==
    \/ \E p \in procs : p.name = n /\ p.lk = dir[n]
    \/ \E c \in Request : cl[c].op = "start" /\ cl[c].name = n /\ cl[c].gen = dir[n]

(* A request arrives at the API.                                           *)
Begin(c, op, n) ==
    /\ up \notin {"closing", "down"}
    /\ At(c, "idle")
    /\ op \in Ops
    /\ left.ops > 0
    /\ left' = [left EXCEPT !.ops = @ - 1]
    /\ vmLock(c, op, n)
    /\ UNCHANGED <<disk, host, up, running, waits, duty>>

(* The autostart goroutine, one name after the other.                      *)
AutoStart(n) ==
    /\ up # "down"
    /\ At(Starter, "idle")
    /\ n \in auto
    /\ auto' = auto \ {n}
    /\ vmLock(Starter, "start", n)
    /\ UNCHANGED <<disk, host, up, running, waits, stops, autostart, left>>

FirstStep == [create |-> "c_mu", start |-> "s_check", stop |-> "t_mark",
              delete |-> "d_mark"]

Lock(c) ==
    /\ At(c, "lock")
    /\ MutexFree(cl[c].mu)
    /\ Goto(c, FirstStep[cl[c].op])
    /\ UNCHANGED <<disk, host, daemon, fresh, left>>

-----------------------------------------------------------------------------
(* Create.                                                                 *)

CreateMu(c) ==
    /\ At(c, "c_mu")
    /\ CreateMuFree
    /\ Goto(c, "c_make")
    /\ UNCHANGED <<disk, host, daemon, fresh, left>>

(* allocateNetwork: the first /30 no readable vm.json has.                 *)
Used == {meta[n].net : n \in {k \in Name : Loads(k)}}
Unused == (1..Subnets) \ Used
allocateNetwork == CHOOSE s \in Unused : \A t \in Unused : s <= t

(* Stat, ensureImage, MkdirAll, allocateNetwork.                           *)
CreateDir(c) ==
    LET n == cl[c].name
    IN  /\ At(c, "c_make")
        /\ \/ /\ dir[n] # 0                  \* already exists
              /\ Return(c)
              /\ UNCHANGED <<disk, fresh, left>>
           \/ /\ dir[n] = 0                  \* the image cannot be had
              /\ Fail
              /\ Return(c)
              /\ UNCHANGED <<disk, fresh>>
           \/ /\ dir[n] = 0
              /\ dir' = [dir EXCEPT ![n] = fresh.gen + 1]
              /\ fresh' = [fresh EXCEPT !.gen = @ + 1]
              /\ cl' = [cl EXCEPT ![c].pc = IF Unused = {} THEN "c_rm" ELSE "c_disk",
                                  ![c].net = IF Unused = {} THEN 0 ELSE allocateNetwork]
              /\ UNCHANGED <<meta, rec, left>>
        /\ UNCHANGED <<host, daemon>>

(* cloneLinuxDisk, resize2fs, configureLinuxGuest; then saveMeta opens     *)
(* vm.json, which truncates it.                                            *)
CreateDisk(c) ==
    /\ At(c, "c_disk")
    /\ \/ Fail /\ Goto(c, "c_rm") /\ UNCHANGED meta
       \/ /\ Goto(c, "c_meta")
          /\ meta' = [meta EXCEPT ![cl[c].name] = Torn]
          /\ UNCHANGED left
    /\ UNCHANGED <<dir, rec, host, daemon, fresh>>

(* Mutant: m.Start is called with the VM's mutex still held.               *)
BugCreateMeta(c) ==
    /\ At(c, "c_meta")
    /\ meta' = [meta EXCEPT ![cl[c].name] = Meta(cl[c].net, FALSE)]
    /\ Goto(c, "c_start")
    /\ UNCHANGED <<dir, rec, host, daemon, fresh, left>>

(* saveMeta's write; both locks released; Create ends in m.Start.          *)
CreateMeta(c) ==
    /\ At(c, "c_meta")
    /\ \/ Fail /\ Goto(c, "c_rm") /\ UNCHANGED <<meta, locks, fresh>>
       \/ /\ meta' = [meta EXCEPT ![cl[c].name] = Meta(cl[c].net, FALSE)]
          /\ vmLock(c, "start", cl[c].name)
          /\ UNCHANGED left
    /\ UNCHANGED <<dir, rec, host, up, running, waits, duty>>

RemoveAll(n) ==
    /\ dir' = [dir EXCEPT ![n] = 0]
    /\ meta' = [meta EXCEPT ![n] = NoMeta]
    /\ rec' = [rec EXCEPT ![n] = 0]

(* A Create that failed removes the folder when its locks are released     *)
(* already: the deferred RemoveAll runs last.                              *)
CreateUndo(c) ==
    /\ At(c, "c_rm")
    /\ RemoveAll(cl[c].name)
    /\ Return(c)
    /\ UNCHANGED <<host, daemon, fresh, left>>

-----------------------------------------------------------------------------
(* Start.                                                                  *)

(* loadMeta, the running check, lockRun.                                   *)
StartCheck(c) ==
    LET n == cl[c].name
    IN  /\ At(c, "s_check")
        /\ \/ /\ ~Loads(n) \/ running[n] # NoRun \/ RunLocked(n)
              /\ Return(c)
           \/ /\ Loads(n) /\ running[n] = NoRun /\ ~RunLocked(n)
              /\ cl' = [cl EXCEPT ![c].pc = "s_net", ![c].gen = dir[n],
                                  ![c].net = meta[n].net, ![c].out = meta[n].out]
        /\ UNCHANGED <<disk, host, daemon, fresh, left>>

(* ensureKernel; setupNetwork up to saveMeta: the helper's cleanup of what *)
(* an earlier run left, and vm.json opened, which truncates it.            *)
StartNet(c) ==
    LET n == cl[c].name
        swept == [tap EXCEPT ![n] = IF cl[c].out THEN 0 ELSE @]
    IN  /\ At(c, "s_net")
        /\ \/ Fail /\ Return(c) /\ tap' \in {tap, swept} /\ UNCHANGED meta
           \/ /\ dir[n] = 0
              /\ Return(c)
              /\ tap' = swept
              /\ UNCHANGED <<meta, left>>
           \/ /\ dir[n] # 0
              /\ cl' = [cl EXCEPT ![c].pc = "s_meta", ![c].wr = dir[n]]
              /\ tap' = swept
              /\ meta' = [meta EXCEPT ![n] = Torn]
              /\ UNCHANGED left
        /\ UNCHANGED <<dir, rec, procs, daemon, fresh>>

(* saveMeta's write, into the file that was opened, and its Chown, of      *)
(* whatever has the path by then; the helper's setup, which deletes and    *)
(* makes the TAP and rolls back if it fails.                               *)
StartMeta(c) ==
    LET n == cl[c].name
        there == dir[n] = cl[c].wr
        written == IF there THEN [meta EXCEPT ![n] = Meta(cl[c].net, TRUE)] ELSE meta
    IN  /\ At(c, "s_meta")
        /\ \/ Fail /\ Return(c) /\ UNCHANGED <<meta, tap, fresh>>
           \/ /\ ~there /\ meta[n] = NoMeta
              /\ Return(c)
              /\ UNCHANGED <<meta, tap, fresh, left>>
           \/ /\ there \/ meta[n] # NoMeta
              /\ meta' = written
              /\ \/ Fail /\ Return(c) /\ tap' = [tap EXCEPT ![n] = 0] /\ UNCHANGED fresh
                 \/ /\ Goto(c, "s_spawn")
                    /\ tap' = [tap EXCEPT ![n] = fresh.tap + 1]
                    /\ fresh' = [fresh EXCEPT !.tap = @ + 1]
                    /\ UNCHANGED left
        /\ UNCHANGED <<dir, rec, procs, daemon>>

(* writeFirecrackerConfig and cmd.Start, by path: the disk is the one that *)
(* is there now, the lock the one taken.  A failure undoes the network.    *)
StartSpawn(c) ==
    LET n == cl[c].name
        undo == Return(c) /\ tap' = [tap EXCEPT ![n] = 0] /\ UNCHANGED <<procs, fresh>>
    IN  /\ At(c, "s_spawn")
        /\ \/ Fail /\ undo
           \/ dir[n] = 0 /\ undo /\ UNCHANGED left
           \/ /\ dir[n] # 0
              /\ procs' = procs \cup {[pid |-> fresh.pid + 1, name |-> n,
                                      gen |-> dir[n], lk |-> cl[c].gen]}
              /\ fresh' = [fresh EXCEPT !.pid = @ + 1]
              /\ cl' = [cl EXCEPT ![c].pc = "s_reg", ![c].pid = fresh.pid + 1]
              /\ UNCHANGED <<tap, left>>
        /\ UNCHANGED <<disk, daemon>>

StartRegister(c) ==
    LET n == cl[c].name
    IN  /\ At(c, "s_reg")
        /\ running' = [running EXCEPT ![n] = [pid |-> cl[c].pid, st |-> "starting"]]
        /\ Goto(c, "s_rec")
        /\ UNCHANGED <<disk, host, up, waits, locks, duty, fresh, left>>

(* writeRunRecord, by path, whose failure is only logged (a process that   *)
(* has died is still in /proc, unreaped); then go waitProcess.             *)
StartRecord(c) ==
    LET n == cl[c].name
    IN  /\ At(c, "s_rec")
        /\ \/ Keep /\ Fail /\ UNCHANGED rec
           \/ /\ rec' = [rec EXCEPT ![n] = IF Keep /\ dir[n] # 0 THEN cl[c].pid ELSE @]
              /\ UNCHANGED left
        /\ waits' = waits \cup {[pid |-> cl[c].pid, name |-> n, out |-> TRUE, step |-> "wait"]}
        /\ Goto(c, "s_wait")
        /\ UNCHANGED <<dir, meta, host, up, running, locks, duty, fresh>>

(* Half a second on, the VM is "running" unless it has ended.              *)
StartSettle(c) ==
    LET n == cl[c].name
    IN  /\ At(c, "s_wait")
        /\ \/ Done(cl[c].pid) /\ Return(c) /\ UNCHANGED running
           \/ /\ ~Done(cl[c].pid)
              /\ running' = [running EXCEPT ![n].st =
                               IF running[n].pid = cl[c].pid THEN "running" ELSE @]
              /\ Goto(c, "s_ssh")
        /\ UNCHANGED <<disk, host, up, waits, locks, duty, fresh, left>>

(* waitSSH returns: ready, timed out, cancelled, or the process ended.     *)
StartReady(c) ==
    /\ At(c, "s_ssh")
    /\ Return(c)
    /\ UNCHANGED <<disk, host, daemon, fresh, left>>

-----------------------------------------------------------------------------
(* A Firecracker ends, by itself or because Stop or Delete told it to.     *)

GuestExits(p) ==
    /\ p \in procs
    /\ procs' = procs \ {p}
    /\ UNCHANGED <<disk, tap, daemon, cl, fresh, left>>

(* processEnded: run.json and the network go first (the helper may fail,   *)
(* which is only logged) ...                                               *)
EndedCleanup(w) ==
    /\ w \in waits
    /\ w.step = "wait"
    /\ ~Live(w.pid)
    /\ rec' = [rec EXCEPT ![w.name] = 0]
    /\ \/ tap' = [tap EXCEPT ![w.name] = IF w.out THEN 0 ELSE @] /\ UNCHANGED left
       \/ w.out /\ Fail /\ UNCHANGED tap
    /\ waits' = (waits \ {w}) \cup {[w EXCEPT !.step = "drop"]}
    /\ UNCHANGED <<dir, meta, procs, up, running, locks, duty, cl, fresh>>

(* ... and the runtime last, so that no Start comes in between.            *)
EndedDrop(w) ==
    /\ w \in waits
    /\ w.step = "drop"
    /\ running' = [running EXCEPT ![w.name] = IF @.pid = w.pid THEN NoRun ELSE @]
    /\ waits' = waits \ {w}
    /\ UNCHANGED <<disk, host, up, locks, duty, cl, fresh, left>>

-----------------------------------------------------------------------------
(* Stop and Delete.                                                        *)

(* The runtime, if any, is marked and told to power off.                   *)
Mark(c, next) ==
    LET n == cl[c].name
    IN  /\ running' = [running EXCEPT ![n].st = IF running[n] = NoRun THEN @ ELSE "stopping"]
        /\ cl' = [cl EXCEPT ![c].pc = next, ![c].pid = running[n].pid,
                            ![c].out = meta[n].out]

StopMark(c) ==
    LET n == cl[c].name
    IN  /\ At(c, "t_mark")
        /\ \/ /\ ~Loads(n) \/ running[n] = NoRun
              /\ Return(c)
              /\ UNCHANGED running
           \/ Loads(n) /\ running[n] # NoRun /\ Mark(c, "t_wait")
        /\ UNCHANGED <<disk, host, up, waits, locks, duty, fresh, left>>

(* stopRuntime: poweroff, SIGTERM, SIGKILL, until done is closed or ten    *)
(* seconds after the last of them.                                         *)
StopWait(c) ==
    /\ At(c, "t_wait")
    /\ \/ Fail
       \/ Done(cl[c].pid) /\ UNCHANGED left
    /\ Return(c)
    /\ UNCHANGED <<disk, host, daemon, fresh>>

DeleteMark(c) ==
    LET n == cl[c].name
    IN  /\ At(c, "d_mark")
        /\ \/ ~Loads(n) /\ Return(c) /\ UNCHANGED running
           \/ Loads(n) /\ Mark(c, "d_wait")
        /\ UNCHANGED <<disk, host, up, waits, locks, duty, fresh, left>>

(* The runtime is through, or there was none: cleanupNetwork.  One that    *)
(* does not stop ends the Delete; a helper that fails does not.            *)
DeleteNet(c) ==
    LET n == cl[c].name
    IN  /\ At(c, "d_wait")
        /\ \/ cl[c].pid # 0 /\ Fail /\ Return(c) /\ UNCHANGED tap
           \/ /\ Done(cl[c].pid)
              /\ \/ tap' = [tap EXCEPT ![n] = IF cl[c].out THEN 0 ELSE @] /\ UNCHANGED left
                 \/ cl[c].out /\ Fail /\ UNCHANGED tap
              /\ Goto(c, "d_rm")
        /\ UNCHANGED <<disk, procs, daemon, fresh>>

(* RemoveAll, and the name's mutex leaves the map: a request that waits    *)
(* for it and one that comes later no longer exclude each other.  One that *)
(* fails has removed vm.json or not, and keeps the mutex.                  *)
DeleteDir(c) ==
    LET n == cl[c].name
    IN  /\ At(c, "d_rm")
        /\ \/ RemoveAll(n) /\ locks' = [locks EXCEPT ![n] = 0] /\ UNCHANGED left
           \/ /\ Fail
              /\ meta' \in {meta, [meta EXCEPT ![n] = NoMeta]}
              /\ UNCHANGED <<dir, rec, locks>>
        /\ Return(c)
        /\ UNCHANGED <<host, up, running, waits, duty, fresh>>

-----------------------------------------------------------------------------
(* The daemon stops and starts.                                            *)

(* RunningVMNames.                                                         *)
RunningNames == {n \in Name : Loads(n) /\ running[n].st = "running"}

(* wait: SIGTERM saves what is running for the next daemon; a listener     *)
(* that fails saves nothing.                                               *)
ShutDown(phase) ==
    /\ up = "up"
    /\ left.downs > 0
    /\ left' = [left EXCEPT !.downs = @ - 1]
    /\ phase \in {"term", "failed"}
    /\ up' = phase
    /\ autostart' = IF phase = "term" THEN RunningNames ELSE autostart
    /\ UNCHANGED <<disk, host, running, waits, locks, stops, auto, cl, fresh>>

(* serveWait: the VMs running now are left for the next daemon, or StopVMs *)
(* stops them.                                                             *)
KeepOrStop(keepVMs) ==
    /\ up \in {"term", "failed"}
    /\ keepVMs => Keep
    /\ up' = IF up = "term" THEN "closing" ELSE "failing"
    /\ stops' = IF keepVMs THEN {} ELSE RunningNames
    /\ UNCHANGED <<disk, host, running, waits, locks, auto, autostart, cl, fresh, left>>

StopEach(n) ==
    /\ n \in stops
    /\ stops' = stops \ {n}
    /\ vmLock(n, "stop", n)
    /\ UNCHANGED <<disk, host, up, running, waits, auto, autostart, left>>

(* The process is gone, and with it everything it remembered.              *)
Forget ==
    /\ up' = "down"
    /\ running' = [n \in Name |-> NoRun]
    /\ waits' = {}
    /\ locks' = [n \in Name |-> 0]
    /\ stops' = {}
    /\ auto' = {}
    /\ cl' = [c \in Request |-> Free]
    /\ UNCHANGED <<disk, autostart, fresh>>

(* Pdeathsig: without keep the Firecrackers die with the daemon.           *)
Orphans == IF Keep THEN procs ELSE {}

(* StopVMs has waited for all of its goroutines.                           *)
Exit ==
    /\ up \in {"closing", "failing"}
    /\ stops = {}
    /\ \A n \in Name : At(n, "idle")
    /\ procs' = Orphans
    /\ Forget
    /\ UNCHANGED <<tap, left>>

Crash ==
    /\ up # "down"
    /\ left.downs > 0
    /\ left' = [left EXCEPT !.downs = @ - 1]
    /\ procs' = Orphans
    /\ Forget
    /\ UNCHANGED tap

HostReboot ==
    /\ left.downs > 0
    /\ left' = [left EXCEPT !.downs = @ - 1]
    /\ procs' = {}
    /\ tap' = [n \in Name |-> 0]
    /\ Forget

(* openRecorded: the process run.json names still runs, for this VM.       *)
Survivor(n) == \E p \in procs : p.pid = rec[n] /\ p.name = n

(* Mutant: only a VM the last daemon listed when it stopped is adopted.    *)
BugAdopts(n) == dir[n] # 0 /\ Loads(n) /\ Survivor(n) /\ n \in autostart

Adopts(n) == dir[n] # 0 /\ Loads(n) /\ Survivor(n)

(* Mutant: reconcileNetworks runs before adoptRunning.                     *)
BugBootEffects ==
    /\ rec' = [n \in Name |-> IF Loads(n) /\ ~Survivor(n) THEN 0 ELSE rec[n]]
    /\ tap' = [n \in Name |-> IF Loads(n) /\ meta[n].out THEN 0 ELSE tap[n]]

(* New: adoptRunning drops the records of processes that are gone,         *)
(* reconcileNetworks takes the TAPs of VMs that were not adopted.          *)
BootEffects ==
    /\ rec' = [n \in Name |-> IF Loads(n) /\ ~Survivor(n) THEN 0 ELSE rec[n]]
    /\ tap' = [n \in Name |-> IF Adopts(n) \/ ~Loads(n) \/ ~meta[n].out THEN tap[n] ELSE 0]

(* reconcileNetworks cannot parse a vm.json: New returns its error.        *)
Refuses == \E n \in Name : meta[n] = Torn

Boot ==
    /\ up = "down"
    /\ ~Refuses
    /\ BootEffects
    /\ up' = "up"
    /\ running' = [n \in Name |-> IF Adopts(n) THEN [pid |-> rec[n], st |-> "running"]
                                               ELSE NoRun]
    /\ waits' = {[pid |-> rec[n], name |-> n, out |-> meta[n].out, step |-> "wait"] :
                   n \in {k \in Name : Adopts(k)}}
    /\ auto' = autostart
    /\ autostart' = {}
    /\ UNCHANGED <<dir, meta, procs, locks, stops, cl, fresh, left>>

(* It exits before it has taken the autostart record: for a vm.json it     *)
(* cannot read, or for something outside this model (a port in use).       *)
BootFails ==
    /\ up = "down"
    /\ \/ Refuses /\ UNCHANGED left
       \/ ~Refuses /\ Fail
    /\ BootEffects
    /\ UNCHANGED <<dir, meta, procs, daemon, cl, fresh>>

-----------------------------------------------------------------------------
Init ==
    /\ dir = [n \in Name |-> 0]
    /\ meta = [n \in Name |-> NoMeta]
    /\ rec = [n \in Name |-> 0]
    /\ tap = [n \in Name |-> 0]
    /\ procs = {}
    /\ autostart = {}
    /\ up = "up"
    /\ running = [n \in Name |-> NoRun]
    /\ waits = {}
    /\ locks = [n \in Name |-> 0]
    /\ stops = {} /\ auto = {}
    /\ cl = [c \in Request |-> Free]
    /\ fresh = [pid |-> 0, gen |-> 0, mu |-> 0, tap |-> 0]
    /\ left = [ops |-> MaxOps, faults |-> MaxFaults, downs |-> MaxDowns]

(* A request goroutine takes its next step.                                *)
Step(c) ==
    \/ Lock(c) \/ CreateMu(c) \/ CreateDir(c) \/ CreateDisk(c) \/ CreateMeta(c)
    \/ CreateUndo(c)
    \/ StartCheck(c) \/ StartNet(c) \/ StartMeta(c) \/ StartSpawn(c)
    \/ StartRegister(c) \/ StartRecord(c) \/ StartSettle(c) \/ StartReady(c)
    \/ StopMark(c) \/ StopWait(c) \/ DeleteMark(c) \/ DeleteNet(c) \/ DeleteDir(c)

Ended == \E w \in waits : EndedCleanup(w) \/ EndedDrop(w)

Next ==
    \/ \E c \in Client, op \in Ops, n \in Name : Begin(c, op, n)
    \/ \E n \in Name : AutoStart(n)
    \/ \E c \in Request : Step(c)
    \/ \E p \in procs : GuestExits(p)
    \/ Ended
    \/ \E phase \in {"term", "failed"} : ShutDown(phase)
    \/ \E k \in BOOLEAN : KeepOrStop(k)
    \/ \E n \in Name : StopEach(n)
    \/ Exit \/ Crash \/ HostReboot \/ Boot \/ BootFails

Spec == Init /\ [][Next]_vars

(* A stop that waits for p has sent it SIGKILL, or will.                   *)
Killed(p) == \E c \in Request : cl[c].pc \in {"t_wait", "d_wait"} /\ cl[c].pid = p.pid

(* Goroutines run, a mutex wakes those who wait for it in turn, waitSSH    *)
(* and the downloads time out, and SIGKILL works.  Nothing is assumed of a *)
(* guest left alone, of requests to come, or of the daemon's life.         *)
Fairness ==
    /\ \A c \in Request : SF_vars(Step(c))
    /\ WF_vars(Ended)
    /\ WF_vars(\E p \in procs : Killed(p) /\ GuestExits(p))

FairSpec == Spec /\ Fairness

-----------------------------------------------------------------------------
(* Properties.                                                             *)

(* vm.lock "is what keeps any daemon from booting a second guest on a disk *)
(* that is in use", whichever daemon started the first.                    *)
OneGuestPerDisk ==
    \A p, q \in procs : (p.name = q.name /\ p.gen = q.gen) => p = q

(* A guest never loses the TAP it runs on: not to a request, to the        *)
(* goroutine that cleans up after another one or to a daemon that stops,   *)
(* and, once run.json names it, not to a daemon that dies and the next one *)
(* that comes up ("the guest never notices").                              *)
GuestKeepsTap ==
    [][\A p \in procs \cap procs' :
         /\ up # "down" /\ tap[p.name] # 0 => tap'[p.name] = tap[p.name]
         /\ up = "down" /\ rec[p.name] = p.pid => tap'[p.name] = tap[p.name]]_vars

(* A guest recorded in run.json is the runtime of whatever daemon is up:   *)
(* the one that started it or one that adopted it can stop it.             *)
RecordedIsManaged ==
    up # "down" => \A p \in procs : rec[p.name] = p.pid => running[p.name].pid = p.pid

(* "the VMs still running now come back with the next start": one that a   *)
(* daemon was told to bring back and has not come to is not forgotten when *)
(* that daemon is itself stopped.                                          *)
AutostartNotForgotten ==
    [][(up = "up" /\ up' = "term") => auto \subseteq autostart']_vars

(* Every request returns, whatever else goes on: no mutex is held for ever *)
(* and no one waits for a runtime that never ends.                         *)
RequestsFinish == \A c \in Request : []<>(cl[c].pc = "idle")
=============================================================================
