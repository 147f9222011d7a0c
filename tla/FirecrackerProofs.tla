-------------------------- MODULE FirecrackerProofs --------------------------
(***************************************************************************)
(* What FirecrackerVM promises for any number of VMs, requests, faults and *)
(* daemon restarts, as long as nobody deletes a VM: one guest to a disk, a *)
(* recorded guest is managed, a running guest keeps its TAP.  The argument *)
(* goes name by name (Sound): a name's mutex gives a Create or a Start the *)
(* name to itself, vm.lock keeps a Start off a disk in use even where no   *)
(* daemon remembers the guest, and run.json hands it to the next daemon.   *)
(***************************************************************************)
EXTENDS FirecrackerVM, WellFoundedInduction, TLAPS

(* Where a Create or a Start is; what a runtime in m.running may say.      *)
Making  == {"c_disk", "c_meta", "c_rm"}
Booting == {"s_net", "s_meta", "s_spawn"}
Begun   == {"s_reg", "s_rec"}
Place   == {"idle", "lock", "c_mu", "c_make", "s_check", "s_wait", "s_ssh", "t_mark", "t_wait",
            "c_disk", "c_meta", "c_rm", "s_net", "s_meta", "s_spawn", "s_reg", "s_rec"}
Lives   == {"starting", "running", "stopping"}

Frame   == [pc : Place, op : {"none", "create", "start", "stop"}, name : Name \cup {Starter},
            mu : Nat, net : Nat, out : BOOLEAN, gen : Nat, wr : Nat, pid : Nat]
Guest   == [pid : Nat \ {0}, name : Name, gen : Nat, lk : Nat]
Wait    == [pid : Nat \ {0}, name : Name, out : BOOLEAN, step : {"wait", "drop"}]
File    == [net : Nat, out : BOOLEAN, ok : BOOLEAN]
Runtime == {NoRun} \cup [pid : Nat \ {0}, st : Lives]

(* What each variable holds, and what a request at work knows.             *)
Types ==
    /\ dir \in [Name -> Nat] /\ rec \in [Name -> Nat] /\ tap \in [Name -> Nat]
    /\ meta \in [Name -> File]
    /\ procs \subseteq Guest /\ waits \subseteq Wait
    /\ running \in [Name -> Runtime]
    /\ locks \in [Name -> Nat] /\ up \in Phase
    /\ stops \subseteq Name /\ auto \subseteq Name /\ autostart \subseteq Name
    /\ cl \in [Request -> Frame]
    /\ \A c \in Request : cl[c].pc # "idle" => cl[c].name \in Name /\ cl[c].op # "none"
    /\ \A c \in Request : cl[c].pc \in Begun \cup {"s_wait"} => cl[c].pid # 0
    /\ fresh \in [pid : Nat, gen : Nat, mu : Nat, tap : Nat]

(* A name has one mutex for as long as the daemon runs, and one request.   *)
Mutexes ==
    /\ \A n \in Name : locks[n] <= fresh.mu
    /\ \A n, k \in Name : locks[n] = locks[k] /\ locks[n] # 0 => n = k
    /\ \A c \in Request : cl[c].pc # "idle" => cl[c].mu = locks[cl[c].name] /\ cl[c].mu # 0
    /\ \A c, d \in Request : Holds(c) /\ Holds(d) /\ cl[c].mu = cl[d].mu => c = d

(* The places at which a request is alone with its name.                   *)
Active == Making \cup Booting \cup Begun

(* No Firecracker runs for the name.                                       *)
Off(n) == \A p \in procs : p.name # n

(* The folder: no vm.json or run.json without it, run.json only beside a   *)
(* vm.json, and what loadMeta can read is whole.                           *)
Folder(n) ==
    /\ dir[n] = 0 => meta[n] = NoMeta /\ rec[n] = 0
    /\ rec[n] # 0 => meta[n] # NoMeta
    /\ meta[n].ok \/ meta[n] \in {NoMeta, Torn}
    /\ rec[n] <= fresh.pid

(* A guest runs on the disk that is in the folder and holds its vm.lock;   *)
(* it is the only one, and the daemon manages it if run.json names it.     *)
GuestOn(n) ==
    /\ \A p \in procs : p.name = n =>
         /\ dir[n] # 0 /\ p.gen = dir[n] /\ p.lk = dir[n] /\ p.pid <= fresh.pid
         /\ up # "down" /\ rec[n] = p.pid => running[n].pid = p.pid
    /\ \A p, q \in procs : p.name = n /\ q.name = n => p = q

(* A wait goroutine waits for the runtime that m.running names, and when   *)
(* it drops that, the guest has ended.                                     *)
WaitOn(n) ==
    \A w \in waits : w.name = n =>
      /\ running[n].pid = w.pid
      /\ \A p \in procs : p.name = n => p.pid = w.pid
      /\ w.step = "drop" => Off(n)
      /\ \A v \in waits : v.name = n => v = w

(* createDisk and saveMeta of a Create: the name is in nobody else's       *)
(* hands, and nothing can start it.                                        *)
Maker(c, n) ==
    cl[c].pc \in Making /\ cl[c].name = n =>
      /\ dir[n] # 0 /\ ~meta[n].ok /\ rec[n] = 0 /\ Off(n)
      /\ \A d \in Request : cl[d].pc \in Active /\ cl[d].name = n => d = c

(* startVM: its disk is the folder's, no guest runs before its own does,   *)
(* and nobody is registered before it registers.                           *)
Booter(c, n) ==
    cl[c].pc \in Booting \cup Begun /\ cl[c].name = n =>
      /\ dir[n] # 0 /\ cl[c].gen = dir[n] /\ meta[n] # NoMeta
      /\ cl[c].pc = "s_meta" => cl[c].wr = dir[n]
      /\ cl[c].pc \in Booting => Off(n)
      /\ cl[c].pc # "s_rec" => running[n] = NoRun
      /\ cl[c].pc \in Begun => /\ cl[c].pid <= fresh.pid
                               /\ \A p \in procs : p.name = n => p.pid = cl[c].pid
      /\ cl[c].pc = "s_rec" => /\ running[n].pid = cl[c].pid
                               /\ \A w \in waits : w.name # n

(* All of it, of one name.                                                 *)
Sound(n) ==
    /\ Folder(n) /\ GuestOn(n) /\ WaitOn(n)
    /\ \A c \in Request : Maker(c, n) /\ Booter(c, n)

(* A daemon that is down has no request and nothing to stop.               *)
Down == up = "down" => stops = {} /\ \A c \in Request : cl[c].pc = "idle"

(* The inductive invariant.                                                *)
IInv == Types /\ Mutexes /\ Down /\ \A n \in Name : Sound(n)

-----------------------------------------------------------------------------
(* allocateNetwork takes the first free subnet: there is a smallest one.   *)
LEMMA Smallest ==
    ASSUME NEW S, S \subseteq Nat, S # {}
    PROVE  \E s \in S : \A t \in S : s <= t
<1>1. PICK s \in S : \A t \in S : ~(<<t, s>> \in OpToRel(<, Nat))
  BY NatLessThanWellFounded, WFMin, Zenon
<1>2. \A t \in S : ~(t < s)
  BY <1>1 DEF OpToRel
<1> QED BY <1>2

(* A goroutine without a request.                                          *)
LEMMA FreeFrame == Free \in Frame /\ Free.pc = "idle"
  BY VMAssumption DEF Free, Frame, Place

(* vmLock: the name's mutex is one nobody else's name has, and c waits     *)
(* for it.                                                                 *)
LEMMA Fetched ==
    ASSUME Types, NEW c \in Request, NEW op \in {"create", "start", "stop"}, NEW n \in Name,
           vmLock(c, op, n)
    PROVE  /\ locks' \in [Name -> Nat] /\ locks'[n] # 0
           /\ \A k \in Name : k # n => locks'[k] = locks[k]
           /\ locks'[n] = IF locks[n] = 0 THEN fresh.mu + 1 ELSE locks[n]
           /\ fresh' \in [pid : Nat, gen : Nat, mu : Nat, tap : Nat]
           /\ fresh'.pid = fresh.pid /\ fresh'.gen = fresh.gen /\ fresh'.tap = fresh.tap
           /\ fresh'.mu >= fresh.mu /\ fresh'.mu >= locks'[n]
           /\ cl' \in [Request -> Frame]
           /\ \A d \in Request \ {c} : cl'[d] = cl[d]
           /\ cl'[c].pc = "lock" /\ cl'[c].op = op /\ cl'[c].name = n /\ cl'[c].mu = locks'[n]
<1> DEFINE mu == IF locks[n] = 0 THEN fresh.mu + 1 ELSE locks[n]
           new == [Free EXCEPT !.pc = "lock", !.op = op, !.name = n, !.mu = mu]
<1>1. mu \in Nat /\ mu # 0
  BY DEF Types
<1>2. Free \in [pc : {"idle"}, op : {"none"}, name : {Starter}, mu : Nat, net : Nat,
                out : BOOLEAN, gen : Nat, wr : Nat, pid : Nat]
  BY DEF Free
<1>3. new \in [pc : {"lock"}, op : {op}, name : {n}, mu : {mu}, net : Nat,
               out : BOOLEAN, gen : Nat, wr : Nat, pid : Nat]
  BY <1>1, <1>2
<1>4. /\ locks' = [locks EXCEPT ![n] = mu]
      /\ fresh' = [fresh EXCEPT !.mu = IF mu > @ THEN mu ELSE @]
      /\ cl' = [cl EXCEPT ![c] = new]
  BY DEF vmLock
<1> HIDE DEF new, mu
<1>5. new \in Frame
  BY <1>1, <1>3 DEF Frame, Place
<1>6. /\ locks' \in [Name -> Nat] /\ locks'[n] = mu
      /\ \A k \in Name : k # n => locks'[k] = locks[k]
  BY <1>1, <1>4 DEF Types
<1>7. /\ fresh' \in [pid : Nat, gen : Nat, mu : Nat, tap : Nat]
      /\ fresh'.pid = fresh.pid /\ fresh'.gen = fresh.gen /\ fresh'.tap = fresh.tap
      /\ fresh'.mu >= fresh.mu /\ fresh'.mu >= mu
  BY <1>1, <1>4 DEF Types
<1>8. cl' \in [Request -> Frame] /\ (\A d \in Request \ {c} : cl'[d] = cl[d]) /\ cl'[c] = new
  BY <1>4, <1>5 DEF Types
<1> QED BY <1>1, <1>3, <1>6, <1>7, <1>8 DEF mu

(* What saveMeta leaves in vm.json, whole or torn.                         *)
LEMMA Files ==
    /\ Torn \in File /\ NoMeta \in File /\ ~Torn.ok /\ ~NoMeta.ok /\ Torn # NoMeta
    /\ \A net \in Nat : \A out \in BOOLEAN : Meta(net, out) \in File /\ Meta(net, out).ok
  BY DEF Torn, NoMeta, Meta, File

(* What a step of c makes of c, when it goes on and when it returns.       *)
Moved(c) ==
    /\ cl' \in [Request -> Frame] /\ \A d \in Request \ {c} : cl'[d] = cl[d]
    /\ cl[c].pc # "idle" /\ cl[c].name \in Name /\ cl[c].op # "none"

Kept(c) ==
    /\ Moved(c) /\ cl'[c].name = cl[c].name /\ cl'[c].mu = cl[c].mu /\ cl'[c].op = cl[c].op

Same(c) == cl'[c].gen = cl[c].gen /\ cl'[c].wr = cl[c].wr /\ cl'[c].pid = cl[c].pid

(* A request that returns is idle again.                                   *)
LEMMA Returns ==
    ASSUME Types, NEW c \in Request, cl[c].pc # "idle", Return(c)
    PROVE  Moved(c) /\ cl'[c] = Free /\ cl'[c].pc = "idle"
  BY FreeFrame DEF Types, Return, Moved

(* A request that goes on keeps its name, its mutex and what it knows.     *)
LEMMA Goes ==
    ASSUME Types, NEW c \in Request, NEW pc \in Place, cl[c].pc # "idle", Goto(c, pc)
    PROVE  Kept(c) /\ Same(c) /\ cl'[c].pc = pc
<1> DEFINE f == [cl[c] EXCEPT !.pc = pc]
<1>1. f \in Frame /\ f.pc = pc /\ f.name = cl[c].name /\ f.mu = cl[c].mu /\ f.op = cl[c].op
  BY DEF Types, Frame
<1>2. f.gen = cl[c].gen /\ f.wr = cl[c].wr /\ f.pid = cl[c].pid
  BY DEF Types, Frame
<1>3. cl' = [cl EXCEPT ![c] = f]
  BY DEF Goto
<1> HIDE DEF f
<1> QED BY <1>1, <1>2, <1>3 DEF Types, Kept, Moved, Same

-----------------------------------------------------------------------------
(* Steps that change two or more fields of their frame.                    *)
LEMMA CreateDirFacts ==
    ASSUME Types, NEW c \in Request, CreateDir(c)
    PROVE  /\ cl[c].pc = "c_make" /\ Moved(c) /\ UNCHANGED <<meta, rec, host, daemon>>
           /\ \/ cl'[c] = Free /\ UNCHANGED <<dir, fresh>>
              \/ /\ dir[cl[c].name] = 0 /\ dir' = [dir EXCEPT ![cl[c].name] = fresh.gen + 1]
                 /\ fresh' = [fresh EXCEPT !.gen = @ + 1]
                 /\ Kept(c) /\ cl'[c].pc \in {"c_rm", "c_disk"}
<1>1. cl[c].pc = "c_make" /\ UNCHANGED <<meta, rec, host, daemon>>
  BY DEF CreateDir, At, disk
<1>2. CASE Return(c) /\ UNCHANGED <<dir, fresh>>
  BY <1>1, <1>2, Returns
<1> DEFINE out == Unused = {}
           pc == IF Unused = {} THEN "c_rm" ELSE "c_disk"
           net == IF Unused = {} THEN 0 ELSE allocateNetwork
           f == [cl[c] EXCEPT !.pc = pc, !.net = net]
<1>3. CASE /\ dir[cl[c].name] = 0 /\ dir' = [dir EXCEPT ![cl[c].name] = fresh.gen + 1]
           /\ fresh' = [fresh EXCEPT !.gen = @ + 1]
           /\ cl' = [cl EXCEPT ![c] = f]
  <2>1. net \in Nat
    <3>1. CASE Unused # {}
      <4>1. Unused \subseteq Nat
        BY DEF Unused
      <4>2. \E s \in Unused : \A t \in Unused : s <= t
        BY <3>1, <4>1, Smallest
      <4>3. allocateNetwork \in Unused
        BY <4>2 DEF allocateNetwork
      <4> QED BY <3>1, <4>1, <4>3
    <3> QED BY <3>1
  <2>2. pc \in {"c_rm", "c_disk"}
    OBVIOUS
  <2> HIDE DEF net, pc
  <2>3. f \in Frame /\ f.pc = pc /\ f.name = cl[c].name /\ f.mu = cl[c].mu /\ f.op = cl[c].op
    BY <2>1, <2>2 DEF Types, Frame, Place
  <2> HIDE DEF f
  <2> QED BY <1>1, <1>3, <2>2, <2>3 DEF Types, Kept, Moved
<1> QED BY <1>2, <1>3 DEF CreateDir, disk

(* startVM up to the lock: what loadMeta and vm.lock let pass.             *)
LEMMA StartCheckFacts ==
    ASSUME Types, NEW c \in Request, StartCheck(c)
    PROVE  /\ cl[c].pc = "s_check" /\ Moved(c) /\ UNCHANGED <<disk, host, daemon, fresh>>
           /\ \/ cl'[c] = Free
              \/ /\ Kept(c) /\ cl'[c].pc = "s_net" /\ cl'[c].gen = dir[cl[c].name]
                 /\ meta[cl[c].name].ok /\ running[cl[c].name] = NoRun /\ ~RunLocked(cl[c].name)
<1>1. cl[c].pc = "s_check" /\ UNCHANGED <<disk, host, daemon, fresh>>
  BY DEF StartCheck, At
<1>2. CASE Return(c)
  BY <1>1, <1>2, Returns
<1> DEFINE n == cl[c].name
           f == [cl[c] EXCEPT !.pc = "s_net", !.gen = dir[n], !.net = meta[n].net, !.out = meta[n].out]
<1>3. CASE /\ Loads(n) /\ running[n] = NoRun /\ ~RunLocked(n) /\ cl' = [cl EXCEPT ![c] = f]
  <2>1. n \in Name /\ dir[n] \in Nat /\ meta[n].net \in Nat /\ meta[n].out \in BOOLEAN
    BY <1>1 DEF Types, File
  <2> HIDE DEF n
  <2>2. /\ f \in Frame /\ f.pc = "s_net" /\ f.name = cl[c].name /\ f.mu = cl[c].mu
        /\ f.op = cl[c].op /\ f.gen = dir[n]
    BY <2>1 DEF Types, Frame, Place
  <2> HIDE DEF f
  <2> QED BY <1>1, <1>3, <2>2 DEF Types, Kept, Moved, Loads, n
<1> QED BY <1>2, <1>3 DEF StartCheck

(* startVM's network: a TAP of its own name.                               *)
LEMMA StartNetFacts ==
    ASSUME Types, NEW c \in Request, StartNet(c)
    PROVE  LET n == cl[c].name
           IN  /\ cl[c].pc = "s_net" /\ Moved(c) /\ UNCHANGED <<dir, rec, procs, daemon, fresh>>
               /\ tap' \in {tap, [tap EXCEPT ![n] = 0]}
               /\ \/ cl'[c] = Free /\ UNCHANGED meta
                  \/ /\ Kept(c) /\ cl'[c].pc = "s_meta"
                     /\ cl'[c].gen = cl[c].gen /\ cl'[c].wr = dir[n]
                     /\ meta' = [meta EXCEPT ![n] = Torn]
<1>1. cl[c].pc = "s_net" /\ UNCHANGED <<dir, rec, procs, daemon, fresh>>
  BY DEF StartNet, At
<1> DEFINE n == cl[c].name
           f == [cl[c] EXCEPT !.pc = "s_meta", !.wr = dir[n]]
<1>2. tap' \in {tap, [tap EXCEPT ![n] = 0]}
  <2>1. tap' \in {tap, [tap EXCEPT ![n] = IF cl[c].out THEN 0 ELSE @]}
    BY DEF StartNet
  <2>2. n \in Name
    BY <1>1 DEF Types
  <2>3. CASE cl[c].out
    BY <2>1, <2>3
  <2>4. CASE ~cl[c].out
    BY <2>1, <2>2, <2>4 DEF Types
  <2> QED BY <2>3, <2>4
<1>3. CASE Return(c) /\ UNCHANGED meta
  BY <1>1, <1>2, <1>3, Returns
<1>4. CASE cl' = [cl EXCEPT ![c] = f] /\ meta' = [meta EXCEPT ![n] = Torn]
  <2>1. n \in Name /\ dir[n] \in Nat
    BY <1>1 DEF Types
  <2> HIDE DEF n
  <2>2. /\ f \in Frame /\ f.pc = "s_meta" /\ f.name = cl[c].name /\ f.mu = cl[c].mu
        /\ f.op = cl[c].op /\ f.gen = cl[c].gen /\ f.wr = dir[n]
    BY <2>1 DEF Types, Frame, Place
  <2> HIDE DEF f
  <2> QED BY <1>1, <1>2, <1>4, <2>2 DEF Types, Kept, Moved, n
<1> QED BY <1>3, <1>4 DEF StartNet

(* startVM's saveMeta of the outbound interface, and its undoing.          *)
LEMMA StartMetaFacts ==
    ASSUME Types, NEW c \in Request, StartMeta(c)
    PROVE  LET n == cl[c].name
           IN  /\ cl[c].pc = "s_meta" /\ Moved(c) /\ UNCHANGED <<dir, rec, procs, daemon>>
               /\ meta' = meta \/ meta' = [meta EXCEPT ![n] = Meta(cl[c].net, TRUE)]
               /\ \E v \in Nat : tap' = tap \/ tap' = [tap EXCEPT ![n] = v]
               /\ fresh' = fresh \/ fresh' = [fresh EXCEPT !.tap = @ + 1]
               /\ \/ cl'[c] = Free
                  \/ Kept(c) /\ Same(c) /\ cl'[c].pc = "s_spawn"
<1>1. cl[c].pc = "s_meta" /\ UNCHANGED <<dir, rec, procs, daemon>>
  BY DEF StartMeta, At
<1>2. Return(c) \/ Goto(c, "s_spawn")
  BY DEF StartMeta
<1>3. /\ Moved(c)
      /\ cl'[c] = Free \/ (Kept(c) /\ Same(c) /\ cl'[c].pc = "s_spawn")
  <2>1. "s_spawn" \in Place
    BY DEF Place
  <2> QED BY <1>1, <1>2, <2>1, Returns, Goes DEF Kept
<1>4. \E v \in Nat : tap' = tap \/ tap' = [tap EXCEPT ![cl[c].name] = v]
  <2>1. 0 \in Nat /\ fresh.tap + 1 \in Nat
    BY DEF Types
  <2>2. tap' = tap \/ tap' = [tap EXCEPT ![cl[c].name] = 0] \/ tap' = [tap EXCEPT ![cl[c].name] = fresh.tap + 1]
    BY DEF StartMeta
  <2> QED BY <2>1, <2>2
<1> QED BY <1>1, <1>3, <1>4 DEF StartMeta

(* startVM runs Firecracker, or takes the TAP down again.                  *)
LEMMA StartSpawnFacts ==
    ASSUME Types, NEW c \in Request, StartSpawn(c)
    PROVE  LET n == cl[c].name
           IN  /\ cl[c].pc = "s_spawn" /\ Moved(c) /\ UNCHANGED <<disk, daemon>>
               /\ \/ cl'[c] = Free /\ tap' = [tap EXCEPT ![n] = 0] /\ UNCHANGED <<procs, fresh>>
                  \/ /\ Kept(c) /\ cl'[c].pc = "s_reg" /\ cl'[c].gen = cl[c].gen
                     /\ cl'[c].pid = fresh.pid + 1
                     /\ procs' = procs \cup {[pid |-> fresh.pid + 1, name |-> n,
                                               gen |-> dir[n], lk |-> cl[c].gen]}
                     /\ fresh' = [fresh EXCEPT !.pid = @ + 1] /\ UNCHANGED tap
<1>1. cl[c].pc = "s_spawn" /\ UNCHANGED <<disk, daemon>>
  BY DEF StartSpawn, At
<1> DEFINE n == cl[c].name
           f == [cl[c] EXCEPT !.pc = "s_reg", !.pid = fresh.pid + 1]
<1>2. CASE Return(c) /\ tap' = [tap EXCEPT ![n] = 0] /\ UNCHANGED <<procs, fresh>>
  BY <1>1, <1>2, Returns
<1>3. CASE /\ cl' = [cl EXCEPT ![c] = f] /\ UNCHANGED tap
           /\ procs' = procs \cup {[pid |-> fresh.pid + 1, name |-> n, gen |-> dir[n], lk |-> cl[c].gen]}
           /\ fresh' = [fresh EXCEPT !.pid = @ + 1]
  <2>1. fresh.pid + 1 \in Nat
    BY DEF Types
  <2>2. /\ f \in Frame /\ f.pc = "s_reg" /\ f.name = cl[c].name /\ f.mu = cl[c].mu
        /\ f.op = cl[c].op /\ f.gen = cl[c].gen /\ f.pid = fresh.pid + 1
    BY <2>1 DEF Types, Frame, Place
  <2> HIDE DEF f
  <2> QED BY <1>1, <1>3, <2>2 DEF Types, Kept, Moved
<1> QED BY <1>2, <1>3 DEF StartSpawn

(* Stop marks the runtime as stopping, if it runs.                         *)
LEMMA StopMarkFacts ==
    ASSUME Types, NEW c \in Request, StopMark(c)
    PROVE  LET n == cl[c].name
           IN  /\ cl[c].pc = "t_mark" /\ Moved(c)
               /\ UNCHANGED <<disk, host, up, waits, locks, duty, fresh>>
               /\ \/ cl'[c] = Free /\ UNCHANGED running
                  \/ /\ Kept(c) /\ cl'[c].pc = "t_wait" /\ running[n] # NoRun
                     /\ running' = [running EXCEPT ![n].st = "stopping"]
<1>1. cl[c].pc = "t_mark" /\ UNCHANGED <<disk, host, up, waits, locks, duty, fresh>>
  BY DEF StopMark, At
<1> DEFINE n == cl[c].name
           f == [cl[c] EXCEPT !.pc = "t_wait", !.pid = running[n].pid, !.out = meta[n].out]
<1>2. CASE Return(c) /\ UNCHANGED running
  BY <1>1, <1>2, Returns
<1>3. CASE running[n] # NoRun /\ Mark(c, "t_wait")
  <2>1. cl' = [cl EXCEPT ![c] = f] /\ running' = [running EXCEPT ![n].st = "stopping"]
    BY <1>3 DEF Mark
  <2>2. n \in Name /\ running[n].pid \in Nat /\ meta[n].out \in BOOLEAN
    BY <1>1 DEF Types, Runtime, NoRun, File
  <2> HIDE DEF n
  <2>3. /\ f \in Frame /\ f.pc = "t_wait" /\ f.name = cl[c].name /\ f.mu = cl[c].mu
        /\ f.op = cl[c].op
    BY <2>2 DEF Types, Frame, Place
  <2> HIDE DEF f
  <2> QED BY <1>1, <1>3, <2>1, <2>3 DEF Types, Kept, Moved, n
<1> QED BY <1>2, <1>3 DEF StopMark

(* A step that keeps the frames' types keeps what they say of a request.   *)
LEMMA FramesKept ==
    ASSUME Types, NEW c \in Request, Moved(c), cl'[c] = Free \/ Kept(c),
           cl'[c].pc \in Begun \cup {"s_wait"} => cl'[c].pid # 0
    PROVE  /\ cl' \in [Request -> Frame]
           /\ \A d \in Request : cl'[d].pc # "idle" => cl'[d].name \in Name /\ cl'[d].op # "none"
           /\ \A d \in Request : cl'[d].pc \in Begun \cup {"s_wait"} => cl'[d].pid # 0
  BY FreeFrame DEF Types, Moved, Kept

(* m.running with one name's state changed.                                *)
LEMMA RuntimeSet ==
    ASSUME Types, NEW n \in Name, NEW st \in Lives, running[n] # NoRun,
           running' = [running EXCEPT ![n].st = st]
    PROVE  /\ running' \in [Name -> Runtime] /\ running'[n] # NoRun /\ running'[n].pid = running[n].pid
           /\ \A k \in Name : k # n => running'[k] = running[k]
<1> DEFINE r == [running[n] EXCEPT !.st = st]
<1>1. running[n] \in [pid : Nat \ {0}, st : Lives]
  BY DEF Types, Runtime
<1>2. r \in [pid : Nat \ {0}, st : Lives] /\ r.pid = running[n].pid
  BY <1>1
<1>3. r # NoRun
  BY <1>2 DEF NoRun
<1>4. running' = [running EXCEPT ![n] = r]
  OBVIOUS
<1> HIDE DEF r
<1> QED BY <1>2, <1>3, <1>4 DEF Types, Runtime

(* Lock() returns: c holds its name's mutex and goes to its operation.     *)
LEMMA LockFacts ==
    ASSUME Types, NEW c \in Request, Lock(c)
    PROVE  /\ cl[c].pc = "lock" /\ MutexFree(cl[c].mu) /\ Kept(c) /\ Same(c)
           /\ cl'[c].pc \in {"c_mu", "s_check", "t_mark"}
           /\ UNCHANGED <<disk, host, daemon, fresh>>
<1>1. cl[c].pc = "lock" /\ cl[c].op \in {"create", "start", "stop"}
  BY DEF Lock, At, Types, Frame
<1>2. FirstStep[cl[c].op] \in {"c_mu", "s_check", "t_mark"}
  BY <1>1 DEF FirstStep
<1> QED BY <1>1, <1>2, Goes DEF Lock, Place

(* startVM waits for the process to show itself or to end.                 *)
LEMMA SettleFacts ==
    ASSUME Types, NEW c \in Request, StartSettle(c)
    PROVE  /\ cl[c].pc = "s_wait" /\ Moved(c)
           /\ UNCHANGED <<disk, host, up, waits, locks, duty, fresh>>
           /\ \/ cl'[c] = Free /\ UNCHANGED running
              \/ /\ Kept(c) /\ Same(c) /\ cl'[c].pc = "s_ssh"
                 /\ running' \in [Name -> Runtime]
                 /\ \A n \in Name : /\ running'[n].pid = running[n].pid
                                    /\ running'[n] = NoRun <=> running[n] = NoRun
<1> DEFINE n == cl[c].name
<1>1. cl[c].pc = "s_wait" /\ UNCHANGED <<disk, host, up, waits, locks, duty, fresh>>
  BY DEF StartSettle, At
<1>2. CASE Return(c) /\ UNCHANGED running
  BY <1>1, <1>2, Returns
<1>3. CASE /\ running' = [running EXCEPT ![n].st = IF running[n].pid = cl[c].pid THEN "running" ELSE @]
           /\ Goto(c, "s_ssh")
  <2>1. Kept(c) /\ Same(c) /\ cl'[c].pc = "s_ssh" /\ Moved(c)
    BY <1>1, <1>3, Goes DEF Place, Kept
  <2>2. n \in Name /\ cl[c].pid # 0
    BY <1>1 DEF Types
  <2>3. CASE running[n].pid = cl[c].pid
    <3>1. running[n] # NoRun
      BY <2>2, <2>3 DEF NoRun
    <3>2. running' = [running EXCEPT ![n].st = "running"]
      BY <1>3, <2>3
    <3> HIDE DEF n
    <3> QED BY <1>1, <2>1, <2>2, <3>1, <3>2, RuntimeSet DEF Lives
  <2>4. CASE running[n].pid # cl[c].pid
    <3>1. running' = [running EXCEPT ![n].st = @]
      BY <1>3, <2>4
    <3>2. running' = running
      BY <2>2, <3>1 DEF Types, Runtime, NoRun
    <3> QED BY <1>1, <2>1, <3>2 DEF Types
  <2> QED BY <2>3, <2>4
<1> QED BY <1>2, <1>3 DEF StartSettle

(* Steps that move on, or return, and say the rest of their effect plainly. *)
LEMMA PlainFacts ==
    ASSUME Types, NEW c \in Request
    PROVE  /\ CreateMu(c) => cl[c].pc = "c_mu" /\ Kept(c) /\ Same(c) /\ cl'[c].pc = "c_make"
           /\ CreateDisk(c) => /\ cl[c].pc = "c_disk" /\ Kept(c) /\ Same(c)
                               /\ cl'[c].pc \in {"c_rm", "c_meta"}
           /\ CreateUndo(c) => cl[c].pc = "c_rm" /\ Moved(c) /\ cl'[c] = Free
           /\ StartRegister(c) => cl[c].pc = "s_reg" /\ Kept(c) /\ Same(c) /\ cl'[c].pc = "s_rec"
           /\ StartRecord(c) => cl[c].pc = "s_rec" /\ Kept(c) /\ Same(c) /\ cl'[c].pc = "s_wait"
           /\ StartReady(c) => cl[c].pc = "s_ssh" /\ Moved(c) /\ cl'[c] = Free
           /\ StopWait(c) => cl[c].pc = "t_wait" /\ Moved(c) /\ cl'[c] = Free
<1> USE DEF At
<1>1. CreateMu(c) => cl[c].pc = "c_mu" /\ Kept(c) /\ Same(c) /\ cl'[c].pc = "c_make"
  BY Goes DEF CreateMu, Place
<1>2. CreateDisk(c) => cl[c].pc = "c_disk" /\ Kept(c) /\ Same(c) /\ cl'[c].pc \in {"c_rm", "c_meta"}
  BY Goes DEF CreateDisk, Place
<1>3. CreateUndo(c) => cl[c].pc = "c_rm" /\ Moved(c) /\ cl'[c] = Free
  BY Returns DEF CreateUndo
<1>4. StartRegister(c) => cl[c].pc = "s_reg" /\ Kept(c) /\ Same(c) /\ cl'[c].pc = "s_rec"
  BY Goes DEF StartRegister, Place
<1>5. StartRecord(c) => cl[c].pc = "s_rec" /\ Kept(c) /\ Same(c) /\ cl'[c].pc = "s_wait"
  BY Goes DEF StartRecord, Place
<1>6. StartReady(c) => cl[c].pc = "s_ssh" /\ Moved(c) /\ cl'[c] = Free
  BY Returns DEF StartReady
<1>7. StopWait(c) => cl[c].pc = "t_wait" /\ Moved(c) /\ cl'[c] = Free
  BY Returns DEF StopWait
<1> QED BY <1>1, <1>2, <1>3, <1>4, <1>5, <1>6, <1>7

(* Create's saveMeta: vm.json is whole, or torn and to be undone.          *)
LEMMA CreateMetaFacts ==
    ASSUME Types, NEW c \in Request, CreateMeta(c)
    PROVE  LET n == cl[c].name
           IN  /\ cl[c].pc = "c_meta" /\ n \in Name
               /\ UNCHANGED <<dir, rec, host, up, running, waits, duty>>
               /\ \/ /\ Kept(c) /\ Same(c) /\ cl'[c].pc = "c_rm"
                     /\ UNCHANGED <<meta, locks, fresh>>
                  \/ /\ meta' = [meta EXCEPT ![n] = Meta(cl[c].net, FALSE)]
                     /\ vmLock(c, "start", n)
<1>1. /\ cl[c].pc = "c_meta" /\ UNCHANGED <<dir, rec, host, up, running, waits, duty>>
      /\ cl[c].name \in Name
  BY DEF CreateMeta, At, Types
<1> QED BY <1>1, Goes DEF CreateMeta, Place

(* The wait goroutine of the Firecracker that c has run.                   *)
NewWait(c) == [pid |-> cl[c].pid, name |-> cl[c].name, out |-> TRUE, step |-> "wait"]

(* saveRun, and the wait goroutine that startVM leaves behind.             *)
LEMMA RecordFacts ==
    ASSUME Types, NEW c \in Request, StartRecord(c)
    PROVE  LET n == cl[c].name
           IN  /\ cl[c].pc = "s_rec" /\ Kept(c) /\ Same(c) /\ cl'[c].pc = "s_wait"
               /\ UNCHANGED <<dir, meta, host, up, running, locks, duty, fresh>>
               /\ \/ rec' = rec
                  \/ dir[n] # 0 /\ rec' = [rec EXCEPT ![n] = cl[c].pid]
               /\ NewWait(c) \in Wait /\ NewWait(c).pid = cl[c].pid /\ NewWait(c).name = n
               /\ NewWait(c).step = "wait"
               /\ waits' = waits \cup {NewWait(c)}
<1> DEFINE n == cl[c].name
<1>1. cl[c].pc = "s_rec" /\ Kept(c) /\ Same(c) /\ cl'[c].pc = "s_wait"
  BY PlainFacts
<1>2. n \in Name /\ cl[c].pid \in Nat \ {0}
  BY <1>1 DEF Types, Frame, Begun
<1>3. /\ NewWait(c) \in Wait /\ NewWait(c).pid = cl[c].pid /\ NewWait(c).name = n
      /\ NewWait(c).step = "wait"
  BY <1>2 DEF NewWait, Wait
<1>4. rec' = rec \/ (dir[n] # 0 /\ rec' = [rec EXCEPT ![n] = cl[c].pid])
  <2> USE <1>2
  <2>1. CASE rec' = [rec EXCEPT ![n] = IF Keep /\ dir[n] # 0 THEN cl[c].pid ELSE @]
    <3>1. CASE Keep /\ dir[n] # 0
      BY <2>1, <3>1
    <3>2. CASE ~(Keep /\ dir[n] # 0)
      BY <2>1, <3>2 DEF Types
    <3> QED BY <3>1, <3>2
  <2> QED BY <2>1 DEF StartRecord
<1>5. waits' = waits \cup {NewWait(c)} /\ UNCHANGED <<dir, meta, host, up, running, locks, duty, fresh>>
  BY DEF StartRecord, NewWait
<1> QED BY <1>1, <1>3, <1>4, <1>5

(* Every step keeps the types.                                             *)
LEMMA TypesKept == ASSUME "delete" \notin Ops, Types, [Next]_vars PROVE Types'
<1> USE VMAssumption, FreeFrame
<1>1. CASE UNCHANGED vars
  BY <1>1 DEF vars, Types
<1>2. ASSUME NEW c \in Request, NEW op \in {"create", "start", "stop"}, NEW n \in Name,
             vmLock(c, op, n)
      PROVE  /\ locks' \in [Name -> Nat] /\ fresh' \in [pid : Nat, gen : Nat, mu : Nat, tap : Nat]
             /\ cl' \in [Request -> Frame]
             /\ \A d \in Request : cl'[d].pc # "idle" => cl'[d].name \in Name /\ cl'[d].op # "none"
             /\ \A d \in Request : cl'[d].pc \in Begun \cup {"s_wait"} => cl'[d].pid # 0
  <2>1. cl'[c].pc = "lock" /\ cl'[c].op = op /\ cl'[c].name = n
    BY <1>2, Fetched
  <2>2. \A d \in Request \ {c} : cl'[d] = cl[d]
    BY <1>2, Fetched
  <2>3. \A d \in Request : cl'[d].pc # "idle" => cl'[d].name \in Name /\ cl'[d].op # "none"
    BY <2>1, <2>2 DEF Types
  <2>4. \A d \in Request : cl'[d].pc \in Begun \cup {"s_wait"} => cl'[d].pid # 0
    BY <2>1, <2>2 DEF Types, Begun
  <2> QED BY <1>2, <2>3, <2>4, Fetched
<1>3. ASSUME NEW c \in Client, NEW op \in Ops, NEW n \in Name, Begin(c, op, n) PROVE Types'
  <2>1. c \in Request /\ op \in {"create", "start", "stop"}
    BY DEF Request
  <2> QED BY <1>2, <1>3, <2>1 DEF Begin, disk, host, duty, Types
<1>4. ASSUME NEW n \in Name, AutoStart(n) PROVE Types'
  <2>1. Starter \in Request
    BY DEF Request
  <2> QED BY <1>2, <1>4, <2>1 DEF AutoStart, disk, host, Types
<1>5. ASSUME NEW n \in Name, StopEach(n) PROVE Types'
  <2>1. n \in Request
    BY DEF Request
  <2> QED BY <1>2, <1>5, <2>1 DEF StopEach, disk, host, Types
<1>6. ASSUME NEW c \in Request, Step(c) PROVE Types'
  <2> DEFINE Frames == /\ cl' \in [Request -> Frame]
                       /\ \A d \in Request : cl'[d].pc # "idle" => cl'[d].name \in Name /\ cl'[d].op # "none"
                       /\ \A d \in Request : cl'[d].pc \in Begun \cup {"s_wait"} => cl'[d].pid # 0
  <2>a. ASSUME Kept(c), cl'[c].pc \in Begun \cup {"s_wait"} => cl'[c].pid # 0 PROVE Frames
    BY <2>a, FramesKept DEF Kept
  <2>b. ASSUME Moved(c), cl'[c] = Free PROVE Frames
    BY <2>b, FramesKept DEF Begun
  <2> HIDE DEF Frames
  <2>c. Frames => /\ cl' \in [Request -> Frame]
                  /\ \A d \in Request : cl'[d].pc # "idle" => cl'[d].name \in Name /\ cl'[d].op # "none"
                  /\ \A d \in Request : cl'[d].pc \in Begun \cup {"s_wait"} => cl'[d].pid # 0
    BY DEF Frames
  <2>d. cl[c].pc # "idle" => cl[c].name \in Name
    BY DEF Types
  <2> USE DEF disk, host, daemon, duty, Begun
  <2>1. CASE Lock(c)
    <3>1. Frames
      BY <2>1, <2>a, LockFacts
    <3> QED BY <2>1, <2>c, <3>1, LockFacts DEF Types
  <2>2. CASE CreateMu(c)
    <3>1. Frames
      BY <2>2, <2>a, PlainFacts
    <3> QED BY <2>2, <2>c, <3>1 DEF Types, CreateMu
  <2>3. CASE CreateDir(c)
    <3>1. Frames
      BY <2>3, <2>a, <2>b, CreateDirFacts
    <3> QED BY <2>3, <2>c, <3>1, CreateDirFacts DEF Types
  <2>4. CASE CreateDisk(c)
    <3>1. Frames
      BY <2>4, <2>a, PlainFacts
    <3>2. meta' \in [Name -> File]
      BY <2>4, Files DEF CreateDisk, Types
    <3> QED BY <2>4, <2>c, <3>1, <3>2 DEF Types, CreateDisk
  <2>5. CASE CreateMeta(c)
    <3>1. CASE vmLock(c, "start", cl[c].name) /\ meta' = [meta EXCEPT ![cl[c].name] = Meta(cl[c].net, FALSE)]
      <4>1. cl[c].net \in Nat
        BY DEF Types, Frame
      <4>2. meta' \in [Name -> File]
        BY <3>1, <4>1 DEF Types, Meta, File
      <4> QED BY <1>2, <2>5, <3>1, <4>2, CreateMetaFacts DEF Types
    <3>2. CASE Kept(c) /\ cl'[c].pc = "c_rm" /\ UNCHANGED <<meta, locks, fresh>>
      <4>1. Frames
        BY <3>2, <2>a
      <4> QED BY <2>5, <2>c, <3>2, <4>1, CreateMetaFacts DEF Types
    <3> QED BY <2>5, <3>1, <3>2, CreateMetaFacts
  <2>6. CASE CreateUndo(c)
    <3>1. Frames
      BY <2>6, <2>b, PlainFacts
    <3> QED BY <2>6, <2>c, <3>1 DEF Types, CreateUndo, RemoveAll, NoMeta, File
  <2>7. CASE StartCheck(c)
    <3>1. Frames
      BY <2>7, <2>a, <2>b, StartCheckFacts
    <3> QED BY <2>7, <2>c, <3>1, StartCheckFacts DEF Types
  <2>8. CASE StartNet(c)
    <3>1. Frames
      BY <2>8, <2>a, <2>b, StartNetFacts
    <3>2. meta' \in [Name -> File]
      BY <2>8, StartNetFacts, Files DEF Types
    <3>3. tap' \in [Name -> Nat]
      BY <2>8, StartNetFacts DEF Types
    <3> QED BY <2>8, <2>c, <3>1, <3>2, <3>3, StartNetFacts DEF Types
  <2>9. CASE StartMeta(c)
    <3>1. Frames
      BY <2>9, <2>a, <2>b, StartMetaFacts
    <3>2. cl[c].net \in Nat
      BY DEF Types, Frame
    <3>3. meta' \in [Name -> File]
      <4>1. Meta(cl[c].net, TRUE) \in File
        BY <3>2, Files
      <4>2. meta' = meta \/ meta' = [meta EXCEPT ![cl[c].name] = Meta(cl[c].net, TRUE)]
        BY <2>9, StartMetaFacts
      <4> QED BY <4>1, <4>2 DEF Types
    <3>4. tap' \in [Name -> Nat]
      <4>1. \E v \in Nat : tap' = tap \/ tap' = [tap EXCEPT ![cl[c].name] = v]
        BY <2>9, StartMetaFacts DEF Types
      <4> QED BY <4>1 DEF Types
    <3>5. fresh' \in [pid : Nat, gen : Nat, mu : Nat, tap : Nat]
      <4>1. fresh' = fresh \/ fresh' = [fresh EXCEPT !.tap = @ + 1]
        BY <2>9, StartMetaFacts
      <4> QED BY <4>1 DEF Types
    <3> QED BY <2>9, <2>c, <3>1, <3>3, <3>4, <3>5, StartMetaFacts DEF Types
  <2>10. CASE StartSpawn(c)
    <3>1. Frames
      BY <2>10, <2>a, <2>b, StartSpawnFacts DEF Types
    <3>2. tap' \in [Name -> Nat]
      BY <2>10, StartSpawnFacts DEF Types
    <3>3. cl[c].gen \in Nat /\ dir[cl[c].name] \in Nat /\ cl[c].name \in Name
      BY <2>10, <2>d, StartSpawnFacts DEF Types, Frame
    <3>4. procs' \subseteq Guest
      BY <2>10, <3>3, StartSpawnFacts DEF Types, Guest
    <3> QED BY <2>10, <2>c, <3>1, <3>2, <3>4, StartSpawnFacts DEF Types
  <2>11. CASE StartRegister(c)
    <3>1. Frames
      BY <2>11, <2>a, PlainFacts DEF Same, Types
    <3>2. cl[c].pid \in Nat \ {0}
      BY <2>11 DEF Types, Frame, StartRegister, At
    <3>3. running' \in [Name -> Runtime]
      BY <2>11, <3>2 DEF StartRegister, Types, Runtime, Lives
    <3> QED BY <2>11, <2>c, <3>1, <3>3 DEF Types, StartRegister
  <2>12. CASE StartRecord(c)
    <3>1. Frames
      BY <2>12, <2>a, RecordFacts DEF Same, Types
    <3>2. cl[c].pid \in Nat /\ cl[c].name \in Name
      BY <2>12, <2>d, RecordFacts DEF Types, Frame
    <3>3. waits' \subseteq Wait
      BY <2>12, RecordFacts DEF Types
    <3>4. rec' \in [Name -> Nat]
      BY <2>12, <3>2, RecordFacts DEF Types
    <3> QED BY <2>12, <2>c, <3>1, <3>3, <3>4, RecordFacts DEF Types
  <2>13. CASE StartSettle(c)
    <3>1. Frames
      BY <2>13, <2>a, <2>b, SettleFacts
    <3> QED BY <2>13, <2>c, <3>1, SettleFacts DEF Types
  <2>14. CASE StartReady(c)
    <3>1. Frames
      BY <2>14, <2>b, PlainFacts
    <3> QED BY <2>14, <2>c, <3>1 DEF Types, StartReady
  <2>15. CASE StopMark(c)
    <3>1. Frames
      BY <2>15, <2>a, <2>b, StopMarkFacts
    <3>2. running' \in [Name -> Runtime]
      BY <2>15, <2>d, StopMarkFacts, RuntimeSet DEF Lives, Types
    <3> QED BY <2>15, <2>c, <3>1, <3>2, StopMarkFacts DEF Types
  <2>16. CASE StopWait(c)
    <3>1. Frames
      BY <2>16, <2>b, PlainFacts
    <3> QED BY <2>16, <2>c, <3>1 DEF Types, StopWait
  <2>17. CASE DeleteMark(c) \/ DeleteNet(c) \/ DeleteDir(c)
    BY <2>17 DEF DeleteMark, DeleteNet, DeleteDir, At, Frame, Place, Types
  <2> QED BY <1>6, <2>1, <2>2, <2>3, <2>4, <2>5, <2>6, <2>7, <2>8, <2>9, <2>10, <2>11, <2>12,
             <2>13, <2>14, <2>15, <2>16, <2>17 DEF Step
<1> USE DEF Types
<1>7. ASSUME NEW p \in procs, GuestExits(p) PROVE Types'
  BY <1>7 DEF GuestExits, disk, daemon, duty
<1>8. CASE Ended
  <2>1. PICK w \in waits : EndedCleanup(w) \/ EndedDrop(w)
    BY <1>8 DEF Ended
  <2> DEFINE v == [w EXCEPT !.step = "drop"]
  <2>2. v \in Wait /\ w.name \in Name
    BY DEF Wait
  <2>3. CASE EndedCleanup(w)
    <3>1. waits' = (waits \ {w}) \cup {v}
      BY <2>3 DEF EndedCleanup
    <3> HIDE DEF v
    <3>2. tap' \in [Name -> Nat]
      BY <2>2, <2>3 DEF EndedCleanup
    <3> QED BY <2>2, <2>3, <3>1, <3>2 DEF EndedCleanup, duty
  <2>4. CASE EndedDrop(w)
    BY <2>2, <2>4 DEF EndedDrop, disk, host, duty, Runtime
  <2> QED BY <2>1, <2>3, <2>4
<1>9. ASSUME NEW phase \in {"term", "failed"}, ShutDown(phase) PROVE Types'
  BY <1>9 DEF ShutDown, RunningNames, disk, host, Phase
<1>10. ASSUME NEW k \in BOOLEAN, KeepOrStop(k) PROVE Types'
  BY <1>10 DEF KeepOrStop, RunningNames, disk, host, Phase
<1>11. CASE Exit \/ Crash \/ HostReboot
  BY <1>11 DEF Exit, Crash, HostReboot, Forget, Orphans, disk, Phase, Runtime, Begun
<1>12. CASE Boot
  <2>1. \A n \in Name : Adopts(n) => rec[n] # 0
    BY DEF Adopts, Survivor, Guest
  <2>2. running' \in [Name -> Runtime]
    BY <1>12, <2>1 DEF Boot, Runtime, Lives
  <2>3. waits' \subseteq Wait
    BY <1>12, <2>1 DEF Boot, Wait, File
  <2> QED BY <1>12, <2>2, <2>3 DEF Boot, BootEffects, Phase
<1>13. CASE BootFails
  BY <1>13 DEF BootFails, BootEffects, daemon, duty
<1> QED BY <1>1, <1>3, <1>4, <1>5, <1>6, <1>7, <1>8, <1>9, <1>10, <1>11, <1>12, <1>13 DEF Next

-----------------------------------------------------------------------------
(* Mutexes.                                                                *)
LEMMA FetchedMutexes ==
    ASSUME Types, Mutexes, NEW c \in Request, NEW op \in {"create", "start", "stop"}, NEW n \in Name,
           vmLock(c, op, n)
    PROVE  Mutexes'
<1>1. locks' \in [Name -> Nat] /\ fresh' \in [pid : Nat, gen : Nat, mu : Nat, tap : Nat]
  BY Fetched
<1>2. /\ locks'[n] = IF locks[n] = 0 THEN fresh.mu + 1 ELSE locks[n]
      /\ \A k \in Name : k # n => locks'[k] = locks[k]
      /\ fresh'.mu >= fresh.mu /\ fresh'.mu >= locks'[n] /\ locks'[n] # 0
  BY Fetched
<1>3. /\ cl'[c].pc = "lock" /\ cl'[c].name = n /\ cl'[c].mu = locks'[n]
      /\ \A d \in Request \ {c} : cl'[d] = cl[d]
  BY Fetched
<1>4. /\ \A k \in Name : locks[k] \in Nat /\ locks'[k] \in Nat /\ locks[k] <= fresh.mu
      /\ fresh.mu \in Nat /\ fresh'.mu \in Nat
  BY <1>1 DEF Types, Mutexes
<1>5. \A k \in Name : locks'[k] <= fresh'.mu
  BY <1>2, <1>4
<1>6. \A m, k \in Name : locks'[m] = locks'[k] /\ locks'[m] # 0 => m = k
  BY <1>2, <1>4 DEF Mutexes
<1>7. \A k \in Name : locks[k] # 0 => locks'[k] = locks[k]
  BY <1>2
<1>8. \A d \in Request : cl'[d].pc # "idle" => cl'[d].mu = locks'[cl'[d].name] /\ cl'[d].mu # 0
  BY <1>2, <1>3, <1>7 DEF Mutexes, Types
<1>9. \A d, e \in Request : Holds(d)' /\ Holds(e)' /\ cl'[d].mu = cl'[e].mu => d = e
  BY <1>3 DEF Mutexes, Holds
<1> QED BY <1>5, <1>6, <1>8, <1>9 DEF Mutexes

(* A step that locks nothing keeps them.                                   *)
LEMMA KeptMutexes ==
    ASSUME Types, Mutexes, NEW c \in Request, Kept(c), UNCHANGED locks, fresh'.mu = fresh.mu,
           Holds(c)' => Holds(c) \/ MutexFree(cl[c].mu)
    PROVE  Mutexes'
  BY DEF Types, Mutexes, Kept, Moved, Holds, MutexFree

(* So does one that returns.                                               *)
LEMMA FreedMutexes ==
    ASSUME Types, Mutexes, NEW c \in Request, Moved(c), cl'[c] = Free, UNCHANGED locks,
           fresh'.mu = fresh.mu
    PROVE  Mutexes'
  BY FreeFrame DEF Types, Mutexes, Moved, Holds

(* The mutexes, at every step: one of two requests for a name waits.       *)
LEMMA MutexesKept == ASSUME "delete" \notin Ops, Types, Mutexes, [Next]_vars PROVE Mutexes'
<1>1. CASE UNCHANGED <<locks, cl, fresh>>
  BY <1>1 DEF Mutexes, Holds
<1>2. ASSUME NEW c \in Client, NEW op \in Ops, NEW n \in Name, Begin(c, op, n) PROVE Mutexes'
  <2>1. c \in Request /\ op \in {"create", "start", "stop"}
    BY VMAssumption DEF Request
  <2> QED BY <1>2, <2>1, FetchedMutexes DEF Begin
<1>3. ASSUME NEW n \in Name, AutoStart(n) \/ StopEach(n) PROVE Mutexes'
  BY <1>3, FetchedMutexes DEF AutoStart, StopEach, Request
<1>4. ASSUME NEW c \in Request, Step(c) PROVE Mutexes'
  <2> USE DEF daemon, Types
  <2>1. CASE Lock(c)
    BY <2>1, LockFacts, KeptMutexes
  <2>2. CASE CreateMu(c) \/ CreateDisk(c) \/ StartRegister(c)
    <3>1. UNCHANGED <<locks, fresh>>
      BY <2>2 DEF CreateMu, CreateDisk, StartRegister
    <3> QED BY <2>2, <3>1, PlainFacts, KeptMutexes DEF Holds
  <2>3. CASE StartRecord(c)
    BY <2>3, RecordFacts, KeptMutexes DEF Holds
  <2>4. CASE CreateUndo(c) \/ StartReady(c) \/ StopWait(c)
    <3>1. UNCHANGED <<locks, fresh>>
      BY <2>4 DEF CreateUndo, StartReady, StopWait
    <3> QED BY <2>4, <3>1, PlainFacts, FreedMutexes
  <2>5. CASE CreateDir(c)
    <3>1. fresh'.mu = fresh.mu /\ UNCHANGED locks
      BY <2>5, CreateDirFacts
    <3> QED BY <2>5, <3>1, CreateDirFacts, KeptMutexes, FreedMutexes DEF Holds
  <2>6. CASE CreateMeta(c)
    BY <2>6, CreateMetaFacts, KeptMutexes, FetchedMutexes DEF Holds
  <2>7. CASE StartCheck(c)
    BY <2>7, StartCheckFacts, KeptMutexes, FreedMutexes DEF Holds
  <2>8. CASE StartNet(c)
    BY <2>8, StartNetFacts, KeptMutexes, FreedMutexes DEF Holds
  <2>9. CASE StartMeta(c)
    <3>1. fresh'.mu = fresh.mu /\ UNCHANGED locks
      BY <2>9, StartMetaFacts
    <3> QED BY <2>9, <3>1, StartMetaFacts, KeptMutexes, FreedMutexes DEF Holds
  <2>10. CASE StartSpawn(c)
    <3>1. fresh'.mu = fresh.mu /\ UNCHANGED locks
      BY <2>10, StartSpawnFacts
    <3> QED BY <2>10, <3>1, StartSpawnFacts, KeptMutexes, FreedMutexes DEF Holds
  <2>11. CASE StartSettle(c)
    BY <2>11, SettleFacts, KeptMutexes, FreedMutexes DEF Holds
  <2>12. CASE StopMark(c)
    BY <2>12, StopMarkFacts, KeptMutexes, FreedMutexes DEF Holds
  <2>13. ~DeleteMark(c) /\ ~DeleteNet(c) /\ ~DeleteDir(c)
    BY DEF DeleteMark, DeleteNet, DeleteDir, At, Frame, Place
  <2> QED BY <1>4, <2>1, <2>2, <2>3, <2>4, <2>5, <2>6, <2>7, <2>8, <2>9, <2>10, <2>11, <2>12,
             <2>13 DEF Step
<1>5. CASE Exit \/ Crash \/ HostReboot
  <2>1. locks' = [n \in Name |-> 0] /\ cl' = [c \in Request |-> Free] /\ fresh' = fresh
    BY <1>5 DEF Exit, Crash, HostReboot, Forget
  <2> QED BY <2>1, FreeFrame DEF Types, Mutexes, Holds
<1>6. CASE \/ \E p \in procs : GuestExits(p)
           \/ Ended \/ \E phase \in {"term", "failed"} : ShutDown(phase)
           \/ \E k \in BOOLEAN : KeepOrStop(k)
           \/ Boot \/ BootFails
  <2>1. UNCHANGED <<locks, cl, fresh>>
    BY <1>6 DEF GuestExits, Ended, EndedCleanup, EndedDrop, ShutDown, KeepOrStop, Boot, BootFails, daemon
  <2> QED BY <1>1, <2>1
<1> QED BY <1>1, <1>2, <1>3, <1>4, <1>5, <1>6 DEF Next, vars

-----------------------------------------------------------------------------
(* A step that does nothing to a name leaves it sound.                     *)
Untouched(k) ==
    /\ dir'[k] = dir[k] /\ meta'[k] = meta[k] /\ rec'[k] \in {rec[k], 0}
    /\ running'[k].pid = running[k].pid /\ (running[k] = NoRun => running'[k] = NoRun)
    /\ fresh'.pid >= fresh.pid
    /\ \A p \in procs' : p.name = k => p \in procs
    /\ \A w \in waits' : w.name = k => w \in waits
    /\ \A c \in Request : cl'[c] = cl[c] \/ cl'[c].pc \notin Active \/ cl'[c].name # k
    /\ up = "down" => up' = "down"

(* Then k stays sound.                                                     *)
LEMMA UntouchedSound ==
    ASSUME Types, Types', NEW k \in Name, Sound(k), Untouched(k)
    PROVE  Sound(k)'
<1> USE DEF Untouched
<1>1. rec[k] \in Nat /\ fresh.pid \in Nat /\ fresh'.pid \in Nat /\ 0 <= fresh.pid
  BY DEF Types
<1>2. Folder(k)'
  BY <1>1 DEF Sound, Folder
<1>3. GuestOn(k)'
  <2>1. \A p \in procs' : p.pid \in Nat \ {0}
    BY DEF Types, Guest
  <2> QED BY <1>1, <2>1 DEF Sound, GuestOn
<1>4. WaitOn(k)'
  BY DEF Sound, WaitOn, Off
<1>5. ASSUME NEW c \in Request PROVE Maker(c, k)'
  BY DEF Sound, Maker, Off, Active
<1>6. ASSUME NEW c \in Request PROVE Booter(c, k)'
  <2> SUFFICES ASSUME cl'[c].pc \in Booting \cup Begun, cl'[c].name = k
               PROVE  Booter(c, k)'
    BY DEF Booter
  <2>1. cl'[c] = cl[c]
    BY DEF Active
  <2>2. cl[c].pid \in Nat
    BY DEF Types, Frame
  <2> QED BY <1>1, <2>1, <2>2 DEF Sound, Booter, Off
<1> QED BY <1>2, <1>3, <1>4, <1>5, <1>6 DEF Sound

(* A request in the middle of a Create or a Start is alone with its name.  *)
LEMMA Alone ==
    ASSUME IInv, NEW c \in Request, NEW d \in Request, c # d, cl[c].pc \in Active,
           cl[d].pc \in Active, cl[c].name = cl[d].name
    PROVE  FALSE
<1>1. cl[c].name \in Name /\ cl[c].pc # "idle" /\ cl[d].pc # "idle"
  BY DEF IInv, Types, Active, Making, Booting, Begun
<1>2. Maker(c, cl[c].name) /\ Maker(d, cl[c].name)
  BY <1>1 DEF IInv, Sound
<1>3. cl[c].pc \notin Making /\ cl[d].pc \notin Making
  BY <1>2 DEF Maker
<1>4. Holds(c) /\ Holds(d)
  BY <1>3 DEF Holds, Active, Making, Booting, Begun
<1>5. cl[c].mu = cl[d].mu
  BY <1>1 DEF IInv, Mutexes
<1> QED BY <1>4, <1>5 DEF IInv, Mutexes

(* What a step of c leaves untouched, the rest of the names.               *)
LEMMA OthersSound ==
    ASSUME IInv, Types', NEW c \in Request, Moved(c), cl'[c] = Free \/ cl'[c].name = cl[c].name,
           \A k \in Name : k # cl[c].name =>
             /\ dir'[k] = dir[k] /\ meta'[k] = meta[k] /\ rec'[k] = rec[k]
             /\ running'[k] = running[k],
           fresh'.pid >= fresh.pid,
           \A p \in procs' : p \in procs \/ p.name = cl[c].name,
           \A w \in waits' : w \in waits \/ w.name = cl[c].name,
           up' = up
    PROVE  \A k \in Name : k # cl[c].name => Sound(k)'
<1> SUFFICES ASSUME NEW k \in Name, k # cl[c].name PROVE Sound(k)'
  OBVIOUS
<1>1. Untouched(k)
  <2>1. \A d \in Request : cl'[d] = cl[d] \/ cl'[d].pc \notin Active \/ cl'[d].name # k
    BY FreeFrame DEF Moved, Active, Making, Booting, Begun
  <2> QED BY <2>1 DEF Untouched, IInv
<1> QED BY <1>1, UntouchedSound DEF IInv

(* A step of c that changes nothing on the host or on disk.                *)
LEMMA QuietSound ==
    ASSUME IInv, Types', NEW c \in Request, Moved(c), cl'[c].pc \notin Active,
           UNCHANGED <<dir, meta, rec, procs, waits, up>>, fresh'.pid = fresh.pid,
           \A n \in Name : /\ running'[n].pid = running[n].pid
                           /\ running'[n] = NoRun <=> running[n] = NoRun
    PROVE  \A k \in Name : Sound(k)'
<1> SUFFICES ASSUME NEW k \in Name PROVE Sound(k)'
  OBVIOUS
<1>1. Untouched(k)
  BY DEF Moved, Untouched, IInv, Types
<1> QED BY <1>1, UntouchedSound DEF IInv

-----------------------------------------------------------------------------
(* Create and Start, a step at a time.                                     *)
LEMMA CreateDirSound ==
    ASSUME IInv, Types', NEW c \in Request, CreateDir(c)
    PROVE  \A k \in Name : Sound(k)'
<1>1. Types
  BY DEF IInv
<1>0. PICK n \in Name : n = cl[c].name
  BY <1>1, CreateDirFacts DEF Kept, Moved
<1> USE <1>0
<1>2. cl[c].pc = "c_make" /\ Moved(c) /\ UNCHANGED <<meta, rec, tap, procs, up, running, waits>>
  BY <1>1, CreateDirFacts DEF host, daemon
<1>3. CASE cl'[c] = Free /\ UNCHANGED <<dir, fresh>>
  BY <1>2, <1>3, QuietSound, FreeFrame DEF Active, Making, Booting, Begun
<1>4. CASE /\ dir[n] = 0 /\ dir' = [dir EXCEPT ![n] = fresh.gen + 1]
           /\ fresh' = [fresh EXCEPT !.gen = @ + 1]
           /\ Kept(c) /\ cl'[c].pc \in {"c_rm", "c_disk"}
  <2>1. n \in Name /\ fresh'.pid = fresh.pid /\ fresh.gen \in Nat /\ fresh.pid \in Nat
    BY <1>2, <1>1, <1>4 DEF Types, Moved
  <2>2. dir'[n] # 0 /\ \A k \in Name : k # n => dir'[k] = dir[k]
    BY <1>1, <1>4, <2>1 DEF Types
  <2>3. \A k \in Name : k # n => Sound(k)'
    <3>1. fresh'.pid >= fresh.pid
      BY <2>1
    <3>2. cl'[c].name = n
      BY <1>4 DEF Kept
    <3> QED BY <1>2, <2>1, <2>2, <3>1, <3>2, OthersSound
  <2>4. Sound(n) /\ meta[n] = NoMeta /\ rec[n] = 0 /\ Off(n)
    BY <1>4, <2>1 DEF IInv, Sound, Folder, GuestOn, Off
  <2>5. \A d \in Request : cl[d].pc \in Active /\ cl[d].name = n => FALSE
    BY <1>4, <2>4 DEF Sound, Maker, Booter, Active
  <2>6. \A d \in Request : cl'[d].pc \in Active /\ cl'[d].name = n => d = c
    BY <1>2, <2>5 DEF Moved
  <2>7. Off(n)'
    BY <1>2, <2>4 DEF Off
  <2>8. Folder(n)' /\ GuestOn(n)' /\ WaitOn(n)'
    BY <1>2, <2>1, <2>4, <2>7, Files DEF Sound, Folder, GuestOn, WaitOn, Off
  <2>9. ASSUME NEW d \in Request PROVE Maker(d, n)' /\ Booter(d, n)'
    BY <1>2, <1>4, <2>2, <2>4, <2>6, <2>7, Files DEF Maker, Booter, Active, Making, Booting, Begun
  <2> QED BY <2>3, <2>8, <2>9 DEF Sound
<1> QED BY <1>1, <1>3, <1>4, CreateDirFacts

(* c has its name to itself, and what it does there leaves it sound.       *)
LEMMA SoleSound ==
    ASSUME IInv, NEW c \in Request, cl[c].pc \in Active, Moved(c),
           cl'[c] = Free \/ cl'[c].name = cl[c].name
    PROVE  /\ cl[c].name \in Name
           /\ \A d \in Request : cl'[d].pc \in Active /\ cl'[d].name = cl[c].name => d = c
<1>1. \A d \in Request : cl[d].pc \in Active /\ cl[d].name = cl[c].name => d = c
  BY Alone
<1> QED BY <1>1 DEF Moved

(* createDisk: the disk is there, or CreateUndo follows.                   *)
LEMMA CreateDiskSound ==
    ASSUME IInv, Types', NEW c \in Request, CreateDisk(c)
    PROVE  \A k \in Name : Sound(k)'
<1>1. Types
  BY DEF IInv
<1>0. PICK n \in Name : n = cl[c].name
  BY <1>1, PlainFacts DEF Kept, Moved
<1> USE <1>0
<1>2. /\ cl[c].pc = "c_disk" /\ Kept(c) /\ Moved(c) /\ cl'[c].pc \in {"c_rm", "c_meta"}
      /\ cl'[c].name = n
  BY <1>1, PlainFacts DEF Kept
<1>3. UNCHANGED <<dir, rec, tap, procs, up, running, waits, fresh>>
  BY DEF CreateDisk, host, daemon
<1>4. /\ n \in Name
      /\ \A d \in Request : cl'[d].pc \in Active /\ cl'[d].name = n => d = c
  BY <1>2, SoleSound DEF Active, Making
<1>5. meta'[n] \in {meta[n], Torn} /\ \A k \in Name : k # n => meta'[k] = meta[k]
  BY <1>1, <1>4 DEF Types, CreateDisk
<1>6. \A k \in Name : k # n => Sound(k)'
  <2>1. fresh'.pid >= fresh.pid
    BY <1>1, <1>3 DEF Types
  <2> QED BY <1>2, <1>3, <1>5, <2>1, OthersSound
<1>7. Sound(n) /\ dir[n] # 0 /\ ~meta[n].ok /\ rec[n] = 0 /\ Off(n)
  BY <1>2, <1>4 DEF IInv, Sound, Maker, Making
<1>8. Off(n)'
  BY <1>3, <1>7 DEF Off
<1>9. Folder(n)' /\ GuestOn(n)' /\ WaitOn(n)'
  BY <1>3, <1>5, <1>7, <1>8 DEF Sound, Folder, GuestOn, WaitOn, Off
<1>10. ASSUME NEW d \in Request PROVE Maker(d, n)' /\ Booter(d, n)'
  BY <1>2, <1>3, <1>4, <1>5, <1>7, <1>8, Files DEF Maker, Booter, Active, Making, Booting, Begun
<1> QED BY <1>6, <1>9, <1>10 DEF Sound

(* saveMeta of Create.                                                     *)
LEMMA CreateMetaSound ==
    ASSUME IInv, Types', NEW c \in Request, CreateMeta(c)
    PROVE  \A k \in Name : Sound(k)'
<1>1. Types
  BY DEF IInv
<1>0. PICK n \in Name : n = cl[c].name
  BY <1>1, CreateMetaFacts DEF Kept, Moved
<1> USE <1>0
<1>2. /\ cl[c].pc = "c_meta" /\ n \in Name /\ UNCHANGED <<dir, rec, tap, procs, up, running, waits>>
  BY <1>1, CreateMetaFacts DEF host
<1>3. /\ Moved(c) /\ cl'[c].pc \in {"c_rm", "lock"} /\ cl'[c].name = n /\ fresh'.pid = fresh.pid
      /\ cl'[c].pc = "c_rm" => meta' = meta
      /\ meta' # meta => meta' = [meta EXCEPT ![n] = Meta(cl[c].net, FALSE)]
  <2>1. CASE Kept(c) /\ cl'[c].pc = "c_rm" /\ UNCHANGED <<meta, locks, fresh>>
    BY <2>1 DEF Kept
  <2>2. CASE /\ vmLock(c, "start", cl[c].name)
             /\ meta' = [meta EXCEPT ![n] = Meta(cl[c].net, FALSE)]
    BY <1>1, <1>2, <2>2, Fetched DEF Moved, Types
  <2> QED BY <1>1, <2>1, <2>2, CreateMetaFacts
<1>4. \A d \in Request : cl'[d].pc \in Active /\ cl'[d].name = n => d = c
  BY <1>2, <1>3, SoleSound DEF Active, Making
<1>5. /\ meta'[n] = meta[n] \/ (meta'[n].ok /\ cl'[c].pc = "lock")
      /\ \A k \in Name : k # n => meta'[k] = meta[k]
  <2>1. cl[c].net \in Nat
    BY <1>1 DEF Types, Frame
  <2>2. Meta(cl[c].net, FALSE).ok
    BY <2>1, Files
  <2>3. CASE meta' = meta
    BY <2>3
  <2>4. CASE meta' # meta
    BY <1>1, <1>3, <2>2, <2>4 DEF Types
  <2> QED BY <2>3, <2>4
<1>6. \A k \in Name : k # n => Sound(k)'
  <2>1. fresh'.pid >= fresh.pid
    BY <1>1, <1>3 DEF Types
  <2> QED BY <1>2, <1>3, <1>5, <2>1, OthersSound
<1>7. Sound(n) /\ dir[n] # 0 /\ ~meta[n].ok /\ rec[n] = 0 /\ Off(n)
  BY <1>2 DEF IInv, Sound, Maker, Making
<1>8. Off(n)'
  BY <1>2, <1>7 DEF Off
<1>9. Folder(n)' /\ GuestOn(n)' /\ WaitOn(n)'
  BY <1>2, <1>3, <1>5, <1>7, <1>8 DEF Sound, Folder, GuestOn, WaitOn, Off
<1>10. ASSUME NEW d \in Request PROVE Maker(d, n)' /\ Booter(d, n)'
  BY <1>2, <1>3, <1>4, <1>5, <1>7, <1>8, Files DEF Maker, Booter, Active, Making, Booting, Begun
<1> QED BY <1>6, <1>9, <1>10 DEF Sound

(* os.RemoveAll after a Create that failed: outside the mutex, but         *)
(* nothing was started.                                                    *)
LEMMA CreateUndoSound ==
    ASSUME IInv, Types', NEW c \in Request, CreateUndo(c)
    PROVE  \A k \in Name : Sound(k)'
<1>1. Types
  BY DEF IInv
<1>0. PICK n \in Name : n = cl[c].name
  BY <1>1, PlainFacts DEF Kept, Moved
<1> USE <1>0
<1>2. /\ cl[c].pc = "c_rm" /\ Moved(c) /\ cl'[c] = Free
      /\ UNCHANGED <<tap, procs, up, running, waits, fresh>>
  BY <1>1, PlainFacts DEF CreateUndo, host, daemon
<1>3. /\ n \in Name
      /\ \A d \in Request : cl'[d].pc \in Active /\ cl'[d].name = n => d = c
  BY <1>2, SoleSound DEF Active, Making
<1>4. /\ dir'[n] = 0 /\ meta'[n] = NoMeta /\ rec'[n] = 0
      /\ \A k \in Name : k # n => dir'[k] = dir[k] /\ meta'[k] = meta[k] /\ rec'[k] = rec[k]
  BY <1>1, <1>3 DEF Types, CreateUndo, RemoveAll
<1>5. fresh'.pid >= fresh.pid /\ 0 <= fresh.pid
  BY <1>1, <1>2 DEF Types
<1>6. \A k \in Name : k # n => Sound(k)'
  BY <1>2, <1>4, <1>5, OthersSound
<1>7. Sound(n) /\ Off(n)
  BY <1>2, <1>3 DEF IInv, Sound, Maker, Making
<1>8. Off(n)'
  BY <1>2, <1>7 DEF Off
<1>9. Folder(n)' /\ GuestOn(n)' /\ WaitOn(n)'
  BY <1>2, <1>4, <1>5, <1>7, <1>8 DEF Sound, Folder, GuestOn, WaitOn, Off
<1>10. \A d \in Request : ~(cl'[d].pc \in Active /\ cl'[d].name = n)
  BY <1>2, <1>3, FreeFrame DEF Active, Making, Booting, Begun
<1>11. ASSUME NEW d \in Request PROVE Maker(d, n)' /\ Booter(d, n)'
  BY <1>10 DEF Maker, Booter, Active
<1> QED BY <1>6, <1>9, <1>11 DEF Sound

(* startVM's checks: whoever passes vm.lock finds no guest on the disk.    *)
LEMMA StartCheckSound ==
    ASSUME IInv, Types', NEW c \in Request, StartCheck(c)
    PROVE  \A k \in Name : Sound(k)'
<1>1. Types
  BY DEF IInv
<1>0. PICK n \in Name : n = cl[c].name
  BY <1>1, StartCheckFacts DEF Kept, Moved
<1> USE <1>0
<1>2. /\ cl[c].pc = "s_check" /\ Moved(c)
      /\ UNCHANGED <<dir, meta, rec, tap, procs, up, running, waits, fresh>>
  BY <1>1, StartCheckFacts DEF disk, host, daemon
<1>3. CASE cl'[c] = Free
  BY <1>2, <1>3, QuietSound, FreeFrame DEF Active, Making, Booting, Begun
<1>4. CASE /\ Kept(c) /\ cl'[c].pc = "s_net" /\ cl'[c].gen = dir[n]
           /\ meta[n].ok /\ running[n] = NoRun /\ ~RunLocked(n)
  <2>1. n \in Name /\ cl'[c].name = n /\ fresh'.pid >= fresh.pid
    BY <1>1, <1>2, <1>4 DEF Types, Moved, Kept
  <2>2. \A k \in Name : k # n => Sound(k)'
    BY <1>2, <2>1, OthersSound
  <2>3. Sound(n)
    BY <2>1 DEF IInv
  <2>4. dir[n] # 0 /\ meta[n] # NoMeta
    BY <1>4, <2>3, Files DEF Sound, Folder
  <2>5. Off(n)
    BY <1>4, <2>3 DEF Sound, GuestOn, Off, RunLocked
  <2>6. ASSUME NEW d \in Request, cl[d].pc \in Active, cl[d].name = n PROVE FALSE
    <3>1. cl[d].pc \notin Making
      BY <1>4, <2>3, <2>6 DEF Sound, Maker
    <3>2. Holds(c) /\ Holds(d) /\ c # d
      BY <1>2, <2>6, <3>1 DEF Holds, Active, Making, Booting, Begun
    <3>3. cl[c].mu = cl[d].mu
      BY <2>6, <3>2 DEF IInv, Mutexes, Holds
    <3> QED BY <3>2, <3>3 DEF IInv, Mutexes
  <2>7. \A d \in Request : cl'[d].pc \in Active /\ cl'[d].name = n => d = c
    BY <1>2, <2>6 DEF Moved
  <2>8. Off(n)'
    BY <1>2, <2>5 DEF Off
  <2>9. Folder(n)' /\ GuestOn(n)' /\ WaitOn(n)'
    BY <1>2, <2>3, <2>8 DEF Sound, Folder, GuestOn, WaitOn, Off
  <2>10. ASSUME NEW d \in Request PROVE Maker(d, n)' /\ Booter(d, n)'
    BY <1>2, <1>4, <2>4, <2>7, <2>8 DEF Maker, Booter, Active, Making, Booting, Begun
  <2> QED BY <2>2, <2>9, <2>10 DEF Sound
<1> QED BY <1>1, <1>3, <1>4, StartCheckFacts

(* The network of a Start.                                                 *)
LEMMA StartNetSound ==
    ASSUME IInv, Types', NEW c \in Request, StartNet(c)
    PROVE  \A k \in Name : Sound(k)'
<1>1. Types
  BY DEF IInv
<1>0. PICK n \in Name : n = cl[c].name
  BY <1>1, StartNetFacts DEF Moved
<1> USE <1>0
<1>2. /\ cl[c].pc = "s_net" /\ Moved(c)
      /\ UNCHANGED <<dir, rec, procs, up, running, waits, fresh>>
  BY <1>1, StartNetFacts DEF daemon
<1>3. CASE cl'[c] = Free /\ UNCHANGED meta
  BY <1>2, <1>3, QuietSound, FreeFrame DEF Active, Making, Booting, Begun
<1>4. CASE /\ Kept(c) /\ cl'[c].pc = "s_meta" /\ cl'[c].gen = cl[c].gen /\ cl'[c].wr = dir[n]
           /\ meta' = [meta EXCEPT ![n] = Torn]
  <2>1. cl'[c].name = n /\ fresh'.pid >= fresh.pid
    BY <1>1, <1>2, <1>4 DEF Types, Kept
  <2>2. meta'[n] = Torn /\ \A k \in Name : k # n => meta'[k] = meta[k]
    BY <1>1, <1>4 DEF Types
  <2>3. \A k \in Name : k # n => Sound(k)'
    BY <1>2, <2>1, <2>2, OthersSound
  <2>4. Sound(n) /\ dir[n] # 0 /\ cl[c].gen = dir[n] /\ running[n] = NoRun /\ Off(n)
    BY <1>2 DEF IInv, Sound, Booter, Booting
  <2>5. \A d \in Request : cl'[d].pc \in Active /\ cl'[d].name = n => d = c
    BY <1>2, <2>1, SoleSound DEF Active, Booting
  <2>6. Off(n)'
    BY <1>2, <2>4 DEF Off
  <2>7. Folder(n)' /\ GuestOn(n)' /\ WaitOn(n)'
    BY <1>2, <2>2, <2>4, <2>6, Files DEF Sound, Folder, GuestOn, WaitOn, Off
  <2>8. ASSUME NEW d \in Request PROVE Maker(d, n)' /\ Booter(d, n)'
    BY <1>2, <1>4, <2>2, <2>4, <2>5, <2>6, Files DEF Maker, Booter, Active, Making, Booting, Begun
  <2> QED BY <2>3, <2>7, <2>8 DEF Sound
<1> QED BY <1>1, <1>3, <1>4, StartNetFacts

(* saveMeta of a Start.                                                    *)
LEMMA StartMetaSound ==
    ASSUME IInv, Types', NEW c \in Request, StartMeta(c)
    PROVE  \A k \in Name : Sound(k)'
<1>1. Types
  BY DEF IInv
<1>0. PICK n \in Name : n = cl[c].name
  BY <1>1, StartMetaFacts DEF Moved
<1> USE <1>0
<1>2. /\ cl[c].pc = "s_meta" /\ Moved(c)
      /\ cl'[c] = Free \/ (Kept(c) /\ Same(c) /\ cl'[c].pc = "s_spawn")
      /\ UNCHANGED <<dir, rec, procs, up, running, waits>>
  BY <1>1, StartMetaFacts DEF daemon
<1>3. fresh'.pid = fresh.pid /\ fresh'.pid >= fresh.pid
  <2>1. fresh' = fresh \/ fresh' = [fresh EXCEPT !.tap = @ + 1]
    BY <1>1, StartMetaFacts
  <2> QED BY <1>1, <2>1 DEF Types
<1>4. /\ meta'[n] = meta[n] \/ meta'[n].ok
      /\ \A k \in Name : k # n => meta'[k] = meta[k]
  <2>1. cl[c].net \in Nat
    BY <1>1 DEF Types, Frame
  <2>2. Meta(cl[c].net, TRUE).ok
    BY <2>1, Files
  <2>3. meta' = meta \/ meta' = [meta EXCEPT ![n] = Meta(cl[c].net, TRUE)]
    BY <1>1, StartMetaFacts
  <2> QED BY <1>1, <2>2, <2>3 DEF Types
<1>5. \A k \in Name : k # n => Sound(k)'
  BY <1>2, <1>3, <1>4, OthersSound DEF Kept
<1>6. /\ Sound(n) /\ dir[n] # 0 /\ cl[c].gen = dir[n] /\ meta[n] # NoMeta
      /\ running[n] = NoRun /\ Off(n)
  BY <1>2 DEF IInv, Sound, Booter, Booting
<1>7. \A d \in Request : cl'[d].pc \in Active /\ cl'[d].name = n => d = c
  BY <1>2, SoleSound DEF Active, Booting, Kept
<1>8. Off(n)'
  BY <1>2, <1>6 DEF Off
<1>9. Folder(n)' /\ GuestOn(n)' /\ WaitOn(n)'
  BY <1>2, <1>3, <1>4, <1>6, <1>8, Files DEF Sound, Folder, GuestOn, WaitOn, Off
<1>10. ASSUME NEW d \in Request PROVE Maker(d, n)' /\ Booter(d, n)'
  <2>1. meta'[n] # NoMeta
    BY <1>4, <1>6, Files
  <2>2. cl'[c].pc \in Active => cl'[c].pc = "s_spawn" /\ cl'[c].gen = dir[n]
    BY <1>2, <1>6, FreeFrame DEF Same, Active, Making, Booting, Begun
  <2> QED BY <1>2, <1>6, <1>7, <1>8, <2>1, <2>2 DEF Maker, Booter, Active, Making, Booting, Begun
<1> QED BY <1>5, <1>9, <1>10 DEF Sound

(* Firecracker runs: the first guest on this disk.                         *)
LEMMA StartSpawnSound ==
    ASSUME IInv, Types', NEW c \in Request, StartSpawn(c)
    PROVE  \A k \in Name : Sound(k)'
<1>1. Types
  BY DEF IInv
<1>0. PICK n \in Name : n = cl[c].name
  BY <1>1, StartSpawnFacts DEF Moved
<1> USE <1>0
<1>2. /\ cl[c].pc = "s_spawn" /\ Moved(c) /\ UNCHANGED <<dir, meta, rec, up, running, waits>>
  BY <1>1, StartSpawnFacts DEF daemon, disk
<1>3. CASE cl'[c] = Free /\ UNCHANGED <<procs, fresh>>
  BY <1>2, <1>3, QuietSound, FreeFrame DEF Active, Making, Booting, Begun
<1> DEFINE new == [pid |-> fresh.pid + 1, name |-> n, gen |-> dir[n], lk |-> cl[c].gen]
<1>4. CASE /\ Kept(c) /\ cl'[c].pc = "s_reg" /\ cl'[c].gen = cl[c].gen /\ cl'[c].pid = fresh.pid + 1
           /\ procs' = procs \cup {new} /\ fresh' = [fresh EXCEPT !.pid = @ + 1]
  <2>1. /\ cl'[c].name = n /\ fresh'.pid = fresh.pid + 1 /\ fresh.pid \in Nat
        /\ fresh'.pid >= fresh.pid /\ fresh'.pid <= fresh'.pid
    BY <1>1, <1>2, <1>4 DEF Types, Kept
  <2>2. /\ Sound(n) /\ dir[n] # 0 /\ cl[c].gen = dir[n] /\ meta[n] # NoMeta
        /\ running[n] = NoRun /\ Off(n)
    BY <1>2 DEF IInv, Sound, Booter, Booting
  <2>3. new.pid = fresh.pid + 1 /\ new.name = n /\ new.gen = dir[n] /\ new.lk = dir[n]
    BY <2>2
  <2> HIDE DEF new
  <2>4. \A k \in Name : k # n => Sound(k)'
    BY <1>2, <1>4, <2>1, <2>3, OthersSound
  <2>5. \A d \in Request : cl'[d].pc \in Active /\ cl'[d].name = n => d = c
    BY <1>2, <2>1, SoleSound DEF Active, Booting
  <2>6. rec[n] \in Nat /\ rec[n] <= fresh.pid
    BY <1>1, <2>2 DEF Types, Sound, Folder
  <2>7. \A p \in procs' : p.name = n => p = new
    BY <1>4, <2>2 DEF Off
  <2>8. Folder(n)'
    BY <1>2, <2>1, <2>2, <2>6 DEF Sound, Folder
  <2>9. GuestOn(n)'
    BY <1>2, <2>1, <2>2, <2>3, <2>6, <2>7 DEF GuestOn
  <2>10. \A w \in waits : w.name # n
    BY <1>1, <2>2 DEF Sound, WaitOn, NoRun, Types, Wait
  <2>11. WaitOn(n)'
    BY <1>2, <2>10 DEF WaitOn
  <2>12. ASSUME NEW d \in Request PROVE Maker(d, n)' /\ Booter(d, n)'
    BY <1>2, <1>4, <2>1, <2>2, <2>3, <2>5, <2>7 DEF Maker, Booter, Active, Making, Booting, Begun
  <2> QED BY <2>4, <2>8, <2>9, <2>11, <2>12 DEF Sound
<1> QED BY <1>1, <1>3, <1>4, StartSpawnFacts

(* m.running names the new guest.                                          *)
LEMMA StartRegisterSound ==
    ASSUME IInv, Types', NEW c \in Request, StartRegister(c)
    PROVE  \A k \in Name : Sound(k)'
<1>1. Types
  BY DEF IInv
<1>0. PICK n \in Name : n = cl[c].name
  BY <1>1, PlainFacts DEF Kept, Moved
<1> USE <1>0
<1>2. /\ cl[c].pc = "s_reg" /\ Kept(c) /\ Moved(c) /\ Same(c) /\ cl'[c].pc = "s_rec" /\ cl'[c].name = n
      /\ UNCHANGED <<dir, meta, rec, procs, up, waits, fresh>>
  BY <1>1, PlainFacts DEF StartRegister, Kept, disk, host
<1>3. running'[n].pid = cl[c].pid /\ \A k \in Name : k # n => running'[k] = running[k]
  BY <1>1 DEF StartRegister, Types
<1>4. fresh'.pid >= fresh.pid
  BY <1>1, <1>2 DEF Types
<1>5. \A k \in Name : k # n => Sound(k)'
  BY <1>2, <1>3, <1>4, OthersSound
<1>6. /\ Sound(n) /\ dir[n] # 0 /\ cl[c].gen = dir[n] /\ meta[n] # NoMeta /\ running[n] = NoRun
      /\ cl[c].pid <= fresh.pid /\ \A p \in procs : p.name = n => p.pid = cl[c].pid
  BY <1>2 DEF IInv, Sound, Booter, Booting, Begun
<1>7. \A d \in Request : cl'[d].pc \in Active /\ cl'[d].name = n => d = c
  BY <1>2, SoleSound DEF Active, Begun
<1>8. \A w \in waits : w.name # n
  BY <1>1, <1>6 DEF Sound, WaitOn, NoRun, Types, Wait
<1>9. Folder(n)' /\ GuestOn(n)' /\ WaitOn(n)'
  BY <1>2, <1>3, <1>6, <1>8 DEF Sound, Folder, GuestOn, WaitOn
<1>10. ASSUME NEW d \in Request PROVE Maker(d, n)' /\ Booter(d, n)'
  BY <1>2, <1>3, <1>6, <1>7, <1>8 DEF Maker, Booter, Active, Making, Booting, Begun, Same
<1> QED BY <1>5, <1>9, <1>10 DEF Sound

(* run.json names it, and a goroutine waits for it.                        *)
LEMMA StartRecordSound ==
    ASSUME IInv, Types', NEW c \in Request, StartRecord(c)
    PROVE  \A k \in Name : Sound(k)'
<1>1. Types
  BY DEF IInv
<1>0. PICK n \in Name : n = cl[c].name
  BY <1>1, RecordFacts DEF Kept, Moved
<1> USE <1>0
<1> DEFINE new == NewWait(c)
<1>2. /\ cl[c].pc = "s_rec" /\ Kept(c) /\ Moved(c) /\ cl'[c].pc = "s_wait" /\ cl'[c].name = n
      /\ UNCHANGED <<dir, meta, procs, up, running, fresh>>
  BY <1>1, RecordFacts DEF Kept, host
<1>3. /\ waits' = waits \cup {new} /\ new.pid = cl[c].pid /\ new.name = n /\ new.step = "wait"
      /\ rec' = rec \/ rec' = [rec EXCEPT ![n] = cl[c].pid]
  BY <1>1, RecordFacts
<1> HIDE DEF new
<1>4. rec'[n] \in {rec[n], cl[c].pid} /\ \A k \in Name : k # n => rec'[k] = rec[k]
  BY <1>1, <1>3 DEF Types
<1>5. fresh'.pid >= fresh.pid
  BY <1>1, <1>2 DEF Types
<1>6. \A k \in Name : k # n => Sound(k)'
  BY <1>2, <1>3, <1>4, <1>5, OthersSound
<1>7. /\ Sound(n) /\ dir[n] # 0 /\ meta[n] # NoMeta /\ running[n].pid = cl[c].pid
      /\ cl[c].pid <= fresh.pid /\ (\A p \in procs : p.name = n => p.pid = cl[c].pid)
      /\ \A w \in waits : w.name # n
  BY <1>2 DEF IInv, Sound, Booter, Booting, Begun
<1>8. \A d \in Request : ~(cl'[d].pc \in Active /\ cl'[d].name = n)
  <2>1. \A d \in Request : cl'[d].pc \in Active /\ cl'[d].name = n => d = c
    BY <1>2, SoleSound DEF Active, Begun
  <2> QED BY <1>2, <2>1 DEF Active, Making, Booting, Begun
<1>9. \A w \in waits' : w.name = n => w = new
  BY <1>3, <1>7
<1>10. Folder(n)' /\ GuestOn(n)'
  BY <1>2, <1>4, <1>7 DEF Sound, Folder, GuestOn
<1>11. WaitOn(n)'
  BY <1>2, <1>3, <1>7, <1>9 DEF WaitOn
<1>12. ASSUME NEW d \in Request PROVE Maker(d, n)' /\ Booter(d, n)'
  BY <1>8 DEF Maker, Booter, Active
<1> QED BY <1>6, <1>10, <1>11, <1>12 DEF Sound

-----------------------------------------------------------------------------
(* A guest ends, and the daemon does.                                      *)
LEMMA CleanupSound ==
    ASSUME IInv, Types', NEW w \in waits, EndedCleanup(w)
    PROVE  \A k \in Name : Sound(k)'
<1> DEFINE n == w.name
           v == [w EXCEPT !.step = "drop"]
<1>1. Types /\ n \in Name /\ w \in Wait
  BY DEF IInv, Types, Wait
<1>2. v.name = n /\ v.pid = w.pid /\ v.step = "drop"
  BY <1>1 DEF Wait
<1>3. /\ UNCHANGED <<dir, meta, procs, up, running, cl, fresh>> /\ waits' = (waits \ {w}) \cup {v}
      /\ \A p \in procs : p.pid # w.pid
      /\ rec'[n] = 0 /\ \A k \in Name : k # n => rec'[k] = rec[k]
  BY <1>1 DEF EndedCleanup, Live, Types
<1> HIDE DEF v
<1>4. fresh'.pid >= fresh.pid /\ 0 <= fresh.pid
  BY <1>1, <1>3 DEF Types
<1>5. ASSUME NEW k \in Name, k # n PROVE Sound(k)'
  <2>1. Untouched(k)
    BY <1>2, <1>3, <1>4, <1>5 DEF Untouched
  <2> QED BY <1>1, <2>1, UntouchedSound DEF IInv
<1>6. Sound(n) /\ Off(n) /\ running[n].pid = w.pid /\ w.pid # 0
  BY <1>1, <1>3 DEF IInv, Sound, WaitOn, Off, Wait
<1>7. \A u \in waits' : u.name = n => u = v
  BY <1>3, <1>6 DEF Sound, WaitOn
<1>8. Off(n)'
  BY <1>3, <1>6 DEF Off
<1>9. Folder(n)' /\ GuestOn(n)'
  BY <1>3, <1>4, <1>6, <1>8 DEF Sound, Folder, GuestOn, Off
<1>10. WaitOn(n)'
  BY <1>2, <1>3, <1>6, <1>7, <1>8 DEF WaitOn, Off
<1>11. ASSUME NEW c \in Request PROVE Maker(c, n)' /\ Booter(c, n)'
  <2>1. ~(cl[c].pc \in Booting \cup Begun /\ cl[c].name = n)
    BY <1>6 DEF Sound, Booter, NoRun
  <2>2. Maker(c, n)'
    BY <1>3, <1>6, <1>8 DEF Sound, Maker, Active
  <2> QED BY <1>3, <2>1, <2>2 DEF Booter
<1>12. Sound(n)'
  BY <1>9, <1>10, <1>11 DEF Sound
<1> QED BY <1>5, <1>12

(* The wait goroutine takes the runtime out of m.running.                  *)
LEMMA DropSound ==
    ASSUME IInv, Types', NEW w \in waits, EndedDrop(w)
    PROVE  \A k \in Name : Sound(k)'
<1> DEFINE n == w.name
<1>1. Types /\ n \in Name /\ w \in Wait
  BY DEF IInv, Types, Wait
<1>2. UNCHANGED <<dir, meta, rec, procs, up, cl, fresh>> /\ waits' = waits \ {w}
  BY DEF EndedDrop, disk, host
<1>3. Sound(n) /\ Off(n) /\ running[n].pid = w.pid /\ w.pid # 0 /\ \A u \in waits : u.name = n => u = w
  BY <1>1 DEF IInv, Sound, WaitOn, Wait, EndedDrop
<1>4. running'[n] = NoRun /\ \A k \in Name : k # n => running'[k] = running[k]
  BY <1>1, <1>3 DEF EndedDrop, Types
<1>5. fresh'.pid >= fresh.pid
  BY <1>1, <1>2 DEF Types
<1>6. ASSUME NEW k \in Name, k # n PROVE Sound(k)'
  <2>1. Untouched(k)
    BY <1>2, <1>4, <1>5, <1>6 DEF Untouched
  <2> QED BY <1>1, <2>1, UntouchedSound DEF IInv
<1>7. Off(n)' /\ \A u \in waits' : u.name # n
  BY <1>2, <1>3 DEF Off
<1>8. Folder(n)' /\ GuestOn(n)' /\ WaitOn(n)'
  BY <1>2, <1>3, <1>7 DEF Sound, Folder, GuestOn, WaitOn, Off
<1>9. ASSUME NEW c \in Request PROVE Maker(c, n)' /\ Booter(c, n)'
  <2>1. ~(cl[c].pc \in Booting \cup Begun /\ cl[c].name = n)
    BY <1>3 DEF Sound, Booter, NoRun
  <2>2. Maker(c, n)'
    BY <1>2, <1>3, <1>7 DEF Sound, Maker, Active
  <2> QED BY <1>2, <2>1, <2>2 DEF Booter
<1>10. Sound(n)'
  BY <1>8, <1>9 DEF Sound
<1> QED BY <1>6, <1>10

(* The daemon is gone, by Exit, Crash or a reboot: its requests and        *)
(* runtimes with it, guests only where they go too or stay recorded.       *)
LEMMA ForgetSound ==
    ASSUME IInv, Types', procs' \subseteq procs, Forget
    PROVE  \A k \in Name : Sound(k)'
<1> SUFFICES ASSUME NEW k \in Name PROVE Sound(k)'
  OBVIOUS
<1>1. Types /\ Sound(k)
  BY DEF IInv
<1>2. /\ UNCHANGED <<dir, meta, rec, fresh>> /\ up' = "down" /\ waits' = {}
      /\ \A c \in Request : cl'[c].pc = "idle"
  BY FreeFrame DEF Forget, disk
<1>3. Folder(k)' /\ GuestOn(k)' /\ WaitOn(k)'
  BY <1>1, <1>2 DEF Sound, Folder, GuestOn, WaitOn
<1>4. \A c \in Request : Maker(c, k)' /\ Booter(c, k)'
  BY <1>2 DEF Maker, Booter, Making, Booting, Begun
<1> QED BY <1>3, <1>4 DEF Sound

(* adoptRunning: a guest that run.json names is managed again, and only    *)
(* such a one.                                                             *)
LEMMA BootSound ==
    ASSUME IInv, Types', Boot
    PROVE  \A k \in Name : Sound(k)'
<1> SUFFICES ASSUME NEW k \in Name PROVE Sound(k)'
  OBVIOUS
<1>1. Types /\ Sound(k) /\ \A c \in Request : cl[c].pc = "idle"
  BY DEF IInv, Down, Boot
<1>2. UNCHANGED <<dir, meta, procs, cl, fresh>> /\ up' = "up" /\ meta[k] # Torn
  BY DEF Boot, Refuses
<1>3. rec'[k] \in {rec[k], 0} /\ (rec'[k] # 0 /\ Loads(k) => Survivor(k))
  BY DEF Boot, BootEffects
<1>4. /\ Adopts(k) => running'[k].pid = rec[k]
      /\ \A w \in waits' : w.name = k => Adopts(k) /\ w.pid = rec[k]
  BY DEF Boot
<1>5. \A v, w \in waits' : v.name = k /\ w.name = k => v = w /\ v.step = "wait"
  BY DEF Boot
<1>6. 0 <= fresh.pid /\ \A p \in procs : p.pid # 0
  BY <1>1 DEF Types, Guest
<1>7. Folder(k)'
  BY <1>1, <1>2, <1>3, <1>6 DEF Sound, Folder
<1>8. GuestOn(k)'
  <2>1. ASSUME NEW p \in procs, p.name = k, rec'[k] = p.pid PROVE running'[k].pid = p.pid
    <3>1. rec[k] # 0 /\ rec'[k] = rec[k]
      BY <1>3, <1>6, <2>1
    <3>2. Loads(k) /\ dir[k] # 0
      BY <1>1, <1>2, <3>1 DEF Sound, Folder, Loads
    <3>3. Adopts(k)
      BY <1>3, <3>1, <3>2 DEF Adopts
    <3> QED BY <1>4, <2>1, <3>1, <3>3
  <2> QED BY <1>1, <1>2, <2>1 DEF Sound, GuestOn
<1>9. WaitOn(k)'
  <2>1. \A p \in procs : p.name = k /\ Adopts(k) => p.pid = rec[k]
    BY <1>1 DEF Sound, GuestOn, Adopts, Survivor
  <2> QED BY <1>2, <1>4, <1>5, <2>1 DEF WaitOn
<1>10. \A c \in Request : Maker(c, k)' /\ Booter(c, k)'
  BY <1>1, <1>2 DEF Maker, Booter, Making, Booting, Begun
<1> QED BY <1>7, <1>8, <1>9, <1>10 DEF Sound

(* A name's mutex is fetched: nothing else happens.                        *)
LEMMA FetchedSound ==
    ASSUME IInv, Types', NEW c \in Request, NEW op \in {"create", "start", "stop"}, NEW n \in Name,
           vmLock(c, op, n), UNCHANGED <<disk, procs, up, running, waits>>
    PROVE  \A k \in Name : Sound(k)'
<1> SUFFICES ASSUME NEW k \in Name PROVE Sound(k)'
  OBVIOUS
<1>1. Types /\ Sound(k)
  BY DEF IInv
<1>2. /\ fresh'.pid = fresh.pid /\ cl'[c].pc = "lock"
      /\ \A d \in Request \ {c} : cl'[d] = cl[d]
  BY <1>1, Fetched
<1>3. Untouched(k)
  BY <1>1, <1>2 DEF Untouched, Types, disk, Active, Making, Booting, Begun
<1> QED BY <1>1, <1>3, UntouchedSound

(* Every name stays sound, at every step.                                  *)
LEMMA SoundKept ==
    ASSUME "delete" \notin Ops, IInv, Types', [Next]_vars
    PROVE  \A n \in Name : Sound(n)'
<1>1. Types
  BY DEF IInv
<1>2. CASE /\ UNCHANGED <<dir, meta, running, waits, cl, fresh>>
           /\ procs' \subseteq procs /\ (up = "down" => up' = "down")
           /\ \A k \in Name : rec'[k] \in {rec[k], 0}
  <2> SUFFICES ASSUME NEW k \in Name PROVE Sound(k)'
    OBVIOUS
  <2>1. Untouched(k)
    BY <1>1, <1>2 DEF Untouched, Types
  <2> QED BY <1>1, <2>1, UntouchedSound DEF IInv
<1>3. ASSUME NEW c \in Client, NEW op \in Ops, NEW n \in Name, Begin(c, op, n)
      PROVE  \A k \in Name : Sound(k)'
  <2>1. c \in Request /\ op \in {"create", "start", "stop"}
    BY VMAssumption DEF Request
  <2> QED BY <1>3, <2>1, FetchedSound DEF Begin, host
<1>4. ASSUME NEW n \in Name, AutoStart(n) \/ StopEach(n) PROVE \A k \in Name : Sound(k)'
  BY <1>4, FetchedSound DEF AutoStart, StopEach, Request, host
<1>5. ASSUME NEW c \in Request, Step(c) PROVE \A k \in Name : Sound(k)'
  <2> USE DEF disk, host, daemon
  <2>1. CASE Lock(c)
    BY <1>1, <2>1, LockFacts, QuietSound DEF Kept, Active, Making, Booting, Begun
  <2>2. CASE CreateMu(c)
    <3>1. UNCHANGED <<dir, meta, rec, procs, waits, up, running, fresh>>
      BY <2>2 DEF CreateMu
    <3> QED BY <1>1, <2>2, <3>1, PlainFacts, QuietSound DEF Kept, Active, Making, Booting, Begun
  <2>3. CASE StartReady(c) \/ StopWait(c)
    <3>1. UNCHANGED <<dir, meta, rec, procs, waits, up, running, fresh>>
      BY <2>3 DEF StartReady, StopWait
    <3> QED BY <1>1, <2>3, <3>1, PlainFacts, FreeFrame, QuietSound DEF Active, Making, Booting, Begun
  <2>4. CASE StartSettle(c)
    BY <1>1, <2>4, SettleFacts, FreeFrame, QuietSound DEF Active, Making, Booting, Begun
  <2>5. CASE StopMark(c)
    <3>1. \A n \in Name : /\ running'[n].pid = running[n].pid
                          /\ running'[n] = NoRun <=> running[n] = NoRun
      BY <1>1, <2>5, StopMarkFacts, RuntimeSet DEF Lives, Moved
    <3> QED BY <1>1, <2>5, <3>1, StopMarkFacts, FreeFrame, QuietSound DEF Active, Making, Booting, Begun
  <2>6. ~DeleteMark(c) /\ ~DeleteNet(c) /\ ~DeleteDir(c)
    BY <1>1 DEF DeleteMark, DeleteNet, DeleteDir, At, Types, Frame, Place
  <2> QED BY <1>5, <2>1, <2>2, <2>3, <2>4, <2>5, <2>6, CreateDirSound, CreateDiskSound,
             CreateMetaSound, CreateUndoSound, StartCheckSound, StartNetSound, StartMetaSound,
             StartSpawnSound, StartRegisterSound, StartRecordSound DEF Step
<1>6. CASE Ended
  BY <1>6, CleanupSound, DropSound DEF Ended
<1>7. CASE Exit \/ Crash \/ HostReboot
  BY <1>7, ForgetSound DEF Exit, Crash, HostReboot, Orphans
<1>8. CASE \/ \E p \in procs : GuestExits(p)
           \/ \E phase \in {"term", "failed"} : ShutDown(phase)
           \/ \E k \in BOOLEAN : KeepOrStop(k)
           \/ BootFails
  <2>1. /\ UNCHANGED <<dir, meta, running, waits, cl, fresh>>
        /\ procs' \subseteq procs /\ (up = "down" => up' = "down")
    BY <1>8 DEF GuestExits, ShutDown, KeepOrStop, BootFails, disk, host, daemon
  <2>2. \A k \in Name : rec'[k] \in {rec[k], 0}
    BY <1>8 DEF GuestExits, ShutDown, KeepOrStop, BootFails, BootEffects, disk
  <2> QED BY <1>2, <2>1, <2>2
<1>9. CASE UNCHANGED vars
  BY <1>2, <1>9 DEF vars
<1> QED BY <1>3, <1>4, <1>5, <1>6, <1>7, <1>8, <1>9, BootSound DEF Next

(* A daemon that is down does nothing but boot.                            *)
LEMMA DownKept == ASSUME IInv, [Next]_vars PROVE Down'
<1>1. CASE up = "down"
  <2>1. stops = {} /\ \A c \in Request : cl[c].pc = "idle"
    BY <1>1 DEF IInv, Down
  <2>2. ASSUME NEW c \in Request, Step(c) PROVE FALSE
    BY <2>1, <2>2 DEF Step, At, Lock, CreateMu, CreateDir, CreateDisk, CreateMeta, CreateUndo,
       StartCheck, StartNet, StartMeta, StartSpawn, StartRegister, StartRecord, StartSettle,
       StartReady, StopMark, StopWait, DeleteMark, DeleteNet, DeleteDir
  <2>3. CASE Exit \/ Crash \/ HostReboot
    BY <2>3, FreeFrame DEF Exit, Crash, HostReboot, Forget, Down
  <2>4. CASE Ended \/ BootFails \/ \E p \in procs : GuestExits(p)
    BY <2>1, <2>4 DEF Ended, EndedCleanup, EndedDrop, BootFails, GuestExits, daemon, duty, Down
  <2> QED BY <1>1, <2>1, <2>2, <2>3, <2>4 DEF Next, vars, Begin, AutoStart, StopEach, ShutDown,
             KeepOrStop, Boot, Down
<1>2. CASE up # "down"
  <2>1. CASE Exit \/ Crash \/ HostReboot
    BY <2>1, FreeFrame DEF Exit, Crash, HostReboot, Forget, Down
  <2>2. ASSUME NEW c \in Request, Step(c) PROVE up' = up
    BY <2>2 DEF Step, Lock, CreateMu, CreateDir, CreateDisk, CreateMeta, CreateUndo,
       StartCheck, StartNet, StartMeta, StartSpawn, StartRegister, StartRecord, StartSettle,
       StartReady, StopMark, StopWait, DeleteMark, DeleteNet, DeleteDir, daemon
  <2>3. ASSUME Ended \/ BootFails \/ \E p \in procs : GuestExits(p) PROVE up' = up
    BY <2>3 DEF Ended, EndedCleanup, EndedDrop, BootFails, GuestExits, daemon
  <2>4. ASSUME \/ \E c \in Client, op \in Ops, n \in Name : Begin(c, op, n)
               \/ \E n \in Name : AutoStart(n) \/ StopEach(n)
               \/ UNCHANGED vars
        PROVE  up' = up
    BY <2>4 DEF Begin, AutoStart, StopEach, vars
  <2>5. ASSUME \/ \E phase \in {"term", "failed"} : ShutDown(phase)
               \/ \E k \in BOOLEAN : KeepOrStop(k)
               \/ Boot
        PROVE  up' # "down"
    BY <2>5 DEF ShutDown, KeepOrStop, Boot
  <2>6. up' # "down" => Down'
    BY DEF Down
  <2> QED BY <1>2, <2>1, <2>2, <2>3, <2>4, <2>5, <2>6 DEF Next
<1> QED BY <1>1, <1>2

(* Before the first request all of it holds.                               *)
LEMMA InitInductive == Init => IInv
<1> SUFFICES ASSUME Init PROVE IInv
  OBVIOUS
<1> USE FreeFrame DEF Init
<1>1. Types
  BY Files DEF Types, Phase, Runtime, Begun
<1>2. Mutexes /\ Down
  BY DEF Mutexes, Down, Holds
<1>3. ASSUME NEW n \in Name PROVE Sound(n)
  BY DEF Sound, Folder, GuestOn, WaitOn, Maker, Booter, Making, Booting, Begun
<1> QED BY <1>1, <1>2, <1>3 DEF IInv

(* Every step keeps all of it, where nobody deletes.                       *)
LEMMA NextInductive == ASSUME "delete" \notin Ops, IInv, [Next]_vars PROVE IInv'
  BY TypesKept, MutexesKept, SoundKept, DownKept DEF IInv

(* The inductive invariant holds throughout.  A Delete breaks it: it       *)
(* throws the name's mutex away while requests wait for it (run VMTwin).   *)
THEOREM Inductive == ASSUME "delete" \notin Ops PROVE Spec => []IInv
  BY InitInductive, NextInductive, PTL DEF Spec

-----------------------------------------------------------------------------
(* vm.lock and the mutex of a name: whatever requests, crashes, restarts   *)
(* of the daemon and guests' ends do, no two Firecrackers use one disk.    *)
THEOREM DiskHasOneGuest == ASSUME "delete" \notin Ops PROVE Spec => []OneGuestPerDisk
<1>1. IInv => OneGuestPerDisk
  BY DEF IInv, Types, Guest, Sound, GuestOn, OneGuestPerDisk
<1> QED BY <1>1, Inductive, PTL

(* A guest that run.json names is in m.running while the daemon is up: a   *)
(* Stop reaches it, also one an earlier daemon began.                      *)
THEOREM RecordedGuestIsManaged == ASSUME "delete" \notin Ops PROVE Spec => []RecordedIsManaged
<1>1. IInv => RecordedIsManaged
  BY DEF IInv, Types, Guest, Sound, GuestOn, RecordedIsManaged
<1> QED BY <1>1, Inductive, PTL

(* A guest's TAP, across one step.                                         *)
LEMMA TapKept ==
    ASSUME "delete" \notin Ops, IInv, [Next]_vars, NEW p \in procs, p \in procs'
    PROVE  /\ up # "down" /\ tap[p.name] # 0 => tap'[p.name] = tap[p.name]
           /\ up = "down" /\ rec[p.name] = p.pid => tap'[p.name] = tap[p.name]
<1> DEFINE n == p.name
<1>1. Types /\ n \in Name /\ Sound(n)
  BY DEF IInv, Types, Guest
<1>2. ASSUME NEW c \in Request, Step(c) PROVE tap'[n] = tap[n]
  <2>1. ASSUME cl[c].pc \in Booting PROVE cl[c].name # n
    BY <1>1, <2>1 DEF Sound, Booter, Off
  <2>2. CASE StartNet(c) \/ StartMeta(c) \/ StartSpawn(c)
    <3>1. cl[c].pc \in Booting
      BY <2>2 DEF StartNet, StartMeta, StartSpawn, At, Booting
    <3>2. cl[c].name \in Name /\ cl[c].name # n
      BY <1>1, <2>1, <3>1 DEF Types, Booting
    <3>3. CASE StartNet(c)
      BY <1>1, <3>2, <3>3, StartNetFacts DEF Types
    <3>4. CASE StartMeta(c)
      <4>1. \E v \in Nat : tap' = tap \/ tap' = [tap EXCEPT ![cl[c].name] = v]
        BY <1>1, <3>4, StartMetaFacts
      <4> QED BY <1>1, <3>2, <4>1 DEF Types
    <3>5. CASE StartSpawn(c)
      BY <1>1, <3>2, <3>5, StartSpawnFacts DEF Types
    <3> QED BY <2>2, <3>3, <3>4, <3>5
  <2>3. CASE DeleteNet(c)
    BY <1>1, <2>3 DEF DeleteNet, At, Types, Frame, Place
  <2>4. CASE tap' = tap
    BY <2>4
  <2> QED BY <1>2, <2>2, <2>3, <2>4 DEF Step, Lock, CreateMu, CreateDir, CreateDisk, CreateMeta,
             CreateUndo, StartCheck, StartRegister, StartRecord, StartSettle, StartReady, StopMark,
             StopWait, DeleteMark, DeleteDir, host
<1>3. CASE Ended
  <2>1. PICK w \in waits : EndedCleanup(w) \/ EndedDrop(w)
    BY <1>3 DEF Ended
  <2>2. CASE EndedCleanup(w)
    <3>1. w.name # n
      BY <1>1, <2>2 DEF Sound, WaitOn, EndedCleanup, Live
    <3>2. w.name \in Name
      BY <1>1 DEF Types, Wait
    <3> QED BY <1>1, <2>2, <3>1, <3>2 DEF EndedCleanup, Types
  <2> QED BY <2>1, <2>2 DEF EndedDrop, host
<1>4. CASE Boot \/ BootFails
  <2>1. BootEffects /\ up = "down"
    BY <1>4 DEF Boot, BootFails
  <2>2. rec[n] = p.pid => Adopts(n) \/ ~Loads(n)
    BY <1>1 DEF Sound, GuestOn, Adopts, Survivor
  <2>3. rec[n] = p.pid => tap'[n] = tap[n]
    BY <1>1, <2>1, <2>2 DEF BootEffects
  <2> QED BY <2>1, <2>3
<1>5. CASE \/ \E c \in Client, op \in Ops, k \in Name : Begin(c, op, k)
           \/ \E k \in Name : AutoStart(k) \/ StopEach(k)
           \/ \E q \in procs : GuestExits(q)
           \/ \E phase \in {"term", "failed"} : ShutDown(phase)
           \/ \E k \in BOOLEAN : KeepOrStop(k)
           \/ Exit \/ Crash \/ UNCHANGED vars
  BY <1>5 DEF Begin, AutoStart, StopEach, GuestExits, ShutDown, KeepOrStop, Exit, Crash, vars, host
<1>6. ~HostReboot
  BY DEF HostReboot
<1> QED BY <1>2, <1>3, <1>4, <1>5, <1>6 DEF Next

(* startVM's and the wait goroutine's cleanups, reconcileNetworks and the  *)
(* boot never take the TAP of a guest that runs on.                        *)
THEOREM TapStays == ASSUME "delete" \notin Ops PROVE Spec => GuestKeepsTap
<1>1. ASSUME IInv, [Next]_vars
      PROVE  [\A p \in procs \cap procs' :
                /\ up # "down" /\ tap[p.name] # 0 => tap'[p.name] = tap[p.name]
                /\ up = "down" /\ rec[p.name] = p.pid => tap'[p.name] = tap[p.name]]_vars
  BY <1>1, TapKept
<1> QED BY <1>1, Inductive, PTL DEF Spec, GuestKeepsTap
=============================================================================
