------------------------------ MODULE Install ------------------------------
(***************************************************************************)
(* What an installed exe is on disk, and the runs that change it: the      *)
(* installer (`exe setup`), `exe update`, `exe uninstall`, and the desk's  *)
(* Extras switch for the apps of a release.  Each run is a sequence of     *)
(* steps on files, any of which may fail or be the last before a crash;    *)
(* between the runs the owner edits, adds and removes apps.                *)
(*                                                                         *)
(* One run is at work at a time (nothing in the code makes it so; README). *)
(* The owner does not touch an app while a run that has read it is about   *)
(* to replace it, or has begun to remove it.                               *)
(***************************************************************************)
EXTENDS Integers, FiniteSets

CONSTANTS App,         \* the bundles a release brings
          MaxRelease,  \* releases 1..MaxRelease come out, one after another
          MaxStops,    \* runs that fail or crash
          MaxMoves     \* what the owner does to the apps

ASSUME ReleaseAssumption == MaxRelease \in Nat \ {0}

VARIABLES latest,      \* the newest release published, 0 before the first
          bin,         \* release of the binary in place, 0 without one
          helper,      \* release of the network helper staged beside it
          rooted,      \* release of the helper root put where it is run from
          tree,        \* [App -> contents of the bundle's folder]
          manifest,    \* [App -> contents], Absent where it lists none
          pending,     \* the plan of a run that has not finished, likewise
          files,       \* which of the two files exist
          unit,        \* the service file: "none", "ours", "other"
          daemon,      \* release of the running daemon, 0 when none runs
          p,           \* the run at work
          stops, moves

vars == <<latest, bin, helper, rooted, tree, manifest, pending, files, unit,
          daemon, p, stops, moves>>

Release == 1..MaxRelease
Absent  == 0
Owners  == -1              \* anything no release holds
Half    == -2              \* what a removal cut short leaves of a bundle
Blank   == [a \in App |-> Absent]

Idle == [op |-> "none", pc |-> "idle", rel |-> 0, follow |-> FALSE,
         m |-> Blank, plan |-> {}, jobs |-> {}, moving |-> {}, old |-> Absent]

At(pc) == p.pc = pc
Go(pc) == p' = [p EXCEPT !.pc = pc]

disk == <<bin, helper, rooted, tree, manifest, pending, files, unit, daemon>>

Init ==
    /\ latest = 1 /\ bin = 0 /\ helper = 0 /\ rooted = 0
    /\ tree = Blank /\ manifest = Blank /\ pending = Blank /\ files = {}
    /\ unit \in {"none", "other"} /\ daemon = 0
    /\ p = Idle /\ stops = 0 /\ moves = 0

AppsTracked == files /= {}

(* Beginning a run.  The release of a setup is the one install.sh has just *)
(* downloaded; an update asks for the newest and stops when it runs it;    *)
(* the desk fetches the apps of the release that runs.                     *)
Begin(op, pc, rel, follow) ==
    /\ At("idle")
    /\ p' = [Idle EXCEPT !.op = op, !.pc = pc, !.rel = rel, !.follow = follow]
    /\ UNCHANGED <<latest, disk, stops, moves>>

runSetup ==
    \/ \E wanted \in BOOLEAN : Begin("setup", "prepare", latest, wanted \/ AppsTracked)
    \/ bin /= 0 /\ Begin("again", "vms", bin, FALSE)      \* no folder to install from

cmdUpdate ==
    /\ bin /= 0 /\ latest > bin
    /\ Begin("update", "prepare", latest, AppsTracked)

runUninstall == bin /= 0 /\ Begin("uninstall", "stop", bin, AppsTracked)

extraOn ==
    /\ daemon /= 0
    /\ \A a \in App : tree[a] \in {Absent, Half}   \* extraStand: else it is on
    /\ Begin("on", "own", daemon, TRUE)

extraOff ==
    /\ daemon /= 0 /\ AppsTracked
    /\ Begin("off", "disown", daemon, TRUE)

prepareBinary ==
    /\ At("prepare") /\ Go("stage")
    /\ UNCHANGED <<latest, disk, stops, moves>>

stageRelease ==
    /\ At("stage")
    /\ helper' = p.rel
    /\ Go(IF p.follow THEN "own" ELSE IF p.op = "setup" THEN "vms" ELSE "commit")
    /\ UNCHANGED <<latest, bin, rooted, tree, manifest, pending, files, unit,
                   daemon, stops, moves>>

(* owned: the manifest, and of a plan found every bundle that stands there *)
(* exactly as the plan meant to place it.                                  *)
owned == [a \in App |-> IF pending[a] /= Absent /\ tree[a] = pending[a]
                        THEN pending[a] ELSE manifest[a]]

Listed(f) == {a \in App : f[a] /= Absent}

BugReadRecord ==
    /\ At("own")
    /\ p' = [p EXCEPT !.pc = "plan", !.m = owned, !.plan = Listed(pending)]
    /\ UNCHANGED <<manifest, files, latest, bin, helper, rooted, tree, pending,
                   unit, daemon, stops, moves>>

(* InstallApps, its first part: what an unfinished run placed is on record *)
(* before its plan gives way to this run's.                                *)
ReadRecord ==
    /\ At("own")
    /\ p' = [p EXCEPT !.pc = "plan", !.m = owned, !.plan = Listed(pending)]
    /\ IF Listed(pending) /= {}
       THEN manifest' = owned /\ files' = files \cup {"manifest"}
       ELSE UNCHANGED <<manifest, files>>
    /\ UNCHANGED <<latest, bin, helper, rooted, tree, pending, unit, daemon, stops, moves>>

(* What the run will place: a bundle that is missing, unless it is ours    *)
(* and no plan explains it (its owner removed it), and one that still is   *)
(* what was installed.                                                     *)
ToPlace(a) ==
    IF tree[a] = Absent THEN p.m[a] = Absent \/ a \in p.plan
    ELSE p.m[a] = tree[a] /\ tree[a] /= p.rel

WritePlan ==
    /\ At("plan")
    /\ LET jobs == {a \in App : ToPlace(a)} IN
       /\ p' = [p EXCEPT !.pc = "place", !.jobs = jobs,
                  !.m = [a \in App |-> IF p.m[a] /= Absent /\ tree[a] = p.rel
                                       THEN p.rel ELSE p.m[a]]]
       /\ IF jobs /= {}
          THEN /\ pending' = [a \in App |-> IF a \in jobs THEN p.rel ELSE Absent]
               /\ files' = files \cup {"pending"}
          ELSE UNCHANGED <<pending, files>>
    /\ UNCHANGED <<latest, bin, helper, rooted, tree, manifest, unit, daemon, stops, moves>>

(* placeTree: the bundle in place is moved aside, then the copy takes its  *)
(* name.                                                                   *)
MoveAside(a) ==
    /\ At("place") /\ a \in p.jobs
    /\ p' = [p EXCEPT !.pc = "put", !.moving = {a}, !.old = tree[a]]
    /\ tree' = [tree EXCEPT ![a] = Absent]
    /\ UNCHANGED <<latest, bin, helper, rooted, manifest, pending, files, unit,
                   daemon, stops, moves>>

PutInPlace(a) ==
    /\ At("put") /\ p.moving = {a}
    /\ tree' = [tree EXCEPT ![a] = p.rel]
    /\ p' = [p EXCEPT !.pc = "place", !.jobs = @ \ {a}, !.m[a] = p.rel,
                  !.moving = {}, !.old = Absent]
    /\ UNCHANGED <<latest, bin, helper, rooted, manifest, pending, files, unit,
                   daemon, stops, moves>>

(* The copy could not take its name: what was there is put back, and what  *)
(* was placed so far is saved when that can be done.  The plan stays.      *)
PutBack(a) ==
    /\ At("put") /\ p.moving = {a} /\ stops < MaxStops
    /\ tree' = [tree EXCEPT ![a] = p.old]
    /\ \/ manifest' = p.m /\ files' = files \cup {"manifest"}
       \/ UNCHANGED <<manifest, files>>
    /\ p' = Idle /\ stops' = stops + 1
    /\ UNCHANGED <<latest, bin, helper, rooted, pending, unit, daemon, moves>>

SaveRecord ==
    /\ At("place") /\ p.jobs = {}
    /\ manifest' = p.m /\ files' = files \cup {"manifest"}
    /\ Go("unplan")
    /\ UNCHANGED <<latest, bin, helper, rooted, tree, pending, unit, daemon, stops, moves>>

DropPlan ==
    /\ At("unplan")
    /\ pending' = Blank /\ files' = files \ {"pending"}
    /\ IF p.op = "on" THEN p' = Idle
                      ELSE Go(IF p.op = "setup" THEN "vms" ELSE "commit")
    /\ UNCHANGED <<latest, bin, helper, rooted, tree, manifest, unit, daemon, stops, moves>>

(* runPlan: the root steps, when they were wanted.  One that stops is a    *)
(* note; the install goes on.  (planVMs plans only what is missing.)       *)
runPlan ==
    /\ At("vms")
    /\ rooted' \in {rooted, helper}
    /\ Go(IF p.op = "setup" THEN "commit" ELSE "service")
    /\ UNCHANGED <<latest, bin, helper, tree, manifest, pending, files, unit,
                   daemon, stops, moves>>

(* The rename that makes an install or an update done.                     *)
Commit ==
    /\ At("commit")
    /\ bin' = p.rel
    /\ IF p.op = "setup" THEN Go("service") ELSE p' = Idle
    /\ UNCHANGED <<latest, helper, rooted, tree, manifest, pending, files, unit,
                   daemon, stops, moves>>

(* A service file the installer did not write is left as it is, and so is  *)
(* the daemon it runs; without a session of the service manager the binary *)
(* is installed all the same.                                              *)
startService ==
    /\ At("service")
    /\ \/ unit /= "other" /\ unit' = "ours" /\ daemon' = bin
       \/ UNCHANGED <<unit, daemon>>
    /\ p' = Idle
    /\ UNCHANGED <<latest, bin, helper, rooted, tree, manifest, pending, files, stops, moves>>

stopService ==
    /\ At("stop")
    /\ IF unit = "ours" THEN unit' = "none" /\ daemon' = 0
                        ELSE UNCHANGED <<unit, daemon>>
    /\ Go("remove")
    /\ UNCHANGED <<latest, bin, helper, rooted, tree, manifest, pending, files, stops, moves>>

RemoveBinary ==
    /\ At("remove")
    /\ bin' = 0
    /\ Go(IF p.follow THEN "disown" ELSE "forget")
    /\ UNCHANGED <<latest, helper, rooted, tree, manifest, pending, files, unit,
                   daemon, stops, moves>>

(* RemoveApps: every bundle owned lists that still is what it says, file   *)
(* by file; a file that cannot be removed, or a crash, leaves the rest.    *)
ListOwned ==
    /\ At("disown")
    /\ p' = [p EXCEPT !.pc = "clear", !.m = owned, !.jobs = Listed(owned)]
    /\ UNCHANGED <<latest, disk, stops, moves>>

RemoveApp(a) ==
    /\ At("clear") /\ a \in p.jobs
    /\ IF tree[a] = p.m[a]
       THEN /\ tree' = [tree EXCEPT ![a] = Half]
            /\ p' = [p EXCEPT !.pc = "removing", !.moving = {a}]
       ELSE p' = [p EXCEPT !.jobs = @ \ {a}] /\ UNCHANGED tree
    /\ UNCHANGED <<latest, bin, helper, rooted, manifest, pending, files, unit,
                   daemon, stops, moves>>

RemoveRest(a) ==
    /\ At("removing") /\ p.moving = {a}
    /\ tree' = [tree EXCEPT ![a] = Absent]
    /\ p' = [p EXCEPT !.pc = "clear", !.jobs = @ \ {a}, !.moving = {}]
    /\ UNCHANGED <<latest, bin, helper, rooted, manifest, pending, files, unit,
                   daemon, stops, moves>>

Cleared ==
    /\ At("clear") /\ p.jobs = {} /\ Go("forget")
    /\ UNCHANGED <<latest, disk, stops, moves>>

(* ForgetApps takes the manifest first, then the plan; the uninstall takes *)
(* the folder of both, and of the helper, in the order of the file system. *)
ForgetApps(f) ==
    /\ At("forget") /\ f \in files
    /\ p.op = "off" => (f = "manifest" \/ "manifest" \notin files)
    /\ files' = files \ {f}
    /\ IF f = "manifest" THEN manifest' = Blank /\ UNCHANGED pending
                         ELSE pending' = Blank /\ UNCHANGED manifest
    /\ UNCHANGED <<latest, bin, helper, rooted, tree, unit, daemon, p,
                   stops, moves>>

Forgotten ==
    /\ At("forget") /\ files = {}
    /\ helper' = IF p.op = "uninstall" THEN 0 ELSE helper
    /\ p' = Idle
    /\ UNCHANGED <<latest, bin, rooted, tree, manifest, pending, files, unit,
                   daemon, stops, moves>>

(* A step fails and ends the run, or the machine or the run dies.          *)
Stopped ==
    /\ ~At("idle") /\ stops < MaxStops
    /\ p' = Idle /\ stops' = stops + 1
    /\ UNCHANGED <<latest, disk, moves>>

Publish ==
    /\ latest < MaxRelease
    /\ latest' = latest + 1
    /\ UNCHANGED <<disk, p, stops, moves>>

DaemonRestarts ==
    /\ daemon /= 0 /\ bin \notin {0, daemon}
    /\ daemon' = bin
    /\ UNCHANGED <<latest, bin, helper, rooted, tree, manifest, pending, files,
                   unit, p, stops, moves>>

OwnerMoves(a) ==
    /\ p.pc \notin {"place", "put", "removing"} /\ moves < MaxMoves
    /\ \E c \in {Owners, Absent} \ {tree[a]} : tree' = [tree EXCEPT ![a] = c]
    /\ moves' = moves + 1
    /\ UNCHANGED <<latest, bin, helper, rooted, manifest, pending, files, unit,
                   daemon, p, stops>>

Next ==
    \/ runSetup \/ cmdUpdate \/ runUninstall \/ extraOn \/ extraOff
    \/ prepareBinary \/ stageRelease \/ ReadRecord \/ WritePlan
    \/ \E a \in App : MoveAside(a) \/ PutInPlace(a) \/ PutBack(a) \/ RemoveApp(a)
                      \/ RemoveRest(a) \/ OwnerMoves(a)
    \/ SaveRecord \/ DropPlan \/ runPlan \/ Commit \/ startService
    \/ stopService \/ RemoveBinary \/ ListOwned \/ Cleared
    \/ \E f \in files : ForgetApps(f)
    \/ Forgotten \/ Stopped \/ Publish \/ DaemonRestarts

Spec == Init /\ [][Next]_vars

-----------------------------------------------------------------------------
(* What the promise speaks of: an app is exe's as long as the manifest or  *)
(* the plan says that it stands there as exe placed it; one that is not is *)
(* taken for its owner's, for good (the header of apps.go).  Half an app   *)
(* is neither's.                                                           *)
Whose(a) == IF tree[a] \in {Absent, Half, manifest[a], pending[a]} THEN tree[a] ELSE Owners

Promise == INSTANCE InstallPromise WITH app <- [a \in App |-> Whose(a)], acts <- moves

(* However runs are cut short, and whatever the owner does between them,   *)
(* an install keeps its promise: an app is never changed or removed behind *)
(* its owner's back, one that exe placed never passes for the owner's, and *)
(* a release's binary goes in last.  The exception: of an app whose        *)
(* removal was cut short a part is left that no record knows (TreeSum);    *)
(* later runs say of it that its owner edited it, and leave it alone       *)
(* (apps.go:207, 268).                                                     *)
KeepsPromise == Promise!Spec
=============================================================================
