------------------------------ MODULE MacSetup ------------------------------
(***************************************************************************)
(* The emulated Macs (internal/macos9): each Mac's setup worker, its hard  *)
(* disk, its installer image and the QEMU that outlives the daemon, and    *)
(* the one emulator runtime the Macs share, replaced by two renames.       *)
(***************************************************************************)
EXTENDS Naturals

CONSTANTS Mac,        \* the Macs of one runtime
          MediaSize,  \* pieces of an installer image
          MaxSetups,  \* setups begun, over all Macs
          MaxCrashes  \* deaths of the daemon

VARIABLES phase, active, cancelled, \* [Mac -> ...] m.state, m.cancel used
          saved,       \* [Mac -> [phase, active]] setup.json
          installed,   \* [Mac -> BOOLEAN] installed.json
          disk,        \* [Mac -> BOOLEAN] the hard disk image
          part, media, \* [Mac -> [n, good]] the .part file; [Mac -> BOOLEAN]
          qemu,        \* [Mac -> "off", "coming", "on"]
          boot,        \* [Mac -> what it boots: "cd" (installer), "disk"]
          pc,          \* [Mac -> where its worker is]
          runtime, previous,  \* the two directories: "none", "old", "own"
          had,         \* a runtime has been in place
          setups, crashes

mac     == <<phase, active, cancelled, saved>>
files   == <<installed, disk, part, media>>
guest   == <<qemu, boot>>
dirs    == <<runtime, previous, had>>
counts  == <<setups, crashes>>
vars    == <<mac, files, guest, pc, dirs, counts>>

NoPart    == [n |-> 0, good |-> TRUE]
InRuntime == {"fetch", "clear", "away", "put", "sweep"}   \* runtimeMu held

Running(m) == qemu[m] = "on"

Init ==
    /\ phase = [m \in Mac |-> "new"] /\ active = [m \in Mac |-> FALSE]
    /\ cancelled = [m \in Mac |-> FALSE]
    /\ saved = [m \in Mac |-> [phase |-> "new", active |-> FALSE]]
    /\ installed = [m \in Mac |-> FALSE] /\ disk = [m \in Mac |-> FALSE]
    /\ part = [m \in Mac |-> NoPart] /\ media = [m \in Mac |-> FALSE]
    /\ qemu = [m \in Mac |-> "off"] /\ boot = [m \in Mac |-> "disk"]
    /\ pc = [m \in Mac |-> "idle"]
    /\ runtime \in {"none", "old"} /\ previous = "none"
    /\ had = (runtime /= "none") /\ setups = 0 /\ crashes = 0

-----------------------------------------------------------------------------
\* Start: a no-op while a setup is active or the Mac runs.  A failed save
\* ends it before there is a worker.
Start(m) ==
    /\ ~active[m] /\ ~Running(m)
    /\ setups < MaxSetups /\ setups' = setups + 1
    /\ \/ /\ phase' = [phase EXCEPT ![m] = "setup"]
          /\ active' = [active EXCEPT ![m] = TRUE]
          /\ cancelled' = [cancelled EXCEPT ![m] = FALSE]
          /\ saved' = [saved EXCEPT ![m] = [phase |-> "setup", active |-> TRUE]]
          /\ pc' = [pc EXCEPT ![m] = "runtime"]
       \/ phase' = [phase EXCEPT ![m] = "error"] /\ UNCHANGED <<active, cancelled, saved, pc>>
    /\ UNCHANGED <<files, guest, dirs, crashes>>

Cancel(m) ==
    /\ active[m] /\ ~cancelled[m]
    /\ cancelled' = [cancelled EXCEPT ![m] = TRUE]
    /\ UNCHANGED <<phase, active, saved, files, guest, pc, dirs, counts>>

\* The worker is over: the state says how it went, and is saved.
Ends(m, p) ==
    /\ phase' = [phase EXCEPT ![m] = p]
    /\ active' = [active EXCEPT ![m] = FALSE]
    /\ saved' = [saved EXCEPT ![m] = [phase |-> p, active |-> FALSE]]
    /\ pc' = [pc EXCEPT ![m] = "idle"]
    /\ UNCHANGED cancelled

Failed(m) == Ends(m, IF cancelled[m] THEN "interrupted" ELSE "error")

At(m, p)   == pc[m] = p
GoTo(m, p) == pc' = [pc EXCEPT ![m] = p] /\ UNCHANGED mac

\* A step before the launch that writes nothing fails, or finds ctx done.
Fails(m) ==
    /\ pc[m] \in {"runtime", "fetch", "media", "verify", "disk", "launch"}
    /\ Failed(m)
    /\ UNCHANGED <<files, guest, dirs, counts>>

-----------------------------------------------------------------------------
(* ensureRuntime, under runtimeMu *)

RuntimeMuFree == \A m \in Mac : pc[m] \notin InRuntime

BugRecoverRuntime == UNCHANGED <<runtime, previous>>

recoverRuntime ==
    IF runtime = "none" /\ previous /= "none"
      THEN runtime' = previous /\ previous' = "none"
      ELSE UNCHANGED <<runtime, previous>>

\* What is there is this build's and passes its check, or works and no newer
\* one can be had; or a staging directory is filled and checked.
ensureRuntime(m) ==
    /\ At(m, "runtime") /\ RuntimeMuFree
    /\ recoverRuntime
    /\ pc' = [pc EXCEPT ![m] = "fetch"]
    /\ UNCHANGED <<mac, files, guest, had, counts>>

RuntimeServes(m) ==
    /\ At(m, "fetch") /\ GoTo(m, IF installed[m] THEN "disk" ELSE "media")
    /\ UNCHANGED <<files, guest, dirs, counts>>

Staged(m) ==
    /\ At(m, "fetch") /\ GoTo(m, "clear")
    /\ UNCHANGED <<files, guest, dirs, counts>>

\* activateRuntime: previous is cleared, the runtime moved to it, staging
\* moved in, previous cleared.
ClearPrevious(m) ==
    /\ At(m, "clear")
    /\ \/ previous' = "none" /\ GoTo(m, "away")
       \/ Failed(m) /\ UNCHANGED previous
    /\ UNCHANGED <<files, guest, runtime, had, counts>>

MoveAway(m) ==
    /\ At(m, "away") /\ GoTo(m, "put")
    /\ previous' = runtime /\ runtime' = "none"
    /\ UNCHANGED <<files, guest, had, counts>>

PutInPlace(m) ==
    /\ At(m, "put")
    /\ \/ runtime' = "own" /\ had' = TRUE /\ GoTo(m, "sweep") /\ UNCHANGED previous
       \/ recoverRuntime /\ Failed(m) /\ UNCHANGED had
    /\ UNCHANGED <<files, guest, counts>>

Sweep(m) ==
    /\ At(m, "sweep")
    /\ \/ previous' = "none" /\ GoTo(m, IF installed[m] THEN "disk" ELSE "media")
       \/ Failed(m) /\ UNCHANGED previous
    /\ UNCHANGED <<files, guest, runtime, had, counts>>

-----------------------------------------------------------------------------
(* download, the disk, launch *)

\* One more piece, on top of what an earlier try left; or what the server
\* sends is not the file.
fetch(m) ==
    /\ At(m, "media") /\ ~media[m] /\ part[m].n < MediaSize
    /\ \E ok \in BOOLEAN :
         part' = [part EXCEPT ![m] = [n |-> @.n + 1, good |-> @.good /\ ok]]
    /\ UNCHANGED <<mac, installed, disk, media, guest, pc, dirs, counts>>

\* The image is there, or all of it is in the .part file and the checksum says.
verifyFile(m) ==
    /\ At(m, "media") /\ (media[m] \/ part[m].n = MediaSize)
    /\ IF media[m] \/ part[m].good
         THEN media' = [media EXCEPT ![m] = TRUE] /\ GoTo(m, "disk")
         ELSE Failed(m) /\ UNCHANGED media
    /\ part' = [part EXCEPT ![m] = NoPart]
    /\ UNCHANGED <<installed, disk, guest, dirs, counts>>

\* A disk that is there is used; a new one is made only for a Mac that has
\* never been installed.
DiskReady(m) ==
    /\ At(m, "disk")
    /\ IF disk[m] \/ ~installed[m]
         THEN disk' = [disk EXCEPT ![m] = TRUE] /\ GoTo(m, "launch")
         ELSE Failed(m) /\ UNCHANGED disk
    /\ UNCHANGED <<installed, part, media, guest, dirs, counts>>

\* launch: running is asked once more.  QEMU refuses to start while another
\* one holds its PID file.
launch(m) ==
    /\ At(m, "launch") /\ ~cancelled[m]
    /\ GoTo(m, "settle")
    /\ IF qemu[m] = "off"
         THEN /\ qemu' = [qemu EXCEPT ![m] = "coming"]
              /\ boot' = [boot EXCEPT ![m] = IF installed[m] THEN "disk" ELSE "cd"]
         ELSE UNCHANGED guest
    /\ UNCHANGED <<files, dirs, counts>>

Settled(m) ==
    /\ At(m, "settle")
    /\ \/ Running(m) /\ Ends(m, IF installed[m] THEN "ready" ELSE "installing")
       \/ ~Running(m) /\ Failed(m)
    /\ UNCHANGED <<files, guest, dirs, counts>>

-----------------------------------------------------------------------------
QemuUp(m) ==
    /\ qemu[m] = "coming" /\ qemu' = [qemu EXCEPT ![m] = "on"]
    /\ UNCHANGED <<mac, files, boot, pc, dirs, counts>>

QemuEnds(m) ==
    /\ qemu[m] /= "off" /\ qemu' = [qemu EXCEPT ![m] = "off"]
    /\ UNCHANGED <<mac, files, boot, pc, dirs, counts>>

\* Finish: the person says the installer is done, after the guest shut down.
BugFinish(m) ==
    /\ ~active[m] /\ ~Running(m) /\ disk[m]
    /\ installed' = [installed EXCEPT ![m] = TRUE]
    /\ phase' = [phase EXCEPT ![m] = "stopped"]
    /\ saved' = [saved EXCEPT ![m] = [phase |-> "stopped", active |-> FALSE]]
    /\ UNCHANGED <<active, cancelled, disk, part, media, guest, pc, dirs, counts>>

Finish(m) ==
    /\ ~active[m] /\ ~Running(m) /\ phase[m] = "installing" /\ disk[m]
    /\ installed' = [installed EXCEPT ![m] = TRUE]
    /\ phase' = [phase EXCEPT ![m] = "stopped"]
    /\ saved' = [saved EXCEPT ![m] = [phase |-> "stopped", active |-> FALSE]]
    /\ UNCHANGED <<active, cancelled, disk, part, media, guest, pc, dirs, counts>>

\* The daemon dies and starts again (newManager); the Macs run on.
Reopened(m) ==
    IF ~installed[m] /\ Running(m) THEN "installing"
    ELSE IF saved[m].active THEN "interrupted" ELSE saved[m].phase

Restart ==
    /\ crashes < MaxCrashes /\ crashes' = crashes + 1
    /\ phase' = [m \in Mac |-> Reopened(m)]
    /\ active' = [m \in Mac |-> FALSE] /\ cancelled' = [m \in Mac |-> FALSE]
    /\ pc' = [m \in Mac |-> "idle"]
    /\ UNCHANGED <<saved, files, guest, dirs, setups>>

Worker(m) ==
    \/ Fails(m) \/ ensureRuntime(m) \/ RuntimeServes(m) \/ Staged(m)
    \/ ClearPrevious(m) \/ MoveAway(m) \/ PutInPlace(m) \/ Sweep(m)
    \/ fetch(m) \/ verifyFile(m) \/ DiskReady(m) \/ launch(m) \/ Settled(m)

Next ==
    \/ Restart
    \/ \E m \in Mac : Start(m) \/ Cancel(m) \/ Worker(m) \/ QemuUp(m)
                        \/ QemuEnds(m) \/ Finish(m)

Spec == Init /\ [][Next]_vars

-----------------------------------------------------------------------------
(* Properties *)

\* A runtime once in place is never lost: whenever the daemon dies between
\* activateRuntime's renames, and whichever Mac's setup comes next, one of the
\* two directories holds a runtime that passed its check.
RuntimeKept == had => runtime /= "none" \/ previous /= "none"

\* The installer never runs, or comes up, over a system whose installation is
\* confirmed: not from a worker that gave up on a slow emulator, and not from
\* one of a daemon that died.
InstallerOffInstalled ==
    \A m \in Mac : installed[m] => ~(qemu[m] /= "off" /\ boot[m] = "cd")
=============================================================================
