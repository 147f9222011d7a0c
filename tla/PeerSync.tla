------------------------------ MODULE PeerSync ------------------------------
(***************************************************************************)
(* Node-to-node sync of ONE synced file (internal/peer): every node keeps  *)
(* a copy on disk and a manifest entry (version vector + tombstone flag +  *)
(* fingerprint); a change is stamped, pushed to every peer, and a          *)
(* reconcile loop diffs manifests to catch what a push missed.  Keys never *)
(* interact, so one file is the whole protocol.                            *)
(*                                                                         *)
(* Concurrency kept: fileMu (held from an apply's first step to its last), *)
(* pushes that read the version and the body in two steps and without the  *)
(* lock, stale manifest snapshots, requests that are lost, delayed,        *)
(* reordered or replayed, edits that bypass the API, daemon crashes.       *)
(***************************************************************************)
EXTENDS Integers, FiniteSets

CONSTANTS
    Node,           \* paired nodes (full mesh, as gossip makes it)
    Content,        \* non-empty bodies the file can have
    NoFile,         \* "no file on disk"; as a message body: a tombstone
    Over,           \* the bodies bigger than maxSyncFile
    Docs,           \* the bodies CanonicalFile parses ({}: key not Mergeable)
    Hash(_),        \* contentHash, as a rank; Hash(NoFile) is the empty body's
    Merge(_, _),    \* MergeFile on two parseable bodies
    Guard(_, _),    \* GuardLocalWrite(disk, incoming)
    Saves,          \* the bodies an edit may write
    InitFiles,      \* what may be on disk before the first scan
    EditKinds,      \* which edits happen: subset of {"write", "delete",
                    \* "direct", "dav"}
    MaxEdits,       \* bound: edits in a behaviour, all nodes together
    MaxFaults,      \* bound: crashes, failed writes, failed requests
    MaxUnsaved,     \* bound: saves of a manifest that fail
    MaxLoops        \* bound: nodes in the middle of a reconcile pass at once

ASSUME ContentAssumption ==
    /\ NoFile \notin Content
    /\ Over \subseteq Content
    /\ Docs \subseteq Content
    /\ Saves \subseteq Content
    /\ InitFiles \subseteq Content \cup {NoFile}
    /\ \A a, b \in Docs : Merge(a, b) \in Docs /\ Guard(a, b) \in Docs

ASSUME BoundAssumption == 
    {MaxEdits, MaxFaults, MaxUnsaved, MaxLoops} \subseteq Nat

VARIABLES
    file,     \* node -> what is on its disk
    man,      \* node -> manifest entry (Absent when there is none)
    clean,    \* node -> the recorded fingerprint matches the file on disk
    pend,     \* node -> the ApplyRemote in progress (fileMu held), or NoApply
    saved,    \* node -> bodies kept under sync-conflicts
    dropped,  \* losing bodies that could not be saved there: nothing but a
              \* line of the daemon's log is left of them
    jobs,     \* <<n, p>>: a pushTo from n to p is due (go pushAll)
    reading,  \* pushes that have read the version and not yet the body
    net,      \* push requests sent so far; never removed: any may be late,
              \* out of order, replayed, or never arrive
    rec,      \* node -> where its reconcile with one peer stands, or Idle
    todo,     \* node -> peers this pass of the Start loop still visits
    dav,      \* node -> a WebDAV change on disk that is not yet announced
    edits,    \* edits so far (bounded by MaxEdits)
    faults,   \* faults so far (bounded by MaxFaults)
    kept,     \* node -> its sync-manifest.json: the entry of the last save
              \* that did not fail, and whether the fingerprint in it still
              \* matches the file
    unsaved,  \* failed saves of a manifest so far (bounded by MaxUnsaved)
    reverted  \* history: nodes that came up on an entry other than the one
              \* they had, the later one never having been saved

vars == <<file, man, clean, pend, saved, dropped, jobs, reading, net, rec, todo,
          dav, edits, faults, kept, unsaved, reverted>>

-----------------------------------------------------------------------------
(* Version vectors (manifest.go).                                          *)

Zero == [o \in Node |-> 0]

vecLeq(a, b) == \A o \in Node : a[o] <= b[o]

(* Mutant: an off-by-one where the other side is ahead.                    *)
BugMaxVec(a, b) == [o \in Node |-> IF a[o] >= b[o] THEN a[o] ELSE b[o] + 1]

MaxVec(a, b) == [o \in Node |-> IF a[o] >= b[o] THEN a[o] ELSE b[o]]

Dominates(v, o) == vecLeq(o.vec, v.vec) /\ ~vecLeq(v.vec, o.vec)

Concurrent(v, o) == ~vecLeq(o.vec, v.vec) /\ ~vecLeq(v.vec, o.vec)

SameVersion(v, o) ==
    vecLeq(v.vec, o.vec) /\ vecLeq(o.vec, v.vec) /\ v.deleted = o.deleted

(* No entry compares like the zero vector: every real version dominates    *)
(* it, which is what the code's !exists and !ok branches do.               *)
Absent == [vec |-> Zero, deleted |-> FALSE, big |-> FALSE]

(* An entry for version vec of body c, c = NoFile for a tombstone.         *)
Entry(vec, c) == [vec |-> vec, deleted |-> c = NoFile, big |-> c \in Over]

(* Bump: n's own component advances over everything it knew.               *)
Bumped(n, c) == Entry([man[n].vec EXCEPT ![n] = @ + 1], c)

Peers(n) == Node \ {n}

PushAll(n) == {n} \X Peers(n)

Idle == [st |-> "idle"]
NoApply == [how |-> "none"]

-----------------------------------------------------------------------------
(* Local changes.                                                          *)

(* LocalWrite / LocalDelete / a scan's Bump: stamp what is on disk (c) and *)
(* push it.  A tombstone's recorded fingerprint (0, 0) matches no file.    *)
StampAndPush(n, c) ==
    /\ man' = [man EXCEPT ![n] = Bumped(n, c)]
    /\ clean' = [clean EXCEPT ![n] = c # NoFile]
    /\ jobs' = jobs \cup PushAll(n)

Fault == faults < MaxFaults /\ faults' = faults + 1

Edit(kind) ==
    /\ kind \in EditKinds
    /\ edits < MaxEdits
    /\ edits' = edits + 1

(* Mutant: the save writes and stamps without taking LockFiles.            *)
BugApiWrite(n, c) ==
    /\ Edit("write")
    /\ file' = [file EXCEPT ![n] = c]
    /\ StampAndPush(n, c)
    /\ UNCHANGED <<pend, saved, dropped, reading, net, rec, todo, dav, faults>>

(* handleAppDataPut / handleWorkspacePut: guard, write and stamp, all      *)
(* inside LockFiles.  A file over the cap is written but not stamped.      *)
ApiWrite(n, c) ==
    LET w == IF file[n] \in Docs /\ c \in Docs THEN Guard(file[n], c) ELSE c
    IN  /\ Edit("write")
        /\ pend[n] = NoApply
        /\ file' = [file EXCEPT ![n] = w]
        /\ \/ w \notin Over /\ StampAndPush(n, w)
           \/ /\ w \in Over
              /\ clean' = [clean EXCEPT ![n] = FALSE]
              /\ UNCHANGED <<man, jobs>>
        /\ UNCHANGED <<pend, saved, dropped, reading, net, rec, todo, dav,
                       faults>>

(* handleAppDataDelete / handleWorkspaceDelete.                            *)
ApiDelete(n) ==
    /\ Edit("delete")
    /\ pend[n] = NoApply
    /\ file[n] # NoFile
    /\ file' = [file EXCEPT ![n] = NoFile]
    /\ StampAndPush(n, NoFile)
    /\ UNCHANGED <<pend, saved, dropped, reading, net, rec, todo, dav, faults>>

(* An agent or a VM changes the tree behind the API's back: no lock, no    *)
(* version.                                                                *)
DirectEdit(n, c) ==
    /\ Edit("direct")
    /\ c # file[n]
    /\ file' = [file EXCEPT ![n] = c]
    /\ clean' = [clean EXCEPT ![n] = FALSE]
    /\ UNCHANGED <<man, pend, saved, dropped, jobs, reading, net, rec, todo,
                   dav, faults>>

(* davFS writes or removes the file without the lock ...                   *)
DavChange(n, c) ==
    /\ Edit("dav")
    /\ dav[n] = "none"
    /\ c # file[n]
    /\ file' = [file EXCEPT ![n] = c]
    /\ clean' = [clean EXCEPT ![n] = FALSE]
    /\ dav' = [dav EXCEPT ![n] = IF c = NoFile THEN "removed" ELSE "written"]
    /\ UNCHANGED <<man, pend, saved, dropped, jobs, reading, net, rec, todo,
                   faults>>

(* ... and davChanged stamps it afterwards, under LockFiles: a removal     *)
(* becomes a tombstone whatever is on disk by then; a write is stamped     *)
(* with whatever body the Stat finds, and not at all when there is none.   *)
DavChanged(n) ==
    /\ pend[n] = NoApply
    /\ \/ dav[n] = "removed" /\ StampAndPush(n, NoFile)
       \/ /\ dav[n] = "written"
          /\ file[n] \notin Over \cup {NoFile}
          /\ StampAndPush(n, file[n])
       \/ /\ dav[n] = "written"
          /\ file[n] \in Over \cup {NoFile}
          /\ UNCHANGED <<man, clean, jobs>>
    /\ dav' = [dav EXCEPT ![n] = "none"]
    /\ UNCHANGED <<file, pend, saved, dropped, reading, net, rec, todo, edits,
                   faults>>

(* DropUnshared: n's first and only stamp, on a file over the cap.         *)
Unshared(n) ==
    /\ ~man[n].deleted
    /\ man[n].big
    /\ man[n].vec = [Zero EXCEPT ![n] = 1]

(* The Start loop is between a ScanLocal and the end of its last reconcile. *)
InPass(n) == rec[n] # Idle \/ todo[n] # {}

(* scanRoot comes to the file, or to the entry of a file that is gone.     *)
scanRoot(n) ==
    \/ /\ file[n] \in Over
       /\ man' = IF Unshared(n) THEN [man EXCEPT ![n] = Absent] ELSE man
       /\ clean' = [clean EXCEPT ![n] = @ /\ ~Unshared(n)]
       /\ UNCHANGED jobs
    \/ /\ file[n] \notin Over \cup {NoFile}
       /\ ~clean[n]
       /\ StampAndPush(n, file[n])
    \/ /\ file[n] = NoFile
       /\ man[n].vec # Zero
       /\ ~man[n].deleted
       /\ StampAndPush(n, NoFile)
    \/ /\ \/ file[n] \notin Over \cup {NoFile} /\ clean[n]
          \/ file[n] = NoFile /\ (man[n].vec = Zero \/ man[n].deleted)
       /\ UNCHANGED <<man, clean, jobs>>

(* ScanLocal, which opens every pass of the Start loop.                    *)
Scan(n) ==
    /\ pend[n] = NoApply
    /\ ~InPass(n)
    /\ Cardinality({k \in Node : InPass(k)}) < MaxLoops
    /\ scanRoot(n)
    /\ todo' = [todo EXCEPT ![n] = Peers(n)]
    /\ UNCHANGED <<file, pend, saved, dropped, reading, net, rec, dav, edits,
                   faults>>

-----------------------------------------------------------------------------
(* Pushing (pushAll, pushTo): first the version, then, unlocked, the body. *)

Message(p, vec, body) == [to |-> p, vec |-> vec, body |-> body]

PushVersion(n, p) ==
    /\ <<n, p>> \in jobs
    /\ jobs' = jobs \ {<<n, p>>}
    /\ \/ man[n].vec = Zero /\ UNCHANGED <<reading, net>>
       \/ /\ man[n].deleted
          /\ net' = net \cup {Message(p, man[n].vec, NoFile)}
          /\ UNCHANGED reading
       \/ /\ man[n].vec # Zero /\ ~man[n].deleted
          /\ reading' = reading \cup {[from |-> n, to |-> p, vec |-> man[n].vec]}
          /\ UNCHANGED net
    /\ UNCHANGED <<file, man, clean, pend, saved, dropped, rec, todo, dav,
                   edits, faults>>

PushBody(r) ==
    /\ reading' = reading \ {r}
    /\ net' = IF file[r.from] \in Over \cup {NoFile}
              THEN net
              ELSE net \cup {Message(r.to, r.vec, file[r.from])}
    /\ UNCHANGED <<file, man, clean, pend, saved, dropped, jobs, rec, todo,
                   dav, edits, faults>>

-----------------------------------------------------------------------------
(* ApplyRemote.                                                            *)

Outcome(how, body, vec, loser) ==
    [how |-> how, body |-> body, vec |-> vec, loser |-> loser]

(* Mutant: the side that loses is not backed up, mergeable or not.         *)
BugResolveLive(disk, body, max) ==
    IF Hash(body) > Hash(disk)
    THEN Outcome("resolved", body, max, NoFile)
    ELSE Outcome("kept-local", disk, max, NoFile)

(* resolveConcurrent, both sides live: what becomes of disk and body.      *)
(* loser is the copy backupConflict saves, NoFile when it saves none.      *)
resolveLive(disk, body, max) ==
    IF disk \in Docs
    THEN IF body \notin Docs
         THEN Outcome("kept-live", disk, max, NoFile)
         ELSE IF Merge(disk, body) = disk
              THEN Outcome("same", disk, max, NoFile)
              ELSE Outcome("merged", Merge(disk, body), max, NoFile)
    ELSE IF disk = body
         THEN Outcome("same", disk, max, NoFile)
         ELSE IF Hash(body) > Hash(disk)
              THEN Outcome("resolved", body, max, disk)
              ELSE Outcome("kept-local", disk, max, body)

resolveConcurrent(local, disk, body, max) ==
    IF local.deleted
    THEN IF body = NoFile
         THEN Outcome("buried", NoFile, max, NoFile)
         ELSE Outcome("resurrected", body, max, NoFile)
    ELSE IF body = NoFile
         THEN Outcome("kept-live", disk, max, NoFile)
         ELSE resolveLive(disk, body, max)

Decide(local, disk, vec, body) ==
    LET rv == [vec |-> vec, deleted |-> body = NoFile]
    IN  IF SameVersion(local, rv) \/ Dominates(local, rv)
        THEN Outcome("stale", disk, local.vec, NoFile)
        ELSE IF Dominates(rv, local)
        THEN Outcome("applied", body, vec, NoFile)
        ELSE resolveConcurrent(local, disk, body, MaxVec(local.vec, vec))

Writes == {"applied", "resurrected", "merged", "resolved"}
Quiet == {"applied", "buried"}   \* outcomes that do not push

(* The entry an outcome leaves: only an adopted or a buried tombstone is   *)
(* one; "kept-live" is live even when the file has gone meanwhile.         *)
Tombstone(a) == a.body = NoFile /\ a.how \in {"applied", "buried"}

(* Mutant: ApplyRemote compares with the recorded version, whatever is on  *)
(* disk.                                                                   *)
BugLocal(n) == man[n]

(* Content the manifest has not seen is stamped before comparing.          *)
Unseen(n) == file[n] # NoFile /\ ~clean[n]
Local(n) == IF Unseen(n) THEN Bumped(n, file[n]) ELSE man[n]

(* The losing copy, if any, is saved; or its directory or its file cannot  *)
(* be written, and ApplyRemote goes on all the same.                       *)
backupConflict(n, loser) ==
    \/ /\ saved' = [saved EXCEPT ![n] = @ \cup ({loser} \ {NoFile})]
       /\ UNCHANGED <<dropped, faults>>
    \/ /\ Fault
       /\ loser # NoFile
       /\ dropped' = dropped \cup {loser}
       /\ UNCHANGED saved

(* Up to the write: lock, Stat, Bump, compare, decide, read, back up.      *)
BeginApply(n, vec, body, by) ==
    LET out == Decide(Local(n), file[n], vec, body)
    IN  /\ pend[n] = NoApply
        /\ man' = [man EXCEPT ![n] = Local(n)]
        /\ clean' = [clean EXCEPT ![n] = @ \/ Unseen(n)]
        /\ backupConflict(n, out.loser)
        /\ pend' = IF out.how = "stale"
                   THEN pend
                   ELSE [pend EXCEPT ![n] =
                           [how |-> out.how, body |-> out.body, vec |-> out.vec,
                            by |-> by,
                            step |-> IF out.how \in Writes THEN "write" ELSE "record"]]
        /\ UNCHANGED <<file, reading, net, todo, dav, edits>>

(* handlePeerFilePut: any request sent so far, in any order, again and     *)
(* again.                                                                  *)
Receive(m) == BeginApply(m.to, m.vec, m.body, "push") /\ UNCHANGED <<jobs,
                                                                     rec>>

(* The fetch is over, well or badly: the reconcile starts the push its    *)
(* diff decided on and is done with this peer.                             *)
RecPush(n) ==
    /\ rec' = [rec EXCEPT ![n] = Idle]
    /\ jobs' = IF rec[n].push THEN jobs \cup {<<n, rec[n].peer>>} ELSE jobs

(* fileMu is released, with the pushes the apply owes; ApplyRemote returns *)
(* to the handler or to the reconcile.                                     *)
EndApply(n, owed) ==
    /\ pend' = [pend EXCEPT ![n] = NoApply]
    /\ \/ pend[n].by = "push" /\ jobs' = jobs \cup owed /\ UNCHANGED rec
       \/ /\ pend[n].by = "reconcile"
          /\ rec' = [rec EXCEPT ![n] = Idle]
          /\ jobs' = jobs \cup owed
                     \cup (IF rec[n].push THEN {<<n, rec[n].peer>>} ELSE {})

(* writeFileAtomic's rename, or os.Remove.                                 *)
ApplyWrite(n) ==
    /\ pend[n] # NoApply
    /\ pend[n].step = "write"
    /\ file' = [file EXCEPT ![n] = pend[n].body]
    /\ clean' = [clean EXCEPT ![n] = FALSE]
    /\ pend' = [pend EXCEPT ![n].step = "record"]
    /\ UNCHANGED <<man, saved, dropped, jobs, reading, net, rec, todo, dav,
                   edits, faults>>

(* writeFileAtomic fails (a full disk): the apply returns its error.       *)
ApplyFails(n) ==
    /\ Fault
    /\ pend[n] # NoApply
    /\ pend[n].step = "write"
    /\ pend[n].body # NoFile
    /\ EndApply(n, {})
    /\ UNCHANGED <<file, man, clean, saved, dropped, reading, net, todo, dav,
                   edits>>

(* The file just written is gone when it is stat'ed: fi is nil and         *)
(* fi.Size() panics.                                                       *)
Vanished(n) ==
    pend[n].how \in Writes /\ pend[n].body # NoFile /\ file[n] = NoFile

(* Stat, then man.Apply: the fingerprint is of whatever is on disk NOW.    *)
Record(n) ==
    /\ pend[n] # NoApply
    /\ pend[n].step = "record"
    /\ ~Vanished(n)
    /\ LET tomb == Tombstone(pend[n])
       IN  /\ man' = [man EXCEPT ![n] =
                        [vec |-> pend[n].vec, deleted |-> tomb,
                         big |-> ~tomb /\ file[n] \in Over]]
           /\ clean' = [clean EXCEPT ![n] = ~tomb /\ file[n] # NoFile]
    /\ EndApply(n, IF pend[n].how \in Quiet THEN {} ELSE PushAll(n))
    /\ UNCHANGED <<file, saved, dropped, reading, net, todo, dav, edits,
                   faults>>

(* The daemon dies; the disk stays.  LoadManifest reads what was last      *)
(* saved, which is what the node had unless saves of it failed.  A peer's  *)
(* GET it was answering fails, and with it, for all this model cares, the  *)
(* push that would have followed: pushes may be lost.                      *)
Restart(n) ==
    /\ man' = [man EXCEPT ![n] = kept[n].entry]
    /\ clean' = [clean EXCEPT ![n] = kept[n].clean]
    /\ reverted' = IF kept[n].entry = man[n] THEN reverted ELSE reverted \cup {n}
    /\ pend' = [pend EXCEPT ![n] = NoApply]
    /\ rec' = [k \in Node |->
                 IF k = n \/ (rec[k].st = "read" /\ rec[k].peer = n)
                 THEN Idle ELSE rec[k]]
    /\ todo' = [todo EXCEPT ![n] = {}]
    /\ dav' = [dav EXCEPT ![n] = "none"]
    /\ jobs' = {j \in jobs : j[1] # n}
    /\ reading' = {r \in reading : r.from # n}
    /\ UNCHANGED <<file, saved, dropped, net, edits, kept, unsaved>>

(* net/http recovers a handler's panic (fileMu is released by the defer);  *)
RecordPanics(n) ==
    /\ pend[n] # NoApply
    /\ pend[n].step = "record"
    /\ Vanished(n)
    /\ pend[n].by = "push"
    /\ pend' = [pend EXCEPT ![n] = NoApply]
    /\ UNCHANGED <<file, man, clean, saved, dropped, jobs, reading, net, rec,
                   todo, dav, edits, faults>>

(* nothing recovers one in the reconcile goroutine.                        *)
LoopPanics(n) ==
    /\ pend[n] # NoApply
    /\ pend[n].step = "record"
    /\ Vanished(n)
    /\ pend[n].by = "reconcile"
    /\ Restart(n)
    /\ UNCHANGED faults

Crash(n) ==
    /\ Fault
    /\ Restart(n)

-----------------------------------------------------------------------------
(* reconcile: one peer at a time, in the pass Scan opened.                 *)

ver(e) == [vec |-> e.vec, deleted |-> e.deleted]

RecStage(n, st, vec, body) ==
    rec' = [rec EXCEPT ![n] = [st |-> st, push |-> rec[n].push,
                               peer |-> rec[n].peer, vec |-> vec, body |-> body]]

fileUnchanged == <<file, man, clean, pend, saved, dropped, reading, net, dav,
                   edits>>

(* The peer answers GET /v1/peer/manifest ...                              *)
RecManifest(n, p) ==
    /\ rec[n] = Idle
    /\ p \in todo[n]
    /\ rec' = [rec EXCEPT ![n] = [st |-> "diff", peer |-> p, rv |-> ver(man[p])]]
    /\ todo' = [todo EXCEPT ![n] = @ \ {p}]
    /\ UNCHANGED <<fileUnchanged, jobs, faults>>

(* ... or it does not, and this pass goes on to the next peer.             *)
RecUnreachable(n, p) ==
    /\ Fault
    /\ rec[n] = Idle
    /\ p \in todo[n]
    /\ todo' = [todo EXCEPT ![n] = @ \ {p}]
    /\ UNCHANGED <<fileUnchanged, jobs, rec>>

(* Mutant: only a dominating version is fetched; concurrent ones are left  *)
(* to the pushes.                                                          *)
BugRecDiff(n) ==
    /\ rec[n].st = "diff"
    /\ LET rv == rec[n].rv
           lv == ver(man[n])
       IN  \/ /\ ~Dominates(rv, lv)
              /\ rec' = [rec EXCEPT ![n] = Idle]
              /\ jobs' = IF Dominates(lv, rv) \/ Concurrent(lv, rv)
                         THEN jobs \cup {<<n, rec[n].peer>>} ELSE jobs
           \/ /\ Dominates(rv, lv)
              /\ rec' = [rec EXCEPT ![n] =
                           [st |-> IF rv.deleted THEN "got" ELSE "ask", push |-> FALSE,
                            peer |-> rec[n].peer,
                            vec |-> IF rv.deleted THEN rv.vec ELSE Zero, body |-> NoFile]]
              /\ UNCHANGED jobs
    /\ UNCHANGED <<fileUnchanged, todo, faults>>

(* The answer, by now a snapshot, is diffed with our own.  The diff also   *)
(* decides the push that ends this reconcile.                              *)
RecDiff(n) ==
    /\ rec[n].st = "diff"
    /\ LET rv == rec[n].rv
           lv == ver(man[n])
           fetch == Dominates(rv, lv) \/ Concurrent(rv, lv)
           push == Dominates(lv, rv) \/ Concurrent(lv, rv)
           stage(st, vec) == [st |-> st, push |-> push, peer |-> rec[n].peer,
                              vec |-> vec, body |-> NoFile]
       IN  \/ /\ ~fetch
              /\ rec' = [rec EXCEPT ![n] = Idle]
              /\ jobs' = IF push THEN jobs \cup {<<n, rec[n].peer>>} ELSE jobs
           \/ /\ fetch
              /\ rec' = [rec EXCEPT ![n] = IF rv.deleted THEN stage("got", rv.vec)
                                                        ELSE stage("ask", Zero)]
              /\ UNCHANGED jobs
    /\ UNCHANGED <<fileUnchanged, todo, faults>>

(* FileForPeer on the peer: the version it has now (which may be newer     *)
(* than its manifest said) ...                                             *)
RecAsk(n) ==
    /\ rec[n].st = "ask"
    /\ LET e == man[rec[n].peer]
       IN  \/ /\ e.vec # Zero /\ ~e.deleted
              /\ RecStage(n, "read", e.vec, NoFile)
              /\ UNCHANGED jobs
           \/ (e.vec = Zero \/ e.deleted) /\ RecPush(n)
    /\ UNCHANGED <<fileUnchanged, todo, faults>>

(* ... then, unlocked, the body.                                           *)
RecRead(n) ==
    /\ rec[n].st = "read"
    /\ LET c == file[rec[n].peer]
       IN  \/ /\ c \notin Over \cup {NoFile}
              /\ RecStage(n, "got", rec[n].vec, c)
              /\ UNCHANGED jobs
           \/ c \in Over \cup {NoFile} /\ RecPush(n)
    /\ UNCHANGED <<fileUnchanged, todo, faults>>

(* The GET fails; the push phase still runs.                               *)
FetchFails(n) ==
    /\ Fault
    /\ rec[n].st \in {"ask", "read"}
    /\ RecPush(n)
    /\ UNCHANGED <<fileUnchanged, todo>>

(* ApplyRemote in the loop's own goroutine.                                *)
RecApply(n) ==
    /\ rec[n].st = "got"
    /\ BeginApply(n, rec[n].vec, rec[n].body, "reconcile")
    /\ \/ /\ pend'[n] # NoApply
          /\ RecStage(n, "applying", Zero, NoFile)
          /\ UNCHANGED jobs
       \/ pend'[n] = NoApply /\ RecPush(n)

-----------------------------------------------------------------------------
Init ==
    /\ file \in [Node -> InitFiles]
    /\ man = [n \in Node |-> Absent]
    /\ clean = [n \in Node |-> FALSE]
    /\ pend = [n \in Node |-> NoApply]
    /\ saved = [n \in Node |-> {}]
    /\ dropped = {}
    /\ jobs = {} /\ reading = {} /\ net = {}
    /\ rec = [n \in Node |-> Idle]
    /\ todo = [n \in Node |-> {}]
    /\ dav = [n \in Node |-> "none"]
    /\ edits = 0 /\ faults = 0
    /\ kept = [n \in Node |-> [entry |-> Absent, clean |-> FALSE]]
    /\ unsaved = 0 /\ reverted = {}

(* saveLocked, with which every Bump, man.Apply and DropUnshared ends: the *)
(* manifest replaces sync-manifest.json in one rename, or its temp file    *)
(* cannot be made, written or renamed, and nobody is told: what is in      *)
(* memory goes on as if it had been.  The fingerprint in an entry left on  *)
(* file goes stale with the file.  (It is the file of all keys: a later    *)
(* save of any other entry carries this one along, after which this is the *)
(* same as a save that did not fail.)                                      *)
saveLocked ==
    LET stamped == {n \in Node : man'[n] # man[n]}
        left(n) == [kept[n] EXCEPT
                      !.clean = @ /\ IF n \in stamped THEN edits' = edits ELSE clean'[n]]
    IN  /\ \/ /\ kept' = [n \in Node |->
                          IF n \in stamped THEN [entry |-> man'[n], clean |-> clean'[n]]
                                          ELSE left(n)]
             /\ UNCHANGED unsaved
          \/ /\ stamped # {}
             /\ unsaved < MaxUnsaved /\ unsaved' = unsaved + 1
             /\ kept' = [n \in Node |-> left(n)]
       /\ UNCHANGED reverted

(* The reconcile loop of n, one step.                                      *)
Loop(n) ==
    \/ Scan(n)
    \/ \E p \in Node : RecManifest(n, p)
    \/ RecDiff(n) \/ RecAsk(n) \/ RecRead(n) \/ RecApply(n)

(* An apply that holds fileMu, one step.                                   *)
Apply(n) == ApplyWrite(n) \/ Record(n) \/ RecordPanics(n)

(* The daemon of n dies and comes up again.                                *)
Dies(n) == Crash(n) \/ LoopPanics(n)

(* Anything else; what it does to the manifest it saves.                   *)
Step ==
    \/ \E n \in Node :
         \/ Loop(n) \/ Apply(n) \/ ApplyFails(n) \/ FetchFails(n)
         \/ ApiDelete(n) \/ DavChanged(n)
         \/ \E c \in Saves : ApiWrite(n, c)
         \/ \E c \in Saves \cup {NoFile} : DirectEdit(n, c) \/ DavChange(n, c)
         \/ \E p \in Node : PushVersion(n, p) \/ RecUnreachable(n, p)
    \/ \E r \in reading : PushBody(r)
    \/ \E m \in net : Receive(m)

Next == (Step /\ saveLocked) \/ \E n \in Node : Dies(n)

Spec == Init /\ [][Next]_vars

(* The Start loop runs for ever and an apply that has the lock finishes.   *)
(* Pushes get no fairness: the daemon may always lose them.                *)
Fairness ==
    \A n \in Node :
        /\ SF_vars(Loop(n) /\ saveLocked)
        /\ WF_vars((Apply(n) /\ saveLocked) \/ LoopPanics(n))

FairSpec == Spec /\ Fairness

-----------------------------------------------------------------------------
(* Properties.                                                             *)

Body == Content \cup {NoFile}
Vec == [Node -> Nat]
ManEntry == [vec : Vec, deleted : BOOLEAN, big : BOOLEAN]
Pending == [how : Writes \cup {"kept-live", "same", "kept-local", "buried"},
            body : Body, vec : Vec, by : {"push", "reconcile"},
            step : {"write", "record"}]
DiffStage == [st : {"diff"}, peer : Node, rv : [vec : Vec, deleted : BOOLEAN]]
FetchStage == [st : {"ask", "read", "got", "applying"}, push : BOOLEAN,
               peer : Node, vec : Vec, body : Body]

(* Every variable has its type: entries carry total vectors, an apply in   *)
(* progress one of ApplyRemote's outcomes.                                 *)
TypeOK ==
    /\ file \in [Node -> Body]
    /\ man \in [Node -> ManEntry]
    /\ clean \in [Node -> BOOLEAN]
    /\ pend \in [Node -> Pending \cup {NoApply}]
    /\ saved \in [Node -> SUBSET Content]
    /\ dropped \in SUBSET Content
    /\ jobs \in SUBSET (Node \X Node)
    /\ reading \in SUBSET [from : Node, to : Node, vec : Vec]
    /\ net \in SUBSET [to : Node, vec : Vec, body : Body]
    /\ rec \in [Node -> DiffStage \cup FetchStage \cup {Idle}]
    /\ todo \in [Node -> SUBSET Node]
    /\ dav \in [Node -> {"none", "written", "removed"}]
    /\ edits \in 0..MaxEdits
    /\ faults \in 0..MaxFaults
    /\ kept \in [Node -> [entry : ManEntry, clean : BOOLEAN]]
    /\ unsaved \in 0..MaxUnsaved
    /\ reverted \in SUBSET Node

(* Every component of v is one its node has stamped by now; nothing is     *)
(* said of a node that came up on an older manifest.                       *)
Known(v) == \A o \in Node \ reverted : v[o] <= man[o].vec[o]

(* Only node o ever advances component o, and its own manifest is never    *)
(* behind what circulates (Bump: "producing a version that dominates       *)
(* everything previously known for the file").  The stale check rests on   *)
(* it: were it to fail, a node's next stamp would name an old version.     *)
(* The exception is a node that came up on an older manifest: its pushes   *)
(* went out with numbers saveLocked could not write (and told nobody), and *)
(* it stamps those numbers again.                                          *)
OriginOwnsCounter ==
    /\ \A n \in Node : Known(man[n].vec) /\ Known(kept[n].entry.vec)
    /\ \A n \in Node : pend[n] # NoApply => Known(pend[n].vec)
    /\ \A r \in reading : Known(r.vec)
    /\ \A m \in net : Known(m.vec)
    /\ \A n \in Node : rec[n].st = "diff" => Known(rec[n].rv.vec)
    /\ \A n \in Node : rec[n].st \notin {"idle", "diff"} => Known(rec[n].vec)

(* ApplyRemote: content on disk the manifest has not seen - data from      *)
(* before pairing, a direct edit - is never simply replaced or removed by  *)
(* an incoming version; the apply merges it, keeps it or backs it up,      *)
(* unless that very backup cannot be written.  The exception is the disk   *)
(* of a node that came up on an older manifest: it stamps a number again   *)
(* that its peers have seen on another body, and their next version        *)
(* dominates that stamp and replaces what it stood for, without a copy.    *)
UnseenNotClobbered ==
    [][\A n \in Node \ reverted :
         (pend[n] = NoApply /\ pend'[n] # NoApply /\ Unseen(n))
           => \/ pend'[n].step = "record"
              \/ file[n] \in saved'[n] \cup dropped'
              \/ pend'[n].how = "merged"]_vars

(* man.Apply records a version decided several steps earlier; thanks to    *)
(* fileMu it never takes back what a Bump stamped in between: a node's     *)
(* vector only grows.  DropUnshared forgets an entry, and a node whose     *)
(* saves failed comes up on the older one that is on file; nothing else    *)
(* takes a vector back.                                                    *)
VectorsGrow ==
    [][\A n \in Node :
         \/ vecLeq(man[n].vec, man'[n].vec)
         \/ man'[n] = Absent
         \/ man'[n] = kept[n].entry /\ n \in reverted']_vars

(* n's engine has nothing to do of its own: no apply, nothing unscanned,   *)
(* no push due or under way.                                               *)
AtRest(n) ==
    /\ pend[n] = NoApply
    /\ IF file[n] = NoFile THEN man[n].deleted \/ man[n].vec = Zero ELSE clean[n]
    /\ \A j \in jobs : j[1] # n
    /\ \A r \in reading : r.from # n

(* Nodes that agree on the version and have nothing left to do agree on    *)
(* the file: a reconcile between them finds no difference, so any they     *)
(* have is for ever.                                                       *)
SameVersionSameFile ==
    \A n, p \in Node :
        (AtRest(n) /\ AtRest(p) /\ man[n].vec = man[p].vec) => file[n] = file[p]

(* Once edits and faults stop, reconciling alone - every push may be lost  *)
(* - brings every node to the same vector.                                 *)
VectorsConverge == <>[](\A n, p \in Node : man[n].vec = man[p].vec)
=============================================================================
