# TLA+ models of exe

`exe` is one Go daemon (`cmd/exe`) that turns a machine into a node: it runs
virtual machines and emulated Macs, serves a desktop with apps, chat replies and
coding agents, publishes what it serves, and syncs files with the other nodes of
its owner. This directory models every part of it that carries a protocol of its
own: state that several requests, goroutines, programs or nodes change, or that
has to survive a crash. Paths below are relative to `src/`.

## 1. Inventory

### The parts that are modelled

| part (code) | state it keeps | what is hard | correct means |
|---|---|---|---|
| Node-to-node sync (`internal/peer/engine.go`, `manifest.go`; callers in `server/apps.go`, `dav.go`, `peers.go`) | the synced tree; a manifest with a version vector and a fingerprint per file; `sync-conflicts`; pushes in flight | pushes are lost, late, reordered, repeated; version and body are read apart; snapshots are stale when used; crashes between two steps | a version names one stamp; nobody's work is silently overwritten; equal versions are equal files; nodes come to agree |
| Documents and their windows (`internal/peer/merge.go`, `guard.go`; `server/appevents.go`, `sysapps/bluepencil`) | records with stamps and tombstones; per window a copy of the whole document | a window that slept saves its whole copy; saves are announced, announcements cause reads, reads cause saves | nothing older wins, nothing typed is lost, windows do not answer one another for ever |
| Mesh (`internal/peer` pairing, `peers.go`, `auth.go`) | peer list on file, join codes, answers under way | a list is used after it changed; nobody announces a third node | a code enrolls one node; the mesh closes |
| Linux VMs (`internal/vmm/manager_linux.go`, `adopt_linux.go`, `network_linux.go`, `internal/fcnet`) and the daemon's life (`cmd/exe/main.go`, `server/autostart.go`) | folder, `vm.json`, `run.json`, `vm.lock`, TAP, process; `m.running`, `m.locks` | requests side by side, steps that fail halfway, guests that outlive the daemon | one guest per disk, a guest keeps its network, a guest recorded is managed, every request returns |
| Windows VMs (`manager_windows.go`, `network_windows.go`) | the same with QEMU children, addresses, a job object | `createMu` beside per-name mutexes that Delete drops | distinct addresses, one QEMU per disk |
| macOS VMs (`manager_darwin.go`) | the same without a lock per name | two Creates of one name | a provisioned VM keeps its directory (it does not: finding 5) |
| Emulated Macs (`internal/macos9`) | per Mac disk, installer image, QEMU; one shared runtime | a runtime replaced by two renames; QEMU outlives the daemon | the runtime survives; no installer over an installed system |
| VNC relay (`internal/vncpace`) | credits, one request of its own | two goroutines that wait for each other | frames keep coming |
| Coding agents (`server/agentrestart.go`, `agentsessions.go`, `host.go`) | a note of what ran, tmux, windows, archive | a reboot is seen only by comparing a note with tmux | what a reboot stopped can be continued |
| Agents' logs and pushes (`agentusage.go`, `agentpush.go`, `webpush.go`) | offsets, days; subscriptions on file | logs repeat, move, are cut; a list is rewritten minutes after it was read | a request is counted once; a subscriber stays; a turn's end is handled |
| Terminals (`termsessions.go`, `hostterm*.go`, `conns.go`, `ui/index.html`) | tmux sessions, windows on every desk | links break for many reasons; a stream may miss news | a window does not outlive its session |
| Chat replies (`chatrun.go`, `chat.go`, `chatsummary.go`, `internal/chat`) | session file; the run with queue, confirmation and its own copy | a message accepted while the loop leaves; late answers; two writers; panics | accepted is kept, answered or saved; history grows; only approved tools run; runs end |
| Installer (`cmd/exe/install.go`, `update.go`, `internal/release`) and Software Update (`server/update.go`) | binary, helper, apps, manifest, plan; job, restart record | a run dies between plan, renames and manifest; a request joins a job at its end | the owner's apps are the owner's; a restart asked for comes |
| Routes (`server/server.go`, `routes.go`, `internal/cf`, `internal/proxy`) | routes, DNS, the rules of a shared tunnel | calls fail halfway; the order of other programs' rules decides | published is reached, nothing dangles |
| GitHub (`server/publish.go`, `internal/github`) | the guest's commits and origin, the repository | nothing locks the folder | done means it is there |
| Analytics (`cfanalytics.go`) | kept answers, fetches in the air | shared fetches, sweeping, warming | one fetch per view |
| Alerts (`alerts.go`, `rain.go`), Ping (`internal/ping`), Dict (`dict.go`) | rules and budgets on file; databases; flights | crash between save and telling; a round beside a Delete; flights that follow flights | budgets hold, no stray database, lookups end |

### The parts that are not

Site serving, the sign-in, hub, news, prices and the host monitor, Tailscale, the
helpers of the VM managers and the desktop's pages: rendering, cryptography, calls
of external tools, or a cache behind one mutex, without a protocol that more than
one step or actor can get wrong. `PROJECT.json` lists each with its reason, and
for the parts above what of them is left out. All are "partly" modelled in that
sense: read-only requests, parsing, wording and progress are outside every model.

### How they interact

App saves, WebDAV and peers meet in the sync engine (`PeerSync`, whose merge and
guard are `DocMerge`'s when the file is a document; `AppDocs` sees the sync as a
peer that changes the document). The mesh decides who is a node; `PeerSync` takes
the full mesh as given. `FirecrackerVM` includes the daemon's stop, boot and
autostart. Software Update runs the installer as a child: `SoftwareUpdate` sees of
`Install` that it puts the newest release in place or fails. Everything else
shares the daemon's process and not its state.

## 2. Modules and how they correspond to the code

Each module's head says what its variables stand for, what is one step and why,
and what is abstracted. `PROJECT.json`'s "map" gives the lines of every definition.

| module | models | run |
|---|---|---|
| `PeerSync`, `PeerSyncHistory` | one file on every node; the stamps made and the bodies users replaced so far | PeerSyncSafety, Settle, PeerSyncDiverge |
| `PeerSyncProofs`, `AppProofs`, `MeshProofs`, `FirecrackerProofs`, `ChatProofs`, `InstallProofs` | theorems about `PeerSync` with `PeerSyncHistory`, `AppDocs` with `DocMerge`, `PeerMesh`, `FirecrackerVM`, `ChatRun`, `Install` | tlapm |
| `MachineProofs`, `ServiceProofs` | theorems about `MacSetup`, `QemuVM`, `AgentSessions`; about `GitPublish`, `PushNews`, `PingMonitor`, `Analytics`, `Alerts`, `WeatherAlerts`, `Routes`, `UsageLogs` | tlapm |
| `DocMerge` | merge and guard of documents, as operators | Settle |
| `AppDocs` | a document, its windows, the announcements | Settle |
| `PeerMesh` | codes, pairing, gossip, leaving | Settle |
| `FirecrackerVM` | the Linux manager and the daemon around it | VMs, VMTwin, VMAutostart |
| `QemuVM`, `VzVM` | the managers of Windows and macOS | Host; VzProvisioned |
| `MacSetup`, `VncPace` | the Macs' setup and runtime; the relay | Waits |
| `AgentSessions`, `ChatRun` | coding agents across restarts; chat replies | Host; Host, Waits, ChatStaleAnswer |
| `Terminals`, `SoftwareUpdate`, `DictFlights` | windows; the update job; lookups | Waits |
| `Install`, `InstallPromise` | setup, update, uninstall, Extras; what they promise | Apps |
| `Routes`, `GitPublish`, `Analytics` | publishing; GitHub; kept answers | Apps |
| `Alerts`, `WeatherAlerts`, `PingMonitor` | rules, budgets, telling; rounds | Apps; AlertsLost |
| `UsageLogs`, `PushNews` | token counts; notifications | Apps |

**The MC modules.** `MCPeerSync`, `MCFirecrackerVM`, `MCChatRun` and `MCAlerts` add
model values. `MCPeerSyncParts`, `MCSettle`, `MCVMs`, `MCHost`, `MCWaits` and `MCApps` check
several systems, or one in several settings, in one run: the parts share no
state, the variable `part` or `sys` is chosen in Init and never changes, and a
step is a step of that part with all other variables unchanged. Every behaviour of
such a run is thus a behaviour of one part, with its own bounds, and every
behaviour of every part is among them; a property of one part is trivially true
of the others' behaviours. Where a part may start in several states, one of them
stands in while another part runs, so that the state space is the sum and not the
product. Fairness is stated per part, on the part's own variables. The parts with
theorems are EXTENDed, so that their variables and properties are the run's own
and the very ones the theorems are about (`PeerSync`; `PeerMesh` and `AppDocs`;
`FirecrackerVM`; `MacSetup`; `ChatRun`, `QemuVM` and `AgentSessions`; `Install`,
`PingMonitor`, `Analytics`, `GitPublish`, `PushNews`, `Alerts`, `WeatherAlerts`, `Routes` and `UsageLogs`); the
others are INSTANCEs.
Modules that are EXTENDed together have names of their own for what each has
(`QemuInit`, `PublishNext`, `alertVars`).

Operators named `Bug...` are deliberately wrong variants of the definition that
follows each of them. No specification uses them; they exist to show that each
property fails when the code is wrong in that way.

### The larger ones

**PeerSync.** `file`, `man`, `clean` are the file on disk, its manifest entry and
whether the fingerprint matches. `ApplyRemote` holding `fileMu` is `pend`:
`BeginApply` (lock, stat, bump, compare, decide, back up), `ApplyWrite`, `Record`,
or `ApplyFails`, `RecordPanics`. API saves and deletes are one step each because
they hold `LockFiles` throughout; WebDAV is `DavChange` and later `DavChanged`;
agents and VMs editing the tree are `DirectEdit` (external). A push is a job, then
`PushVersion`, `PushBody`, `Receive`; the `Start` loop is `Scan` and then for each
peer `RecManifest`, `RecDiff`, `RecAsk`, `RecRead`, `RecApply`. A request stays in
`net` for ever: taking it is delivery, taking it twice a replay, after another a
reordering, never a loss. The vector is total over `Node`; a missing entry is the
zero vector, exactly the code's `!exists` branches. Bodies are model values with a
rank for `contentHash`, in `MCPeerSyncParts` sets of records; over `maxSyncFile` is
membership in `Over`, mergeable is membership in `Docs`.
`backupConflict` saves the loser or, as one of the faults, fails to, and the apply
goes on. `man` is the manifest in memory and `kept` the one on file: every step that
changes `man` ends with `saveLocked`, which writes it or fails without a word
(`manifest.go:140`), and `Restart` loads `kept`. A node that comes up on another entry
than it had is `reverted` from then on. `PeerSyncHistory` adds what no code reads: the stamps made (`log`) and the
bodies users replaced (`seen`).

**FirecrackerVM.** A request goroutine is a program counter with the locals it
carries. `vmLock` only *fetches* the mutex; `Lock` waits for it: that gap is where
`Delete`'s removal of the mutex bites. `dir[n]` is the generation of the folder, so
that a guest on an unlinked folder is told from one on its successor. `saveMeta` is
two steps (truncate, write) because others read `vm.json` and a crash can fall
between. The goroutine that waits for a process is an element of `waits`; `Starter`
is the goroutine that brings the autostart record's VMs back.

**ChatRun.** A handler loads the registered run and uses it a step later. `runs[r]`
is the run with the loop's private session and the loop's place. `saveChat` is one
step that may fail. The model's answer, compaction, failure and panics are
choices. `yes` and `ran` are history variables: approvals as users gave them,
destructive tools as they ran.

**Install.** A run is a sequence of steps on files, any of which may fail or be the last.
A bundle's content is the release it came with, `Owners` for anything no release
holds, or `Half` for what an `os.RemoveAll` has left of one (`RemoveApp` begins a removal,
`RemoveRest` ends it, and a failure or a crash may come between); `manifest` and `pending` are the two lists the installer keeps of what it
placed and what it is about to place.

**GitPublish.** What a folder, a commit or a branch at GitHub holds is a set of edits, and
each command of a publish is a step: `git init`, the look at the status, the commit, the name of
the branch, the repository, the origin, the push. A push goes through the proxy, which serves
one repository, if origin is at https://github.com/ and nothing in the folder's configuration
says otherwise (`pushurl`); any other succeeds or fails elsewhere. The guest's users edit,
commit, change the remote and check out branches in between. `bypassed` and `switched` are
history variables.

**Terminals.** A desk whose browser the daemon signs out (`SignedOut`) loses its streams and
links with close code 1008; its windows stay ("out") and its requests are refused until
`SignIn`, after which its page loads again.

**AppDocs.** A window has a copy of the document (`copy`), what it last read or sent of
each draft (`seen`, the page's map of that name), its save under way and its reads in
flight (`reads`: a number to each, with its answer once there is one); a PUT is judged
record by record by `DocMerge`'s guard and dropped if a later one of the same window
overtook it. Who types may type new words or the ones last seen (an undo). `Remote`
are the versions a peer may send, any documents at all.

**PeerMesh.** A list is a function of the nodes it names. `join[n]`, `pass[n]` and
`answer[n]` are what a Join, a pass of the loop and an answer to it still hold of lists
that may have changed since. `admitted` is a history variable: who was let in by
whom with each code.

## 3. Runs

All passing runs are exhaustive for their bounds.

| run | instance | shows |
|---|---|---|
| PeerSyncSafety | 2 nodes; `edits`: 2 bodies, 2 edits of any kind through the API and behind it, both loops; `faults`: 2 edits, 1 crash or failed step, one loop; `unsaved`: 3 edits, 1 save of a manifest that fails, 1 crash, pushes only; `dav`: 2 bodies, one over the cap, 3 edits through WebDAV and the API, 1 fault, pushes only; `docs`: a document whose merge is the union of its records, 3 saves, deletes or direct edits, pushes only | versions name one stamp; no stamped body is lost, unless its backup fails, and a merged document holds what it was merged from; unseen content is never just replaced; vectors grow; all but for what a manifest that could not be saved takes back |
| Settle | `docs`: 2 nodes, notes.json with a note, 2 edits, `DocMerge`'s merge and guard; `apps`: 2 windows, 2 edits (an undo among them) or mishaps (a page hidden, a restart, a peer's version: other words with an old tombstone, or the first words again); `pairs`: 2 paired nodes, a third, 1 code, 2 joins, 2 restarts or leaves; fairness | loops alone converge and equal versions are equal documents; windows keep the newer and what was typed, and settle; one node per code, the mesh closes |
| VMs | Linux, `kept`: 1 VM, 2 clients, 3 requests, 1 failure, 1 stop, crash or reboot; `twice`: the same with 2 requests and 2 stops, crashes or reboots; `mortal`: the same with Delete, where VMs die with the daemon, 1 stop or crash, fairness | one guest to a disk, the recorded guest is managed, a guest keeps its TAP; beside Delete every request returns |
| Host | Chat: 2 messages, 2 clients that send, queue and delete, 2 replies of 2 turns, 1 fault; Windows: 2 VMs, 2 requests at once, 4 in all, 1 crash; 1 agent with 3 names, 2 windows, 2 reboots | accepted messages are kept, clean ends answered, history grows; addresses differ and a disk has one QEMU; what a reboot took can be continued |
| Waits | a reply with 2 turns and a tool each, 1 fault; a relay with 2 credits, 3 messages a way; 2 desks, a Terminal, 1 break, restart or sign-out; 3 releases, 3 posts, 2 failures; two spellings, which may each have been read as the other before, 2 readers and 2 flights; 2 Macs, 2 setups, 1 crash; fairness | a reply ends and what was accepted is saved, nothing unapproved runs; frames, closes, restarts and lookups come; the Macs' runtime survives and no installer runs over an installed system |
| Apps | 2 of each (apps, places, destinations, names, readers, logs, publishes, browsers), 1 or 2 failures or crashes, the owner's and others' changes beside them | the installer implements its promise; limits hold; what is said to be so is so |
| PeerSyncDiverge, VMTwin, VMAutostart, ChatStaleAnswer, VzProvisioned, AlertsLost | the least that shows it | *violated*: findings 1 to 6 |

*Why the bounds are enough.* Two nodes meet every case of a version comparison
(older, newer, equal, concurrent, absent), and two edits make a conflict; the third
in PeerSyncDiverge makes two conflicts in a row, which that finding needs. The
proofs lift the number of nodes, edits and faults altogether. A VM name with two
clients gives every pair of operations side by side; three requests allow a create
and two at once on what it made; two stops, in `twice`, allow adoption of an adopted guest. Two turns
give a queued message a turn to be injected in and one to end with; two replies
give a session a previous run. Two windows and an older draft give a save each of
the guard's verdicts; two joins give a code a second claimant. The clocks of the
alerts run past the day or the cooldown, those of the pings and the views past a
step or an entry's life, so that what is counted or kept falls out again. The
tunnel begins with every list of up to three rules of others, wildcards before and
behind. Three releases let an update be overtaken by a newer one. Every mutant of
the code listed in `PROJECT.json` breaks its property within these bounds.

*Deadlock.* CHECK_DEADLOCK is off in every run: all bounds may be used up with nobody
at work, which is a system at rest. That nobody waits for ever is stated by
`RequestsReturn`, `RunsEnd`, `FlightsEnd`, `FramesKeepComing` and the other liveness
properties.

*Symmetry* is used only in runs without liveness, over nodes, clients, messages,
apps and the like, which no definition orders. In Apps one set of two values stands
for the two of everything, since a behaviour runs one part.

*Time.* The passing runs take one to two and a half minutes each with two workers
(PeerSyncSafety: 1.6 million states; Apps: 2.5 million, of which 140 thousand of
`Alerts` and 74 thousand of `WeatherAlerts`).

### Liveness and fairness

The liveness properties say that something holds again and again, or in the end for
good (`[]<>`, `<>[]`), or follows (`~>`).

* `PeerSync`: the `Start` loop of every node keeps running (strong, because an
  apply may hold the lock whenever it looks) and an apply that holds the lock
  finishes. Pushes have no fairness at all: any may be lost.
* `AppDocs`: PUTs under way arrive and a page's timers and reads run. Nobody need
  type, hide a page or wake one.
* `PeerMesh`: the loop runs and a leave ends after its best effort. Nobody need join.
* `FirecrackerVM`: a request takes its next step (strong, because `sync.Mutex`
  hands a waiter the lock in the end), wait goroutines run, a guest sent SIGKILL
  ends. Nothing is assumed of guests left alone, of later requests, of the daemon's
  own life. Waits for SSH and downloads are fair because they have timeouts.
* `ChatRun`: goroutines run. Nobody need answer, stop or send. A model call and a
  tool return because both run under a timeout (`agent.go:378`, `agent.go:537`,
  `codex/client.go:198`).
* `VncPace`: both goroutines run, and viewer and server read and answer, as VNC ones
  do. A viewer asks again when it has its frame; that is its protocol.
* `Terminals`: a daemon that is down comes up, pages and links take their next step.
  Sessions, links and streams end when they like.
* `SoftwareUpdate`: the installer ends, the job's goroutine runs, a restart comes or
  is given up (it has a timeout).
* `DictFlights`: a flight's goroutine runs; the session it asks answers or fails
  under its timeout. Readers may leave.

### The refinement

`InstallPromise` says what an installed exe promises: an app's folder is nobody's,
exe's or the owner's; exe places and takes away only what is not the owner's; only
the owner makes it the owner's; a release's binary goes in last. `Install!KeepsPromise`
is the promise with `app` mapped to `Whose` (a folder is exe's while it holds what
the manifest or the plan of an unfinished run says exe put there, and torn while a part of
an app is left of a removal), `acts` to the
owner's moves, `bin` and `helper` to themselves. Apps checks it and
`InstallProofs` proves it: every step of a run, one that fails or is the last before a
crash, is a step of the promise or a stutter. The mapping is where the order matters: an app that lies in place before
the plan that names it is on file would pass for the owner's. A torn folder is what the promise
excepts: exe may have begun to take an app away and not have ended; it then never places
anything there again, and says of it that its owner edited it (`apps.go:207`), which is not so.

## 4. What is proved

`PeerSyncProofs` proves, for **every** set of nodes and bodies, every `Hash`,
`Merge` and `Guard` that satisfy `ContentAssumption`, and any number of edits,
faults and loops:

* `TypeCorrect`: `Spec => []TypeOK`. Not inductive alone: when an apply ends, it
  resets `rec` of a reconcile that began it and reads `rec[n].push`. The
  strengthening `ReconcileWaits` says that an apply by the reconcile loop and
  the loop's "applying" stage come together.
* `ManifestVectorsGrow`: `Spec => VectorsGrow`, which excepts a daemon that comes up on an
  older manifest, its later ones not having been saved. An apply records a vector chosen
  several steps earlier. `AppliesForward` says that the pending vector is
  at or above the manifest's as long as the apply is pending; it is preserved because
  every action that stamps requires `pend[n] = NoApply`, the model's form of `fileMu`.
* `OriginOwns`: `Over = {}` implies `Spec => []OriginOwnsCounter`. The inductive
  invariant `IInv` joins the three above. A vector anywhere is a copy, a pointwise
  maximum of two known ones, or a bump of the node's own component, and no manifest
  of a node outside `reverted` ever moves back (`KeptStep`: what is on file is what was
  there or what the step put in memory, so what is known of such a node stays known over a
  restart). Of a node in `reverted` nothing is said: its numbers are in circulation twice.
* `UnseenSurvives`: `Over = {}` implies `Spec => UnseenNotClobbered`. From
  `OriginOwnsCounter`: the stamp `ApplyRemote` makes on unseen content raises the
  node's own component above anything in circulation, so the incoming version can
  be stale or concurrent, never dominating; and every concurrent outcome keeps,
  merges or backs up. On the disk of a node in `reverted` it may dominate.

* `NoStampIsLost`: `Over = {}` and `Docs = {}` imply `HistSpec => []WritesSurvive`,
  as long as `reverted = {}` (two stamps of one number cannot be told apart),
  with crashes, failed writes (also of a backup, which is then in `dropped`) and
  requests lost or replayed. `HistSpec` is `PeerSync`
  with two history variables: `log`, every version stamped with the body it named, and
  `seen`, the bodies a user's edit replaced. The inductive invariant `HistInv` adds to
  `IInv` that a stamp not accounted for is `Carried`: every vector that knows it comes
  with its body - on disk under a live entry, in the apply that has it to write or has
  written it, in a push request, in a fetched answer. Three facts keep it so. What is
  read of a body after a version (`pushTo`, `FileForPeer`) is of that version or a later
  one (`ReadsBehind`). What `ApplyRemote` decides carries what both sides carried, or
  backs the loser up (`DecideCarries`). And nobody knows a new stamp but its origin
  (`OriginOwnsCounter`). The origin always knows its stamp, so its own disk is where an
  unaccounted body is found. `Docs = {}` is needed for this argument: of two mergeable
  bodies neither need stay as it was, and a body that does not parse loses to one that
  does without a backup. Documents have theorems of their own:

* `NoSaveIsLost`: `MergesWell` and `OnlySaves` imply `HistSpec => [](SavesAreIn /\
  WritesSurvive)`: every save of a document is in the file of its writer and of whoever
  knows its version.
* `MeshAgrees`: under the same hypotheses, a mesh that has come to one version has come
  to one file (`OneVersionOneFile`), the merge of all that was saved.
* `PairAgrees`: of two nodes, equal versions are equal files in every reachable state
  (`SameVersionSameFile`), which is false of plain files (finding 1).

`MergesWell` says that `Merge` is idempotent, commutes and associates and that what
`Guard` lets a save write is at or above what it replaces; `Below(x, y)` is
`Merge(x, y) = y`. `OnlySaves` says that the file is a document changed by the app's saves
alone, which is how the apps use theirs: they mark records deleted and do not remove the
file. Both are about the code as far as `AppProofs` proves the same laws of `DocMerge`
(`MergesCommute`, `MergesAssociate`, `MergeIsIdempotent`, `SaveIsAbove`), for items and drafts,
no tombstone past the TTL and no two edits of a record with one stamp; the notes' merge does not
associate, and for notes there is only the Settle run. The step from `DocMerge` to the
two constants is this paragraph's and not a theorem's. Crashes, failed steps, and lost or replayed
requests are all allowed, manifests that could not be saved until a node comes up on one of before
(`reverted = {}` is a hypothesis of the invariant and of all three statements).

The inductive invariant `JoinInv` says of every version with its document - in a
manifest, an apply, a push, a fetched answer - that it `Joins`: the document is at or above
every save its version knows (`Covers`) and below every document that is above all
saves (`Least`). A push may carry a body later than its version, so a body may hold more
than its version says. With three nodes two may therefore share a version and not yet a
file, until the version knows everything; with two it always does, since each node knows its own
saves. That is why `MeshAgrees` asks for the whole mesh and `PairAgrees` for two nodes.

`Over = {}` is needed: `DropUnshared` forgets a version on the ground that nobody
can hold it, and then the node may stamp the same number again (section 6).

`MachineProofs` proves, for any set of Macs and any number of setups and crashes:

* `RuntimeSurvives`: `Spec => []RuntimeKept`. That some runtime exists is not
  inductive, because a rename is allowed only where the other directory is known to
  be there. `RuntimeInv` adds that one worker at a time is under `runtimeMu` and says,
  for each of its places, which of the two directories may be missing.
* `InstallerStaysOff`: `Spec => []InstallerOffInstalled`. `InstallerInv` adds that a
  Mac which is "installing" and has no worker has its QEMU on or off, never coming
  up, and that a worker's Mac is in setup on file too, which is what a new daemon reads.

and, about the VMs of Windows, for any number of names, addresses, requests, deaths of QEMU and
crashes of the daemon, with Delete among the requests:

* `AddressesApart`: `QemuSpec => []DistinctAddresses`. `CreateAlone` adds what `createMu`
  gives: one request at a time is between the scan of the addresses and the save of
  `vm.json`, and the address it carries is claimed by no VM that is whole.
* `OneQemuOnADisk`: `QemuSpec => []OneQemuPerDisk`. `HolderAlone` says that a mutex, told
  by the name's generation in `m.locks`, has one holder, and `Straight` that for a name
  no request met after a Delete (not in `strayed`) every holder has the mutex of now, that
  a QEMU that runs is the one in `m.running` and that a spawn found none there.

and, about the coding agents, for any number of names, conversations and windows and of restarts of
the host and of the daemon:

* `NothingIsLost`: `AgentsSpec => []NothingLost`. While the daemon is down what a restart
  took is neither a row nor running: it is in the note of an earlier boot and in the
  status file (`Noted`), and stays there until `noteHostRestart`. `RowSound` keeps
  the rows: a stopped row's name has no session and its status file the row's
  conversation, so that what a new window starts, one past every number in use
  (`NewNumber`, with `Max` shown by the least bound), takes no row's name.

`InstallProofs` proves `InstallKeepsPromise`, `Spec => KeepsPromise`, for any set of
apps, from `ReleaseAssumption` (there is a release): the refinement of section 3.
`Recorded` is its heart: whatever release's app stands in a folder is in the manifest or in
the plan, so that what the promise sees of the apps is what stands there. It is kept
only together with what each place of a run knows (`Staged`, `Placing`, `Removing`):
a manifest that replaces another covers what it covered. Then each action is shown
to be a step of the promise or a stutter.

`ServiceProofs` proves, for any sets of publishes, browsers, destinations, views and readers and any
number of edits, failures and crashes:

* `PublishedFolderIsThere`: `PublishSpec => []DoneIsThere`, if the folder's name is one of
  the account's repositories (`FolderAssumption`, `BranchAssumption`). It excepts the publishes
  whose push went past the proxy and those under which another branch was checked out before
  its name was read; both say done all the same (section 6). `Carries` says, place by place, where
  what was asked for is: in the folder until it is committed, in HEAD's commit until the
  branch is read, on that branch from then on, and on GitHub when the publish is done; branches
  only move forward, also at GitHub.
* `SubscribersStay`: `PushSpec => []SubscribersKept`. `GoneIsGone` says that an endpoint a
  message has noted as gone is not alive, and an endpoint that is not never is again; so
  the rewrite of a list read minutes ago takes out nobody who matters.
* `NoTurnEndLeftOut`: `PushSpec => TurnEndsHandled`, an action property. `PassBehindFile`
  says that what a pass has read of the state file is the file's, or an older one's: the
  time is read first, so the word that goes with it may be newer, never older.
* `NoDatabaseStrays`: `PingSpec => []NoStrayDatabase`. `WritesKnown` says that the round
  past its second look (`measure`, under `fileMu`) writes for a destination that is on the list,
  or whose Delete waits for `fileMu`, or never came to remove anything.
* `OneFetchAtATime`: `ViewsSpec => []OneFetchPerView`, with `FliersOn`: an entry that says it
  flies is there, which `Swept` must leave so.
* `CapIsKept`: `AlertsSpec => []CapHolds`. The cap is counted from a list that is extended,
  moved by `append`, cut in place, saved and read back, and what is told is read through
  addresses kept across the cut. `OnRecord` says that the alerts made within the last day
  are on the list and on file, so that a new one finds them all; `Addresses`, that an
  address reads an alert that passed the cap or was held back, though perhaps another one
  than it was kept for (finding 6): the cap survives that, `EveryMoveTold` does not.
  `InCap` counts what has passed the cap, an alert of a tick not yet saved among it.
  `WhatIsKept` says what the loop of the cut leaves, by the least index that contradicts it.
* `BudgetIsKept`: `RainSpec => []BudgetHolds`. `Remembered` says that what a hazard opened
  within the last day is in its budget, in memory and on file, as long as the list of
  places was never found empty; a change of the first city keeps the budget.
* `RoutesStayTrue`: `RoutesSpec => []RoutesAgree`, **if requests do not overlap**
  (`~Overlap`; with it the code does not have the property, section 6). `Reaches` says that the
  first rule that matches a name is a rule of its own for a given service; `EnsureReaches`,
  `SyncReaches` and `RemoveReaches` say what the three rewrites of the list do to it, for every
  list, whatever wildcards and other programs' rules are in it: the names of the request
  are reached, or gone, and no other is lost or put in. They rest on `OnlyKeeps`, that a filter
  keeps the order. `SoFar` says, call by call, what a request has done: what it has read is
  still what is there; a publish has its route before anything else, a removal takes the
  route last, when neither record nor rule is left. `WholeReached` says that while a sync is
  under way a whole name is still reached, if at the service of before.
* `UsageIsRight`: `UsageSpec => []EachCountedOnce`, for transcripts and rollouts. Of a
  transcript, `SeenIs` says that the counts are exactly what `seen` remembers, so days and
  ids are dropped together. A rollout knows the last request alone; `Owned` (a rollout has its
  requests for itself, in order) and `PrevTells` (of the lines ahead only the next may be
  booked, and then `prev` is its request) make that enough, over archiving and cuts. `AllSettled`
  says that a line read is booked or its request began before the week. It outlives the drop of old days
  because in every log the first line of a request is as old as any of its lines and as
  what was booked of it (`FirstIsOldest`). `SeenToTheEnd` says that a scan nothing disturbed
  has read every log it passed. What `read` makes of a log's lines is an
  induction over the lines: `ReadSteps` unfolds the recursive function into a chain of
  states, and `StepByStep` carries a fact along it by the least line at which it fails.

`FirecrackerProofs` proves, for any number of names, clients, requests, faults, stops,
crashes and reboots, **if nobody deletes a VM** (`"delete" \notin Ops`):

* `DiskHasOneGuest`: `Spec => []OneGuestPerDisk`,
* `RecordedGuestIsManaged`: `Spec => []RecordedIsManaged`,
* `TapStays`: `Spec => GuestKeepsTap`.

The hypothesis is needed: with Delete the first is false (finding 2), and the other two
rest on the same mutex. The invariant goes name by name (`Sound`). `Maker` and `Booter`
say, for each place of a Create or a Start, what it may rely on: that it is alone with
the name, that its disk is the one in the folder, that no guest runs before its own.
A Stop does not hold the name's mutex while the guest ends, and the wait goroutine
takes it later, so `WaitOn` says what such a goroutine may still find. `GuestOn` is what
a crash has to leave standing: a guest holds the `vm.lock` of the folder it runs in,
and if `run.json` names it the next daemon's `adoptRunning` puts it in `m.running`.

`ChatProofs` proves, for any number of messages, clients, replies, turns, tools and faults:

* `KeepsAccepted`: `Spec => []AcceptedKept`, and `OnlyAppends`: `Spec => HistoryAppendOnly`.
  Both are about copies: a reply works on a session it read, a summary writer on one
  it read at another time. `Ahead` says that the registered reply's copy continues
  whatever is on file *and* whatever a writer is about to put there (`Files`); `Writers`
  that `chatSaveMu` lets only a Delete come between a writer's read and its write.
* `AnswersEverything`: `Spec => []CleanEndAnswered`.
* `RunsApprovedNumbers`: a tool runs only under a number somebody approved. That the
  approval was meant for this reply is false in general (finding 4); for a single reply
  (`MaxRuns <= 1`) it is `OneReplyApproves`, `RanOnlyApproved` itself.

`AcceptedKept` owes a deleted session nothing. An earlier form, which made an exception
only while a Delete was at work, fails with three clients: a Delete removes the file,
another answers "deleted" after it, and a queued message has nowhere to be.

`MeshProofs` proves, for any set of nodes and any number of codes, joins, restarts and leaves:

* `CodesAreSingleUse`: `Spec => []OneNodePerCode`; `FreshCodes` says that a code that
  is still valid has admitted nobody and is one minter's.
* `PeersArePaired`: no list names a node that pairings, and the first mesh, do not
  connect with its owner. Said without paths: a set of nodes that no pairing leaves is
  left by no list. Everything a node may act on later is part of the invariant
  (`Heard`): the list on file, the answer to its Join, the peers of the pass, the gossip.
* `NeverOwnPeer`: no node is on its own list.

`AppProofs` proves about `DocMerge`, for **all** documents: `MergesCommute` (items,
drafts and notes), `MergesAssociate` (items, and drafts as the app writes them, as long
as no tombstone is past the TTL), `SaveTwice` (the guard is idempotent) and `SaveIsAbove`
(what the guard lets a save write absorbs the document that was there). The records
are ordered by stamp and then field by field (`pickJSON`), which is total, so that a tie
is broken alike on every node. The merge of notes is **not** associative, for it
judges a note's place apart from its text: two notes placed at one stamp in different
places keep the place of whichever text won first. TLC shows it with three versions of
one note; two nodes that merge the same pair agree all the same (`MergesCommute`).
About `AppDocs`, for any number of windows, edits, reads and restarts and any versions
from peers:

* `DiskGoesForward`: `Spec => DiskNeverOlder`, and `NothingRevived`: a deleted record
  comes back by a newer edit only. Every step that writes the disk is a save judged
  by the guard or a merge (`DiskStep`); the rest is about two records.
* `TypedWordsStay`: `Spec => TypedWordsKept`. `SeenBefore` is what it needs: words that
  were not sent carry a later stamp than the version last seen. Without it a read that
  brings the version last seen could replace them.

Two properties were stated too strongly and corrected when their proof failed, each on
a state TLC then showed. `DiskNeverOlder` did not allow for a peer whose newer tombstone
is itself past the TTL: the merge drops the record (`Buried`). `TypedWordsKept` did not
allow for a draft that is back at the words last seen (section 6).

Each inductive invariant was checked by TLC on the run's instance, or a smaller one,
before it was proved: 615 thousand states of `ChatRun`, 480 thousand of `AppDocs`, 67
thousand of `PeerMesh` from single nodes, and 12 million of three nodes with two codes
(not all of them); 338 thousand of `AgentSessions` through three boots; 28 thousand of `Routes`;
489 thousand of `UsageLogs`;
of `PeerSync` with documents 61 thousand states (two nodes, three
saves), 234 thousand (three nodes, two saves), and 11 million of two nodes with faults,
loops and files to begin with (not all of them).
The laws of `DocMerge` were checked over small records first.

*What the proofs assume* is what the modules' ASSUMEs say: the sets and bounds are of
their types, the special values are not messages or names (`ChatAssumption`,
`MeshAssumption`, `VMAssumption`, `HostAssumption` and the like), a peer's version is a document
(`AppAssumption`), clocks, addresses and session numbers are numbers (`ClockAssumption`,
`LivesAssumption`, `QemuAssumption`, `SessionAssumption`, `AlertAssumption`, `RainAssumption`, `UsageAssumption`), and exe's names, the
other programs' names and the wildcard are apart (`RoutesAssumption`). TLC evaluates each.

*Only model-checked:* liveness (`VectorsConverge`, `SavesSettle`, `MeshCloses`,
`RequestsReturn`, `RunsEnd`, `AcceptedSaved`, `FramesKeepComing`, `GoneWindowsClose`,
`RestartHonored`, `FlightsEnd`), which is beyond the prover. `SameVersionSameFile` of
`PeerSync` where `PairAgrees` does not reach (it is false of plain files; Settle checks it of
notes, within two edits), and `RanOnlyApproved` where `OneReplyApproves` does not (it is false of
two replies).

## 5. Findings

1. **Equal versions, different files** (`internal/peer/engine.go:914`,
   PeerSyncDiverge). The winner of a conflict is chosen by content hash, but a chain
   of two conflicts on one node and one on the other can pick different winners and
   arrive at the same pointwise maximum. No reconcile sees a difference afterwards.
   Documents changed by saves alone do not have this (`PairAgrees`, `MeshAgrees`).
2. **Two guests on one disk** (`internal/vmm/manager_linux.go:1083`, VMTwin).
   `delete(m.locks, name)` under waiters breaks mutual exclusion for the name, and
   the `vm.lock` a Start took is not the one in the folder whose disk it boots.
   Without Delete the property holds (VMs). `manager_windows.go` drops its mutex in
   the same way; there `OneQemuPerDisk` excepts exactly the names that met it.
3. **VMs forgotten by a second stop** (`internal/server/autostart.go:41`,
   VMAutostart). The record is removed before it has been acted on.
4. **A late answer approves another confirmation** (`internal/server/chatrun.go:116`,
   ChatStaleAnswer). Confirmation ids start at 1 in every run. Within one run the
   numbering works (Waits).
5. **A provisioned VM loses its directory** (`internal/vmm/manager_darwin.go:91`,
   VzProvisioned). Two Creates of one name pass the Stat; the one that fails removes
   the directory the other has finished.
6. **An alert that is never told** (`internal/server/alerts.go:204`, AlertsLost). The
   alerts of a tick are pointers into a list the tick then compacts in place, so that
   with an old alert and two new ones one is told twice and the other never.

## 6. Observations without a run

What TLC or the reading showed while modelling, beyond the bounds or the number of
the runs. Where a property is stated around it, its comment says so.

*Sync and documents.*
* `DropUnshared` (`manifest.go:207`) assumes that a file over the cap with vector
  `{self: 1}` was never sent; one that was pushed small and grew later was.
* `backupConflict` only logs that it could not write the losing copy, and the winner
  is written all the same (`dropped`): on a full disk a conflict loses a body, where
  `resolveConcurrent` says that the loser is preserved (`engine.go:905-906`).
* Documents whose files are also deleted, or replaced by a save that does not carry
  what was there, can end like finding 1: one node writes x, deletes it and writes w while
  the other writes y; whoever merged y with x before it heard of the deletion keeps x's
  records, with the vector of one that merged y with w alone. It takes four edits, or
  three saves with a guard that lets a save go back; Settle's bound is two and the apps do neither.
* `saveLocked` (`manifest.go:140`) drops every error. On a full disk vectors advance and are
  pushed, and a daemon that is then restarted loads an older manifest: it stamps numbers again that
  its peers have on other bodies, so that two bodies have one version, and what it stamps
  may be dominated and replaced without a copy. TLC shows it of each of `OriginOwnsCounter`,
  `UnseenNotClobbered`, `VectorsGrow` and `WritesSurvive` without its exception. Settle
  has no such failure (`MaxUnsaved = 0`): after one equal versions need not be equal files.
* A removal by WebDAV is stamped a tombstone whatever is on disk by then.
* `ApplyRemote` stamps unseen *content* before it compares, not an unseen absence: a
  file removed behind the API before the next scan is written again by the next
  incoming version.
* `reloadFromDisk` takes disk for an unread version only if its *words* differ from those
  last seen (`index.html:957`). Where another window or desk has typed and gone back to
  them (an undo), disk has a newer stamp and the old words, and words typed here
  earlier and not yet sent are replaced without a draft of their own, where
  `index.html:937-940` says "settled without loss".
* Two windows that stamp in the same millisecond, and an event dropped on a full
  channel, leave windows showing different drafts until the next change.
* In a mesh of three and more, a Leave is undone by the gossip of a node that has
  not heard of it; a late answer re-adds a peer removed since; a pair request whose
  reply is lost enrolls one side only.

*VMs and Macs.*
* A crash between `cmd.Start` and `writeRunRecord` leaves a guest no daemon adopts;
  the next boot takes its TAP.
* `vm.json` is truncated and written in place: a crash in between makes every later
  daemon refuse to start, and an allocation beside a rewrite may hand out a subnet twice.
* On Windows a crash in the middle of a Create leaves a folder without `vm.json`,
  which Create refuses and Delete does not know; the forward of a guest port outlives its VM.

*Chat, agents and Terminals.*
* A stop and an approval that are ready together are chosen at random by the
  `select` (`chatrun.go:91`).
* `chat.go:246`: the sweep gives up after ten seconds, and the summary writer is not
  swept at all: either can bring a deleted session back.
* `agentrestart.go:112` takes also a session its CLI ended while the daemon was down
  for one the restart stopped, where the head (28-31) says only what the restart
  took; the icon's own session 1 is reused, so `NothingLost` leaves it out.
* A conversation that was continued is in no row any more (`agentrestart.go:360`) and in the
  note only at the next tick (`agentrestart.go:150`): a second restart of the host in
  between loses it. `NothingLost` is about what was noted, and counts it no longer.
* `termsessions.go:33-35` says that on "session ended" the window stays with its last screen,
  dead; the page closes it (`ui/index.html:10946`), as it does on "closed". `GoneWindowsClose` is
  about what the page does.
* A window that was signed out stays as it is, whatever becomes of its session, until its page
  loads again; one that was reconnecting as its browser was signed out keeps trying (it is
  refused, which it takes for a lost link) until its browser signs in (`ui/index.html:10936`).
* The first open of the layout stream does not list (`ui/index.html:4599`), so a Terminal opened
  between load and stream shows late.
* A state file moved into place between the two reads of a pass may push one turn
  twice (`agentpush.go`); the list of subscriptions is truncated and written in place.

*Install and update.*
* `os.RemoveAll` (`apps.go:271`) cut short, by a file it may not remove or a crash, leaves a part of
  an app, which every later run takes for the owner's ("kept: you edited it", 207, 268), and no
  later one removes or replaces.
* Two installers share no lock. `off` or `uninstall` cut short between the removal
  of the apps and the manifest, and a plan left by an interrupted run, make the next
  run place an app again that the owner has removed since.
* The Extras switch of a daemon not restarted since an update places the older
  release's apps; an edit between `TreeSum` and the rename is lost.
* `update.go:144` calls a release installed that the running daemon is not (36-39).

*Publishing.*
* Requests that overlap (`Overlap = TRUE` in `Routes`) undo each other's rules:
  `cf.go:436` writes back the list it read, where 396-398 says that other rules are
  preserved. An edit by another program between the two calls is lost in the same way.
  `RoutesAgree` is stated for requests that do not overlap and such edits beside none of them.
  The DNSLink record has the same race.
* A publish whose push goes past the proxy says done: the pin (`publish.go:361`) holds for what
  `insteadOf` rewrites, which is https://github.com/ alone (339). An origin at git@github.com: or
  another host, set between `set-url` (308) and the push, or a `remote.origin.pushurl`, sends
  the push elsewhere with the guest's own keys. And a branch checked out between the commit and
  260 is pushed in place of the one that was committed. `DoneIsThere` excepts both; TLC
  shows that it needs to.
* The commit a publish reports is read after the push; a public repository is reused when a
  private one is asked for; of two concurrent publishes one fails.
* `cfanalytics.go:283` answers a reader with an error although no fetch failed, when
  the entry it waited for was swept.

*Alerts, Ping, Dict.*
* `rain.go:278-290` pushes the end of an episode of a place left; 36-37 says one tap
  per event. Finding the list of places empty forgets the day's budget (`rain.go:69`).
* An answer for a host that was edited meanwhile is noted for the new one
  (`ping.go:469`); a crash within an edit leaves a database without a destination.
* Two words each read as a typo of the other make two flights follow one another for ever
  (`dict.go:582-623`, 914-920), and whoever looks either up waits with them; 73-74 says that a
  session is stopped after ten minutes. Waits has such words; `FlightsEnd` excepts the circle and no
  other flight.

## 7. Plan

Done: the parts above with their runs, the refinement of the installer,
and the proofs of section 4.

Left, in this order:
1. Proofs: the two properties of finding 2 under the mutexes that a Delete leaves in place.
2. The undo that loses typed words (section 6) as a run of its own.
3. `ChatStream`: the event stream of a reply with its condition variable, replay and
   the session GET; the promise that a run's saves cannot bring back a deleted session.
4. `Routes` with requests that overlap, as a run of its own.
5. Two VM names with a Start beside a Create, for the subnet that is handed out twice.
