--------------------------- MODULE SoftwareUpdate ---------------------------
(***************************************************************************)
(* Software Update of the desk (server/update.go): one update job that     *)
(* every asker joins, the installer run as a child of the daemon, the look *)
(* at the binary on disk, the record a restart leaves for the daemon that  *)
(* comes back, and a person's `exe update` in a shell beside it all.  The  *)
(* installer's own steps are in Install; here it puts the newest release   *)
(* in place or fails.                                                      *)
(***************************************************************************)
EXTENDS Naturals

CONSTANTS Client,      \* desks that ask for an update
          MaxRelease,  \* releases 2..MaxRelease come out while exe 1 runs
          MaxPosts,    \* requests for an update
          MaxFails     \* checks, installs and restarts that do not work out

VARIABLES newest,      \* the newest release published
          disk,        \* release of the binary in place
          version,     \* release of the running daemon
          latest,      \* updateState.latest: 0 before an answer
          launched,    \* the file in place at the first look, 0 before it
          job,         \* the update job, or NoJob
          work,        \* where the job's goroutine is
          record,      \* update.json: the release meant, 0 without one
          post,        \* [Client -> a request being handled]
          owed,        \* an accepted request's restart has not come about
          posts, fails

daemonVars == <<version, latest, launched, job, work>>
vars == <<newest, disk, version, latest, launched, job, work, record, post,
          owed, posts, fails>>

NoJob  == [target |-> 0, state |-> "none", restart |-> FALSE]
NoPost == [pc |-> "none", restart |-> FALSE]

Busy == job.state \in {"installing", "restarting"}

(* onDisk: what the file in place says of itself, asked only when it is    *)
(* not the file of the first look; 0 for "".                               *)
onDisk == IF launched = 0 \/ disk = launched THEN 0 ELSE disk

Init ==
    /\ newest \in 1..MaxRelease /\ disk = 1 /\ version = 1
    /\ latest = 0 /\ launched = 0 /\ job = NoJob /\ work = "none"
    /\ record = 0 /\ post = [c \in Client |-> NoPost]
    /\ owed = FALSE /\ posts = 0 /\ fails = 0

(* init, on the first request since the daemon started.                    *)
Look == launched' = IF launched = 0 THEN disk ELSE launched

(* updateCheck: the answer of the releases address, or an error that       *)
(* leaves the last answer standing.                                        *)
Check ==
    \/ latest' = newest /\ UNCHANGED fails
    \/ fails < MaxFails /\ fails' = fails + 1 /\ UNCHANGED latest

(* handleUpdateGet: looks again when the last answer is old, when asked    *)
(* to, or when the disk holds more than the last answer knows.             *)
handleUpdateGet ==
    /\ Look
    /\ ~Busy /\ Check
    /\ UNCHANGED <<newest, disk, version, job, work, record, post, owed, posts>>

(* handleUpdatePost up to its check: what it read is not held.             *)
PostBegins(c) ==
    /\ post[c] = NoPost /\ posts < MaxPosts
    /\ Look /\ posts' = posts + 1
    /\ \E r \in BOOLEAN : post' = [post EXCEPT ![c] =
            [pc |-> IF ~Busy /\ latest = 0 THEN "check" ELSE "act", restart |-> r]]
    /\ UNCHANGED <<newest, disk, version, latest, job, work, record, owed, fails>>

PostChecks(c) ==
    /\ post[c].pc = "check"
    /\ Check
    /\ post' = [post EXCEPT ![c].pc = "act"]
    /\ UNCHANGED <<newest, disk, version, launched, job, work, record, owed, posts>>

(* The decision, under the lock: join, restart into what is in place,      *)
(* install, or nothing to do.                                              *)
PostActs(c) ==
    /\ post[c].pc = "act"
    /\ post' = [post EXCEPT ![c] = NoPost]
    /\ LET restart == post[c].restart
           ready   == onDisk \notin {0, version} /\ onDisk >= latest
       IN  \/ /\ Busy
              /\ job' = [job EXCEPT !.restart = @ \/ restart]
              /\ owed' = (owed \/ restart)
              /\ UNCHANGED work
           \/ /\ ~Busy /\ ready /\ restart
              /\ job' = [target |-> onDisk, state |-> "restarting", restart |-> TRUE]
              /\ work' = "record" /\ owed' = TRUE
           \/ /\ ~Busy /\ ~ready /\ latest > version
              /\ job' = [target |-> latest, state |-> "installing", restart |-> restart]
              /\ work' = "install" /\ owed' = restart
           \/ /\ ~Busy /\ ~(ready /\ restart) /\ (ready \/ latest <= version)
              /\ UNCHANGED <<job, work, owed>>
    /\ UNCHANGED <<newest, disk, version, latest, launched, record, posts, fails>>

(* The child runs `exe update` of the binary in place: it asks for the     *)
(* newest release itself, and is content when it is that one.              *)
Installer ==
    /\ work = "install"
    /\ \/ disk' = newest /\ work' = "installed" /\ UNCHANGED fails
       \/ /\ fails < MaxFails /\ fails' = fails + 1
          /\ work' = "failed" /\ UNCHANGED disk
    /\ UNCHANGED <<newest, version, latest, launched, job, record, post, owed, posts>>

Fail ==
    /\ job' = [job EXCEPT !.state = "failed"]
    /\ work' = "none" /\ owed' = FALSE

(* updateRun after the child: the file in place must be the release meant. *)
(* Whether to restart is read, and the job ended, under one lock.          *)
BugUpdateRun ==
    /\ \/ work = "failed" /\ Fail
       \/ work = "installed" /\ onDisk /= job.target /\ Fail
       \/ /\ work = "installed" /\ onDisk = job.target
          /\ job' = NoJob /\ work' = "none" /\ UNCHANGED owed
    /\ UNCHANGED <<newest, disk, version, latest, launched, record, post, posts, fails>>

updateRun ==
    /\ \/ work = "failed" /\ Fail
       \/ work = "installed" /\ onDisk /= job.target /\ Fail
       \/ /\ work = "installed" /\ onDisk = job.target
          /\ IF job.restart
             THEN job' = [job EXCEPT !.state = "restarting"] /\ work' = "record"
             ELSE job' = NoJob /\ work' = "none"
          /\ UNCHANGED owed
    /\ UNCHANGED <<newest, disk, version, latest, launched, record, post, posts, fails>>

(* updateRestart writes the record (or cannot), and asks for the restart.  *)
updateRestart ==
    /\ work = "record"
    /\ record' \in {record, job.target}
    /\ work' = "restart"
    /\ UNCHANGED <<newest, disk, version, latest, launched, job, post, owed, posts, fails>>

(* The daemon that comes back is the binary in place and has no memory.    *)
ComesBack ==
    /\ version' = disk /\ latest' = 0 /\ launched' = 0
    /\ job' = NoJob /\ work' = "none" /\ owed' = FALSE
    /\ post' = [c \in Client |-> NoPost]

Restarted ==
    /\ work = "restart" /\ ComesBack
    /\ UNCHANGED <<newest, disk, record, posts, fails>>

(* The restart has not happened after updateRestartWait: nothing was       *)
(* restarted into, and the record goes.                                    *)
GivesUp ==
    /\ work = "restart" /\ fails < MaxFails
    /\ fails' = fails + 1 /\ record' = 0
    /\ Fail
    /\ UNCHANGED <<newest, disk, version, latest, launched, post, posts>>

(* The daemon goes down for any other reason, in the middle of anything.   *)
(* A child installer it leaves behind (KillMode=process) may still finish. *)
GoesDown ==
    /\ fails < MaxFails /\ fails' = fails + 1
    /\ disk' \in IF work = "install" THEN {disk, newest} ELSE {disk}
    /\ version' = disk' /\ latest' = 0 /\ launched' = 0
    /\ job' = NoJob /\ work' = "none" /\ owed' = FALSE
    /\ post' = [c \in Client |-> NoPost]
    /\ UNCHANGED <<newest, record, posts>>

ShellUpdate ==
    /\ disk < newest /\ disk' = newest
    /\ UNCHANGED <<newest, daemonVars, record, post, owed, posts, fails>>

Publish ==
    /\ newest < MaxRelease /\ newest' = newest + 1
    /\ UNCHANGED <<disk, daemonVars, record, post, owed, posts, fails>>

Next ==
    \/ handleUpdateGet \/ Installer \/ updateRun \/ updateRestart
    \/ Restarted \/ GivesUp \/ GoesDown \/ ShellUpdate \/ Publish
    \/ \E c \in Client : PostBegins(c) \/ PostChecks(c) \/ PostActs(c)

Spec == Init /\ [][Next]_vars

(* The child is given 20 minutes, the restart 90 seconds, a check 20.      *)
Fairness ==
    /\ WF_vars(Installer) /\ WF_vars(updateRun) /\ WF_vars(updateRestart)
    /\ WF_vars(Restarted \/ GivesUp)

FairSpec == Spec /\ Fairness

-----------------------------------------------------------------------------
(* Update Now with a restart, on whichever desk and joining whichever job, *)
(* ends in a restart or in a failure that is shown: never in an update     *)
(* that is quietly left for later.                                         *)
RestartHonored == []<>~owed

=============================================================================
