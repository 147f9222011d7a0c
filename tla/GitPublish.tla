---------------------------- MODULE GitPublish ----------------------------
(***************************************************************************)
(* Publishing a folder of a VM to GitHub (internal/server/publish.go,      *)
(* internal/github EnsureRepo).  A publish is a series of commands run in  *)
(* the guest over SSH with API calls in between; nothing locks the folder, *)
(* so two publishes (the desktop's dialog and the chat tool) and the       *)
(* guest's own users interleave with it, and any command may fail.  A push *)
(* to https://github.com/ goes through a proxy on the host that serves one *)
(* repository only; one to any other address goes past it.                 *)
(* What a folder or a commit holds is the set of the edits it contains,    *)
(* and a branch only moves forward.                                        *)
(***************************************************************************)
EXTENDS Naturals

CONSTANTS
    Pub,        \* publish requests
    Repo,       \* repositories of the signed-in account
    Folder,     \* the repository named like the folder
    Branch,     \* branches of the folder
    Main,       \* the one git init makes
    MaxGuestEdits    \* what the guest's users do to the folder

NoRepo    == "none"
Theirs    == "theirs"     \* https://github.com/ and another account
Elsewhere == "elsewhere"  \* git@github.com:, another host, a path
Detached  == "detached"   \* HEAD on no branch
Alien     == 0            \* another history

ASSUME FolderAssumption == Folder \in Repo
ASSUME BranchAssumption == Main \in Branch /\ Detached \notin Branch

VARIABLES
    work,      \* the edits the folder holds
    tips,      \* branch, or Detached -> the edits its commit holds, {}: none yet
    HEAD,      \* where HEAD is
    inited,    \* the folder is a git repository
    origin,    \* the url of its origin remote
    pushurl,   \* its configuration sends its pushes elsewhere
    repos,     \* the repositories there are
    gh,        \* <<repository, branch>> -> what it has
    pub,       \* publish -> [st, ask, repo, branch, from]
    bypassed,  \* history: publishes whose push went past the proxy
    switched,  \* history: publishes that had another branch checked out under them
    guestEdits

folderVars  == <<work, tips, HEAD, inited, origin, pushurl>>
publishVars == <<folderVars, repos, gh, pub, bypassed, switched, guestEdits>>

NotAsked == [st |-> "idle", ask |-> NoRepo, repo |-> NoRepo, branch |-> Detached,
             from |-> {}]

(* A repository may be there already, empty or with a history of its own;  *)
(* the folder may be a clone of another's, with any configuration.         *)
PublishInit ==
    /\ work \in {{1}, {1, 2}} /\ HEAD = Main
    /\ tips = [b \in Branch \cup {Detached} |-> IF b = Main /\ work # {1} THEN {1} ELSE {}]
    /\ inited = (tips[Main] # {})
    /\ origin \in (IF inited THEN {NoRepo, Theirs, Elsewhere} ELSE {NoRepo})
    /\ pushurl \in (IF origin = NoRepo THEN {FALSE} ELSE BOOLEAN)
    /\ repos \in SUBSET Repo
    /\ \E old \in SUBSET repos :
         gh = [rb \in Repo \X Branch |-> IF rb[1] \in old /\ rb[2] = Main THEN {Alien} ELSE {}]
    /\ pub = [p \in Pub |-> NotAsked]
    /\ bypassed = {} /\ switched = {} /\ guestEdits = 0

PubAt(p, st) == pub[p].st = st
PubGo(p, st) == pub' = [pub EXCEPT ![p].st = st]
GivesError(p) == pub' = [pub EXCEPT ![p] = [NotAsked EXCEPT !.st = "failed"]]

----------------------------------------------------------------------------
(* The request, and git init where there is no repository yet: what the    *)
(* guest does between the two is what it does before.                      *)
handlePublish(p, ask) ==
    /\ PubAt(p, "idle")
    /\ pub' = [pub EXCEPT ![p] = [NotAsked EXCEPT !.st = "status", !.ask = ask, !.from = work]]
    /\ inited' = TRUE
    /\ UNCHANGED <<work, tips, HEAD, origin, pushurl, repos, gh, bypassed, switched, guestEdits>>

(* rev-parse HEAD and status --porcelain decide whether to commit. *)
Status(p) ==
    /\ PubAt(p, "status") /\ PubGo(p, IF tips[HEAD] # work THEN "commit" ELSE "branch")
    /\ UNCHANGED <<folderVars, repos, gh, bypassed, switched, guestEdits>>

(* add -A and commit; with nothing to commit any more git refuses. *)
CommitFolder(p) ==
    /\ PubAt(p, "commit")
    /\ IF tips[HEAD] # work THEN tips' = [tips EXCEPT ![HEAD] = work] /\ PubGo(p, "branch")
                          ELSE tips' = tips /\ GivesError(p)
    /\ UNCHANGED <<work, HEAD, inited, origin, pushurl, repos, gh, bypassed, switched, guestEdits>>

(* symbolic-ref: the branch that will be pushed. *)
ReadBranch(p) ==
    /\ PubAt(p, "branch")
    /\ IF HEAD = Detached THEN GivesError(p)
       ELSE pub' = [pub EXCEPT ![p].st = "name", ![p].branch = HEAD]
    /\ UNCHANGED <<folderVars, repos, gh, bypassed, switched, guestEdits>>

(* parseGitHubRemote: the repository the origin may name, Theirs for       *)
(* another account's.  An address elsewhere is git@github.com: with either,*)
(* or one that says nothing.                                               *)
NamedBy(r) ==
    IF r = Elsewhere THEN Repo \cup {Theirs, NoRepo} ELSE {r}

(* Without a name: the origin's repository when it is the account's, an    *)
(* error when it is another's, else the folder's name.                     *)
repoName(p) ==
    /\ PubAt(p, "name")
    /\ \E r \in (IF pub[p].ask # NoRepo THEN {pub[p].ask} ELSE NamedBy(origin)) :
         IF r = Theirs THEN GivesError(p)
         ELSE pub' = [pub EXCEPT ![p].st = "ensure", ![p].ask = NoRepo,
                      ![p].repo = IF r = NoRepo THEN Folder ELSE r]
    /\ UNCHANGED <<folderVars, repos, gh, bypassed, switched, guestEdits>>

EnsureRepo(p) ==
    /\ PubAt(p, "ensure") /\ PubGo(p, "remote")
    /\ repos' = repos \cup {pub[p].repo}
    /\ UNCHANGED <<folderVars, gh, bypassed, switched, guestEdits>>

SetOrigin(p) ==
    /\ PubAt(p, "remote") /\ PubGo(p, "push")
    /\ origin' = pub[p].repo
    /\ UNCHANGED <<work, tips, HEAD, inited, pushurl, repos, gh, bypassed, switched, guestEdits>>

(* Where a push to origin goes. *)
Target == IF pushurl THEN Elsewhere ELSE origin

(* githubProxy: the path of the one repository, nothing else. *)
BugGithubProxy(p, r) == r \in Repo
githubProxy(p, r) == r = pub[p].repo

(* A push that does not move a branch forward is rejected. *)
Takes(r, b)  == r \in repos /\ gh[<<r, b>>] \subseteq tips[b]
Pushed(r, b) == Takes(r, b) /\ gh' = [gh EXCEPT ![<<r, b>>] = tips[b]]

ByProxy(p) == Target \in Repo /\ githubProxy(p, Target) /\ Takes(Target, pub[p].branch)

(* git push of the branch to origin.  What insteadOf rewrites goes through *)
(* the proxy; the rest goes where it says, with the guest's own keys.  The *)
(* commit reported is HEAD's after the push.                               *)
push(p) ==
    /\ PubAt(p, "push")
    /\ \/ /\ ByProxy(p) /\ Pushed(Target, pub[p].branch)
          /\ PubGo(p, "done") /\ UNCHANGED bypassed
       \/ /\ Target = Elsewhere
          /\ UNCHANGED gh \/ \E r \in Repo : Pushed(r, pub[p].branch)
          /\ PubGo(p, "done") /\ bypassed' = bypassed \cup {p}
       \/ ~ByProxy(p) /\ GivesError(p) /\ UNCHANGED <<gh, bypassed>>
    /\ UNCHANGED <<folderVars, repos, switched, guestEdits>>

(* A command or a call fails; one may have had its effect all the same. *)
Fails(p) ==
    /\ pub[p].st \notin {"idle", "done", "failed"} /\ GivesError(p)
    /\ \/ UNCHANGED <<repos, gh>>
       \/ PubAt(p, "ensure") /\ repos' = repos \cup {pub[p].repo} /\ UNCHANGED gh
       \/ PubAt(p, "push") /\ ByProxy(p) /\ Pushed(Target, pub[p].branch) /\ UNCHANGED repos
    /\ UNCHANGED <<folderVars, bypassed, switched, guestEdits>>

----------------------------------------------------------------------------
(* The guest's own users, external: an edit or a commit, a change of the   *)
(* remote, another branch.  (A pushurl set under way does to the push what *)
(* an origin elsewhere does.)                                              *)
Edits ==
    /\ \/ work' = work \cup {guestEdits + 3} /\ UNCHANGED <<tips, origin>>
       \/ /\ inited /\ tips[HEAD] # work
          /\ tips' = [tips EXCEPT ![HEAD] = work] /\ UNCHANGED <<work, origin>>
       \/ inited /\ origin' \in {Theirs, Elsewhere} /\ UNCHANGED <<work, tips>>
    /\ UNCHANGED <<HEAD, switched>>

Begun == {p \in Pub : pub[p].st \in {"status", "commit", "branch"}}

(* A new branch, or none, keeps the folder; one that is there replaces     *)
(* what the folder holds.                                                  *)
Checkout(b) ==
    /\ b # HEAD /\ tips[HEAD] # {} /\ HEAD' = b
    /\ \/ /\ b = Detached \/ tips[b] = {}
          /\ tips' = [tips EXCEPT ![b] = tips[HEAD]] /\ UNCHANGED <<work, switched>>
       \/ /\ b # Detached /\ tips[b] # {} /\ tips[HEAD] = work
          /\ work' = tips[b] /\ switched' = switched \cup Begun /\ UNCHANGED tips
    /\ UNCHANGED origin

GuestEdits ==
    /\ guestEdits < MaxGuestEdits /\ guestEdits' = guestEdits + 1
    /\ Edits \/ \E b \in Branch \cup {Detached} : Checkout(b)
    /\ UNCHANGED <<inited, pushurl, repos, gh, pub, bypassed>>

PublishNext ==
    \/ \E p \in Pub : \/ \E ask \in Repo \cup {NoRepo} : handlePublish(p, ask)
                      \/ Status(p) \/ CommitFolder(p) \/ ReadBranch(p)
                      \/ repoName(p) \/ EnsureRepo(p) \/ SetOrigin(p)
                      \/ push(p) \/ Fails(p)
    \/ GuestEdits

PublishSpec == PublishInit /\ [][PublishNext]_publishVars

----------------------------------------------------------------------------
(* A publish that says done has put all that was in the folder when it was *)
(* asked for on a branch of the repository it names, whatever another      *)
(* publish and the guest's edits and commits do in between: the proxy's    *)
(* pin turns a push to any other https://github.com/ repository into a     *)
(* failure (publishVM, githubProxy).  Two exceptions, in which it says     *)
(* done all the same: the push goes past the proxy when origin is          *)
(* elsewhere by then or has a pushurl there (publish.go:339 rewrites       *)
(* https://github.com/ only), and another branch is pushed than was        *)
(* committed when one is checked out before its name is read (260).        *)
DoneIsThere ==
    \A p \in Pub \ (bypassed \cup switched) :
        pub[p].st = "done" => pub[p].from \subseteq gh[<<pub[p].repo, pub[p].branch>>]
=============================================================================
