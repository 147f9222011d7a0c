--------------------------- MODULE ServiceProofs ---------------------------
(***************************************************************************)
(* What is published and watched, for any number of publishes, browsers,   *)
(* destinations, views, failures and crashes: a publish that says done     *)
(* (GitPublish), the list of subscribed browsers and the turn ends         *)
(* (PushNews), the databases of the pings (PingMonitor), the fetches of    *)
(* Cloudflare's figures (Analytics), what a price may tell of in a day     *)
(* (Alerts) and what the weather may (WeatherAlerts), the hostnames a      *)
(* shared tunnel leads to this daemon (Routes), and how often a request of *)
(* the coding agents is counted (UsageLogs).                               *)
(***************************************************************************)
EXTENDS GitPublish, PushNews, PingMonitor, Analytics, WeatherAlerts, Alerts, Routes,
        UsageLogs, TLAPS, FiniteSetTheorems, NaturalsInduction, WellFoundedInduction

-----------------------------------------------------------------------------
(* Publishing to GitHub.                                                   *)
States == {"idle", "status", "commit", "branch", "name", "ensure", "remote", "push", "done",
           "failed"}
Heads   == Branch \cup {Detached}
Records == [st : States, ask : Repo \cup {NoRepo}, repo : Repo \cup {NoRepo},
            branch : Heads, from : SUBSET Nat]

GitTypes ==
    /\ work \in SUBSET Nat /\ tips \in [Heads -> SUBSET Nat] /\ HEAD \in Heads
    /\ gh \in [Repo \X Branch -> SUBSET Nat] /\ pub \in [Pub -> Records]
    /\ origin \in Repo \cup {NoRepo, Theirs, Elsewhere} /\ guestEdits \in Nat

Unmoved == <<work, HEAD, switched, guestEdits>>      \* what no publish changes

(* Where a publish has come to: what was in the folder when it began is    *)
(* there, then committed, then on the branch it pushes, then on GitHub.    *)
Carries(p) ==
    LET at == pub[p] IN
    /\ at.st \in {"ensure", "remote", "push", "done"} => at.repo \in Repo
    /\ at.st \in {"name", "ensure", "remote", "push", "done"} => at.branch \in Branch
    /\ p \notin switched =>
         /\ at.st \in {"status", "commit", "branch"} => at.from \subseteq work
         /\ at.st = "branch" => at.from \subseteq tips[HEAD]
         /\ at.st \in {"name", "ensure", "remote", "push"} => at.from \subseteq tips[at.branch]
         /\ at.st = "done" /\ p \notin bypassed => at.from \subseteq gh[<<at.repo, at.branch>>]

Forward == tips[HEAD] \subseteq work /\ \A p \in Pub : Carries(p)

(* A step of one publish, when nothing goes back, keeps all.               *)
LEMMA OnePublishMoves ==
    ASSUME GitTypes, Forward, NEW p \in Pub, NEW new \in Records,
           pub' = [pub EXCEPT ![p] = new],
           UNCHANGED Unmoved, bypassed \subseteq bypassed',
           origin' \in Repo \cup {NoRepo, Theirs, Elsewhere},
           tips' \in [Heads -> SUBSET Nat], gh' \in [Repo \X Branch -> SUBSET Nat],
           tips'[HEAD] \subseteq work, \A b \in Heads : tips[b] \subseteq tips'[b],
           \A rb \in Repo \X Branch : gh[rb] \subseteq gh'[rb],
           Carries(p)'
    PROVE  GitTypes' /\ Forward'
<1> USE DEF Unmoved
<1>1. pub' \in [Pub -> Records] /\ \A q \in Pub \ {p} : pub'[q] = pub[q]
  BY DEF GitTypes
<1>2. ASSUME NEW q \in Pub \ {p} PROVE Carries(q)'
  <2>1. Carries(q) /\ pub'[q] = pub[q] /\ pub[q] \in Records
    BY <1>1 DEF Forward, GitTypes
  <2>2. pub[q].branch \in Heads /\ tips[pub[q].branch] \subseteq tips'[pub[q].branch]
    BY <2>1 DEF Records
  <2>3. tips[HEAD] \subseteq tips'[HEAD]
    BY DEF GitTypes
  <2>4. pub[q].repo \in Repo /\ pub[q].branch \in Branch
        => gh[<<pub[q].repo, pub[q].branch>>] \subseteq gh'[<<pub[q].repo, pub[q].branch>>]
    OBVIOUS
  <2> QED BY <2>1, <2>2, <2>3, <2>4 DEF Carries
<1> QED BY <1>1, <1>2 DEF GitTypes, Forward

(* In particular one that only goes on, or ends with an error.             *)
LEMMA OnePublishGoes ==
    ASSUME GitTypes, Forward, NEW p \in Pub, NEW new \in Records,
           pub' = [pub EXCEPT ![p] = new], UNCHANGED <<Unmoved, tips, gh, bypassed>>,
           origin' \in Repo \cup {NoRepo, Theirs, Elsewhere}, Carries(p)'
    PROVE  GitTypes' /\ Forward'
<1> USE DEF Unmoved
<1>1. /\ tips' \in [Heads -> SUBSET Nat] /\ gh' \in [Repo \X Branch -> SUBSET Nat]
      /\ tips'[HEAD] \subseteq work
      /\ \A b \in Heads : tips[b] \subseteq tips'[b]
      /\ \A rb \in Repo \X Branch : gh[rb] \subseteq gh'[rb]
  BY DEF GitTypes, Forward
<1> QED BY <1>1, OnePublishMoves

LEMMA ErrorsAreRecords ==
    [NotAsked EXCEPT !.st = "failed"] \in Records /\ [NotAsked EXCEPT !.st = "failed"].st = "failed"
<1>1. NotAsked \in Records
  BY DEF NotAsked, Records, States, Heads
<1> QED BY <1>1 DEF Records, States

(* Both are kept by every step, also by those that fail.                  *)
LEMMA GitInvariant == PublishSpec => [](GitTypes /\ Forward)
<1> USE FolderAssumption, BranchAssumption DEF Unmoved
<1>1. PublishInit => GitTypes /\ Forward
  <2> SUFFICES ASSUME PublishInit PROVE GitTypes /\ Forward
    OBVIOUS
  <2>1. NotAsked \in Records /\ NotAsked.st = "idle"
    BY DEF NotAsked, Records, States, Heads
  <2>2. pub \in [Pub -> Records] /\ \A p \in Pub : pub[p].st = "idle"
    BY <2>1 DEF PublishInit
  <2>3. /\ work \in SUBSET Nat /\ tips \in [Heads -> SUBSET Nat] /\ HEAD \in Heads
        /\ tips[HEAD] \subseteq work
    BY DEF PublishInit, Heads
  <2>4. gh \in [Repo \X Branch -> SUBSET Nat]
    <3>1. PICK old \in SUBSET repos :
            gh = [rb \in Repo \X Branch |-> IF rb[1] \in old /\ rb[2] = Main THEN {Alien} ELSE {}]
      BY DEF PublishInit
    <3> QED BY <3>1 DEF Alien
  <2>5. origin \in Repo \cup {NoRepo, Theirs, Elsewhere} /\ guestEdits \in Nat
    BY DEF PublishInit
  <2> QED BY <2>2, <2>3, <2>4, <2>5 DEF GitTypes, Forward, Carries
<1>2. GitTypes /\ Forward /\ [PublishNext]_publishVars => GitTypes' /\ Forward'
  <2> SUFFICES ASSUME GitTypes, Forward, [PublishNext]_publishVars PROVE GitTypes' /\ Forward'
    OBVIOUS
  <2>0. \A p \in Pub : Carries(p) /\ pub[p] \in Records
    BY DEF Forward, GitTypes
  <2>1. CASE UNCHANGED publishVars
    BY <2>1 DEF publishVars, folderVars, GitTypes, Forward, Carries
  <2>2. ASSUME NEW p \in Pub, NEW st \in States, PubGo(p, st),
               pub'[p] \in Records => Carries(p)',
               UNCHANGED <<Unmoved, tips, gh, bypassed>>,
               origin' \in Repo \cup {NoRepo, Theirs, Elsewhere}
        PROVE  GitTypes' /\ Forward'
    <3> DEFINE new == [pub[p] EXCEPT !.st = st]
    <3>1. new \in Records /\ pub' = [pub EXCEPT ![p] = new] /\ pub'[p] = new
      BY <2>0, <2>2 DEF PubGo, Records, GitTypes
    <3> HIDE DEF new
    <3> QED BY <2>2, <3>1, OnePublishGoes
  <2>3. ASSUME NEW p \in Pub, GivesError(p), UNCHANGED <<Unmoved, tips, gh, bypassed>>,
               origin' \in Repo \cup {NoRepo, Theirs, Elsewhere}
        PROVE  GitTypes' /\ Forward'
    <3> DEFINE new == [NotAsked EXCEPT !.st = "failed"]
    <3>1. new \in Records /\ new.st = "failed" /\ pub' = [pub EXCEPT ![p] = new] /\ pub'[p] = new
      BY <2>3, ErrorsAreRecords DEF GivesError, GitTypes
    <3> HIDE DEF new
    <3>2. Carries(p)'
      BY <3>1 DEF Carries
    <3> QED BY <2>3, <3>1, <3>2, OnePublishGoes
  <2>4. ASSUME NEW p \in Pub, NEW ask \in Repo \cup {NoRepo}, handlePublish(p, ask)
        PROVE  GitTypes' /\ Forward'
    <3> DEFINE new == [NotAsked EXCEPT !.st = "status", !.ask = ask, !.from = work]
    <3>1. new \in Records /\ new.st = "status" /\ new.from = work
      BY DEF NotAsked, Records, States, Heads, GitTypes
    <3>2. /\ pub' = [pub EXCEPT ![p] = new]
          /\ UNCHANGED <<Unmoved, tips, gh, bypassed, origin>>
      BY <2>4 DEF handlePublish
    <3> HIDE DEF new
    <3>3. pub'[p] = new /\ origin' \in Repo \cup {NoRepo, Theirs, Elsewhere}
      BY <3>2 DEF GitTypes
    <3>4. Carries(p)'
      BY <3>1, <3>2, <3>3 DEF Carries
    <3> QED BY <3>1, <3>2, <3>3, <3>4, OnePublishGoes
  <2>5. ASSUME NEW p \in Pub, Status(p) PROVE GitTypes' /\ Forward'
    <3>1. PICK st \in {"commit", "branch"} :
            /\ PubGo(p, st) /\ pub[p].st = "status" /\ (st = "branch" => tips[HEAD] = work)
            /\ UNCHANGED <<Unmoved, tips, gh, bypassed, origin>>
      BY <2>5 DEF Status, PubAt, folderVars
    <3>2. st \in States /\ pub'[p].st = st /\ pub'[p].from = pub[p].from
      BY <2>0, <3>1 DEF PubGo, States, Records, GitTypes
    <3>3. Carries(p)'
      BY <2>0, <3>1, <3>2 DEF Carries
    <3> QED BY <2>2, <3>1, <3>2, <3>3 DEF GitTypes
  <2>6. ASSUME NEW p \in Pub, CommitFolder(p) PROVE GitTypes' /\ Forward'
    <3>1. CASE GivesError(p) /\ tips' = tips
      BY <2>3, <2>6, <3>1 DEF CommitFolder, GitTypes
    <3>2. CASE tips' = [tips EXCEPT ![HEAD] = work] /\ PubGo(p, "branch")
      <4> DEFINE new == [pub[p] EXCEPT !.st = "branch"]
      <4>1. /\ new \in Records /\ new.st = "branch" /\ new.from = pub[p].from
            /\ pub' = [pub EXCEPT ![p] = new] /\ pub'[p] = new
        BY <2>0, <3>2 DEF PubGo, Records, States, GitTypes
      <4> HIDE DEF new
      <4>2. pub[p].st = "commit" /\ UNCHANGED <<Unmoved, gh, bypassed, origin>>
        BY <2>6 DEF CommitFolder, PubAt
      <4>3. /\ tips' \in [Heads -> SUBSET Nat] /\ tips'[HEAD] = work
            /\ \A b \in Heads : tips[b] \subseteq tips'[b]
        BY <3>2 DEF GitTypes, Forward
      <4>4. Carries(p)'
        BY <2>0, <4>1, <4>2, <4>3 DEF Carries
      <4>5. /\ gh' \in [Repo \X Branch -> SUBSET Nat] /\ origin' \in Repo \cup {NoRepo, Theirs, Elsewhere}
            /\ \A rb \in Repo \X Branch : gh[rb] \subseteq gh'[rb]
            /\ tips'[HEAD] \subseteq work /\ bypassed \subseteq bypassed'
        BY <4>2, <4>3 DEF GitTypes
      <4> QED BY <4>1, <4>2, <4>3, <4>4, <4>5, OnePublishMoves
    <3> QED BY <2>6, <3>1, <3>2 DEF CommitFolder
  <2>7. ASSUME NEW p \in Pub, ReadBranch(p) PROVE GitTypes' /\ Forward'
    <3>1. CASE GivesError(p)
      BY <2>3, <2>7, <3>1 DEF ReadBranch, GitTypes, folderVars
    <3>2. CASE HEAD # Detached /\ pub' = [pub EXCEPT ![p].st = "name", ![p].branch = HEAD]
      <4> DEFINE new == [pub[p] EXCEPT !.st = "name", !.branch = HEAD]
      <4>1. /\ new \in Records /\ new.st = "name" /\ new.from = pub[p].from /\ new.branch = HEAD
            /\ pub' = [pub EXCEPT ![p] = new] /\ pub'[p] = new /\ HEAD \in Branch
        BY <2>0, <3>2 DEF Records, States, GitTypes, Heads
      <4> HIDE DEF new
      <4>2. pub[p].st = "branch" /\ UNCHANGED <<Unmoved, tips, gh, bypassed, origin>>
        BY <2>7 DEF ReadBranch, PubAt, folderVars
      <4>3. Carries(p)'
        BY <2>0, <4>1, <4>2 DEF Carries
      <4>4. origin' \in Repo \cup {NoRepo, Theirs, Elsewhere}
        BY <4>2 DEF GitTypes
      <4> QED BY <4>1, <4>2, <4>3, <4>4, OnePublishGoes
    <3> QED BY <2>7, <3>1, <3>2 DEF ReadBranch
  <2>8. ASSUME NEW p \in Pub, repoName(p) PROVE GitTypes' /\ Forward'
    <3>0. pub[p].st = "name" /\ UNCHANGED <<Unmoved, tips, gh, bypassed, origin>>
      BY <2>8 DEF repoName, PubAt, folderVars
    <3>1. CASE GivesError(p)
      BY <2>3, <3>0, <3>1 DEF GitTypes
    <3>2. CASE ~GivesError(p)
      <4>1. PICK r \in Repo : pub' = [pub EXCEPT ![p].st = "ensure", ![p].ask = NoRepo, ![p].repo = r]
        <5>1. PICK r \in (IF pub[p].ask # NoRepo THEN {pub[p].ask} ELSE NamedBy(origin)) :
                IF r = Theirs THEN GivesError(p)
                ELSE pub' = [pub EXCEPT ![p].st = "ensure", ![p].ask = NoRepo,
                              ![p].repo = IF r = NoRepo THEN Folder ELSE r]
          BY <2>8 DEF repoName
        <5>2. r # Theirs /\ pub[p].ask \in Repo \cup {NoRepo}
          BY <2>0, <3>2, <5>1 DEF Records
        <5>3. r \in Repo \cup {NoRepo, Theirs}
          BY <5>1, <5>2 DEF NamedBy, GitTypes
        <5>4. (IF r = NoRepo THEN Folder ELSE r) \in Repo
          BY <5>2, <5>3
        <5> QED BY <5>1, <5>2, <5>4
      <4> DEFINE new == [pub[p] EXCEPT !.st = "ensure", !.ask = NoRepo, !.repo = r]
      <4>2. /\ new \in Records /\ new.st = "ensure" /\ new.from = pub[p].from
            /\ new.branch = pub[p].branch /\ new.repo = r
            /\ pub' = [pub EXCEPT ![p] = new] /\ pub'[p] = new
        BY <2>0, <4>1 DEF Records, States, GitTypes
      <4> HIDE DEF new
      <4>3. Carries(p)'
        BY <2>0, <3>0, <4>2 DEF Carries
      <4>4. origin' \in Repo \cup {NoRepo, Theirs, Elsewhere}
        BY <3>0 DEF GitTypes
      <4> QED BY <3>0, <4>2, <4>3, <4>4, OnePublishGoes
    <3> QED BY <3>1, <3>2
  <2>9. ASSUME NEW p \in Pub, EnsureRepo(p) \/ SetOrigin(p) PROVE GitTypes' /\ Forward'
    <3>1. PICK st \in {"remote", "push"} :
            /\ PubGo(p, st) /\ pub[p].st \in {"ensure", "remote"}
            /\ UNCHANGED <<Unmoved, tips, gh, bypassed>>
            /\ origin' \in {origin, pub[p].repo}
      BY <2>9 DEF EnsureRepo, SetOrigin, PubAt, folderVars
    <3>2. /\ st \in States /\ pub'[p].st = st /\ pub'[p].from = pub[p].from
          /\ pub'[p].repo = pub[p].repo /\ pub'[p].branch = pub[p].branch
      BY <2>0, <3>1 DEF PubGo, States, Records, GitTypes
    <3>3. Carries(p)'
      BY <2>0, <3>1, <3>2 DEF Carries
    <3>4. origin' \in Repo \cup {NoRepo, Theirs, Elsewhere}
      BY <2>0, <3>1 DEF Carries, GitTypes
    <3> QED BY <2>2, <3>1, <3>2, <3>3, <3>4
  <2>10. ASSUME NEW p \in Pub, NEW r \in Repo, Pushed(r, pub[p].branch), pub[p].st = "push",
                UNCHANGED <<Unmoved, tips, origin>>, bypassed \subseteq bypassed',
                NEW new \in Records, pub' = [pub EXCEPT ![p] = new],
                \/ new.st = "failed"
                \/ /\ new.st = "done" /\ new.from = pub[p].from
                   /\ new.repo = pub[p].repo /\ new.branch = pub[p].branch
                   /\ p \notin bypassed' => r = pub[p].repo
         PROVE  GitTypes' /\ Forward'
    <3> DEFINE b == pub[p].branch
    <3>1. b \in Branch /\ tips[b] \in SUBSET Nat
      BY <2>0, <2>10 DEF Carries, GitTypes, Heads
    <3>2. gh[<<r, b>>] \subseteq tips[b] /\ gh' = [gh EXCEPT ![<<r, b>>] = tips[b]]
      BY <2>10 DEF Pushed, Takes
    <3>3. /\ gh' \in [Repo \X Branch -> SUBSET Nat] /\ gh'[<<r, b>>] = tips[b]
          /\ \A rb \in Repo \X Branch : gh[rb] \subseteq gh'[rb]
      BY <3>1, <3>2 DEF GitTypes
    <3>4. pub'[p] = new
      BY <2>10 DEF GitTypes
    <3>5. Carries(p)'
      BY <2>0, <2>10, <3>1, <3>3, <3>4 DEF Carries
    <3>6. /\ tips' \in [Heads -> SUBSET Nat] /\ tips'[HEAD] \subseteq work
          /\ \A h \in Heads : tips[h] \subseteq tips'[h]
          /\ origin' \in Repo \cup {NoRepo, Theirs, Elsewhere}
      BY <2>10 DEF GitTypes, Forward
    <3> QED BY <2>10, <3>3, <3>5, <3>6, OnePublishMoves
  <2>11. ASSUME NEW p \in Pub, push(p) PROVE GitTypes' /\ Forward'
    <3>0. /\ pub[p].st = "push" /\ UNCHANGED <<Unmoved, tips, origin>>
          /\ bypassed \subseteq bypassed'
      BY <2>11 DEF push, PubAt, folderVars
    <3> DEFINE new == [pub[p] EXCEPT !.st = "done"]
    <3>1. /\ new \in Records /\ new.st = "done" /\ new.from = pub[p].from
          /\ new.repo = pub[p].repo /\ new.branch = pub[p].branch
          /\ PubGo(p, "done") => pub' = [pub EXCEPT ![p] = new] /\ pub'[p] = new
      BY <2>0 DEF PubGo, Records, States, GitTypes
    <3> HIDE DEF new
    <3>2. CASE ByProxy(p) /\ Pushed(Target, pub[p].branch) /\ PubGo(p, "done")
      <4>1. Target \in Repo /\ Target = pub[p].repo
        BY <3>2 DEF ByProxy, githubProxy
      <4> QED BY <2>10, <3>0, <3>1, <3>2, <4>1
    <3>3. CASE /\ UNCHANGED gh \/ \E r \in Repo : Pushed(r, pub[p].branch)
               /\ PubGo(p, "done") /\ bypassed' = bypassed \cup {p}
      <4>1. CASE \E r \in Repo : Pushed(r, pub[p].branch)
        BY <2>10, <3>0, <3>1, <3>3, <4>1
      <4>2. CASE UNCHANGED gh
        <5>1. Carries(p)'
          BY <2>0, <3>0, <3>1, <3>3 DEF Carries
        <5>2. /\ tips' \in [Heads -> SUBSET Nat] /\ tips'[HEAD] \subseteq work
              /\ \A h \in Heads : tips[h] \subseteq tips'[h]
              /\ origin' \in Repo \cup {NoRepo, Theirs, Elsewhere}
              /\ gh' \in [Repo \X Branch -> SUBSET Nat]
              /\ \A rb \in Repo \X Branch : gh[rb] \subseteq gh'[rb]
          BY <3>0, <4>2 DEF GitTypes, Forward
        <5> QED BY <3>0, <3>1, <3>3, <5>1, <5>2, OnePublishMoves
      <4> QED BY <3>3, <4>1, <4>2
    <3>4. CASE GivesError(p) /\ UNCHANGED <<gh, bypassed>>
      BY <2>3, <3>0, <3>4 DEF GitTypes
    <3> QED BY <2>11, <3>2, <3>3, <3>4 DEF push
  <2>12. ASSUME NEW p \in Pub, Fails(p) PROVE GitTypes' /\ Forward'
    <3>0. GivesError(p) /\ UNCHANGED <<Unmoved, tips, origin, bypassed>>
      BY <2>12 DEF Fails, folderVars
    <3>1. CASE UNCHANGED gh
      BY <2>3, <3>0, <3>1 DEF GitTypes
    <3>2. CASE PubAt(p, "push") /\ ByProxy(p) /\ Pushed(Target, pub[p].branch)
      <4> DEFINE new == [NotAsked EXCEPT !.st = "failed"]
      <4>1. new \in Records /\ new.st = "failed" /\ pub' = [pub EXCEPT ![p] = new]
        BY <3>0, ErrorsAreRecords DEF GivesError
      <4> HIDE DEF new
      <4>2. Target \in Repo /\ pub[p].st = "push"
        BY <3>2 DEF ByProxy, PubAt
      <4> QED BY <2>10, <3>0, <3>2, <4>1, <4>2
    <3> QED BY <2>12, <3>1, <3>2 DEF Fails
  <2>13. CASE GuestEdits
    <3>0. UNCHANGED <<gh, pub, bypassed>> /\ guestEdits' \in Nat
      BY <2>13 DEF GuestEdits, GitTypes
    <3>1. CASE Edits /\ guestEdits' = guestEdits + 1
      <4>1. /\ work \subseteq work' /\ UNCHANGED <<HEAD, switched>>
            /\ origin' \in Repo \cup {NoRepo, Theirs, Elsewhere}
        <5>1. UNCHANGED <<HEAD, switched>> /\ origin' \in {origin, Theirs, Elsewhere}
          BY <3>1 DEF Edits
        <5>2. work' \in {work, work \cup {guestEdits + 3}}
          BY <3>1 DEF Edits
        <5>3. work \subseteq work'
          BY <5>2
        <5> QED BY <5>1, <5>3 DEF GitTypes
      <4>2. tips' \in {tips, [tips EXCEPT ![HEAD] = work]} /\ (tips' # tips => work' = work)
        BY <3>1 DEF Edits
      <4>3. /\ tips' \in [Heads -> SUBSET Nat] /\ tips'[HEAD] \subseteq work'
            /\ \A b \in Heads : tips[b] \subseteq tips'[b]
        BY <4>1, <4>2 DEF GitTypes, Forward
      <4>4. ASSUME NEW q \in Pub PROVE Carries(q)'
        <5>1. tips[HEAD] \subseteq tips'[HEAD] /\ pub[q].branch \in Heads
          BY <2>0, <4>3 DEF Records, GitTypes
        <5>2. tips[pub[q].branch] \subseteq tips'[pub[q].branch]
          BY <4>3, <5>1
        <5> QED BY <2>0, <3>0, <4>1, <5>1, <5>2 DEF Carries
      <4>5. work' \in SUBSET Nat
        <5>1. work \in SUBSET Nat /\ guestEdits + 3 \in Nat
          BY DEF GitTypes
        <5>2. work' \in {work, work \cup {guestEdits + 3}}
          BY <3>1 DEF Edits
        <5> QED BY <5>1, <5>2
      <4> QED BY <3>0, <4>1, <4>3, <4>4, <4>5 DEF GitTypes, Forward
    <3>2. ASSUME NEW b \in Heads, Checkout(b) PROVE GitTypes' /\ Forward'
      <4>0. HEAD' = b /\ b # HEAD /\ UNCHANGED origin
        BY <3>2 DEF Checkout
      <4>1. CASE /\ b = Detached \/ tips[b] = {}
                 /\ tips' = [tips EXCEPT ![b] = tips[HEAD]] /\ UNCHANGED <<work, switched>>
        <5>1. tips' \in [Heads -> SUBSET Nat] /\ tips'[HEAD'] = tips[HEAD]
          BY <4>0, <4>1 DEF GitTypes
        <5>2. \A c \in Branch : tips[c] \subseteq tips'[c]
          BY <4>1 DEF GitTypes, Heads
        <5>3. ASSUME NEW q \in Pub PROVE Carries(q)'
          <6>1. pub[q].branch \in Branch => tips[pub[q].branch] \subseteq tips'[pub[q].branch]
            BY <5>2
          <6> QED BY <2>0, <3>0, <4>1, <5>1, <6>1 DEF Carries
        <5> QED BY <3>0, <4>0, <4>1, <5>1, <5>3 DEF GitTypes, Forward
      <4>2. CASE /\ work' = tips[b] /\ switched' = switched \cup Begun /\ UNCHANGED tips
        <5>1. ASSUME NEW q \in Pub PROVE Carries(q)'
          BY <2>0, <3>0, <4>2 DEF Carries, Begun
        <5> QED BY <3>0, <4>0, <4>2, <5>1 DEF GitTypes, Forward
      <4> QED BY <3>2, <4>1, <4>2 DEF Checkout
    <3> QED BY <2>13, <3>1, <3>2 DEF GuestEdits, Heads
  <2> QED BY <2>1, <2>4, <2>5, <2>6, <2>7, <2>8, <2>9, <2>11, <2>12, <2>13 DEF PublishNext
<1> QED BY <1>1, <1>2, PTL DEF PublishSpec

(* A publish that says done is there, whatever another publish and the     *)
(* guest's edits and commits do meanwhile, and whichever repository origin *)
(* names by then (publishVM, githubProxy), unless its push went past the   *)
(* proxy or another branch was checked out before its name was read.       *)
THEOREM PublishedFolderIsThere == PublishSpec => []DoneIsThere
<1>1. GitTypes /\ Forward => DoneIsThere
  BY DEF Forward, Carries, DoneIsThere
<1> QED BY <1>1, GitInvariant, PTL

-----------------------------------------------------------------------------
(* Subscriptions and turn ends.                                            *)
Message == [to : SUBSET Browser, list : SUBSET Browser, gone : SUBSET Browser]
FileState == [time : Nat, word : Word]

PushTypes ==
    /\ subs \subseteq Browser /\ live \subseteq Browser
    /\ jobs \subseteq Message
    /\ file \in FileState /\ seen \in FileState /\ prev \in FileState

(* An endpoint said to be gone is forgotten for good.                      *)
GoneIsGone == \A j \in jobs : j.gone \cap live = {}

(* What a pass has read of the file is the file's, or an older one's.      *)
PassBehindFile ==
    /\ loop \in {"info", "word"} => seen.time <= file.time
    /\ loop = "word" /\ seen.time = file.time => seen.word = file.word

PushInv == PushTypes /\ GoneIsGone /\ PassBehindFile /\ SubscribersKept

(* Held by every step: of a browser, a hook, a message or a pass.          *)
LEMMA PushInvariant == PushSpec => []PushInv
<1>1. PushInit => PushInv
  BY DEF PushInit, PushInv, PushTypes, GoneIsGone, PassBehindFile, SubscribersKept, Message,
         FileState, Word, Unseen
<1>2. PushInv /\ [PushNext]_pushVars => PushInv'
  <2> SUFFICES ASSUME PushInv, [PushNext]_pushVars PROVE PushInv'
    OBVIOUS
  <2> USE DEF PushInv
  <2> DEFINE Stays == GoneIsGone' /\ SubscribersKept'
             AfterIt == file' \in FileState /\ seen' \in FileState /\ prev' \in FileState
                         /\ PassBehindFile'
  <2>0. ASSUME UNCHANGED <<subs, live, wanted, jobs>>, AfterIt PROVE PushInv'
    BY <2>0 DEF PushTypes, GoneIsGone, SubscribersKept
  <2>j. ASSUME UNCHANGED <<file, loop, seen, prev>>, UNCHANGED live, UNCHANGED <<subs, wanted>>,
               UNCHANGED jobs \/ pushAll
        PROVE PushInv'
    <3> DEFINE m == [to |-> subs, list |-> subs, gone |-> {}]
    <3> SUFFICES ASSUME jobs' = jobs \union {m}
                 PROVE PushInv'
      BY <2>j DEF PushTypes, GoneIsGone, SubscribersKept, PassBehindFile, pushAll
    <3>1. m \in Message /\ m.gone = {}
      BY DEF PushTypes, Message
    <3> HIDE DEF m
    <3> QED BY <2>j, <3>1 DEF PushTypes, GoneIsGone, SubscribersKept, PassBehindFile
  <2>1. CASE UNCHANGED pushVars
    BY <2>1, <2>0 DEF pushVars, PushTypes, PassBehindFile
  <2>2. ASSUME NEW b \in Browser, Subscribe(b) \/ Unsubscribe(b) \/ Expire(b) PROVE PushInv'
    BY <2>2 DEF Subscribe, Unsubscribe, Expire, PushTypes, GoneIsGone, SubscribersKept, PassBehindFile
  <2>3. ASSUME NEW word \in Word, HookWrites(word) PROVE PushInv'
    <3>1. file' \in FileState /\ file'.time = file.time + 1
      BY <2>3 DEF HookWrites, PushTypes, FileState
    <3>2. PassBehindFile'
      BY <2>3, <3>1 DEF HookWrites, PushTypes, FileState, PassBehindFile
    <3> QED BY <2>0, <2>3, <3>1, <3>2 DEF HookWrites, PushTypes
  <2>4. CASE PersonTypes \/ MinutePasses \/ Restart
    BY <2>4, <2>0 DEF PersonTypes, MinutePasses, Restart, PushTypes, PassBehindFile
  <2>5. CASE pushChatEnd
    BY <2>5, <2>j DEF pushChatEnd
  <2>6. CASE ReadTime
    <3>1. seen' \in FileState /\ seen'.time = file.time
      BY <2>6 DEF ReadTime, PushTypes, FileState
    <3> QED BY <2>0, <2>6, <3>1 DEF ReadTime, PushTypes, PassBehindFile, FileState
  <2>7. CASE ReadWord
    <3>1. seen' \in FileState /\ seen'.time = seen.time /\ seen'.word = file.word
      BY <2>7 DEF ReadWord, PushTypes, FileState
    <3> QED BY <2>0, <2>7, <3>1 DEF ReadWord, PushTypes, PassBehindFile
  <2>8. CASE ComparePasses
    <3>1. jobs' = jobs \/ pushAll
      BY <2>8 DEF ComparePasses
    <3>2. prev' \in FileState /\ PassBehindFile'
      BY <2>8 DEF ComparePasses, PushTypes, PassBehindFile
    <3>3. jobs' \subseteq Message /\ GoneIsGone'
      <4> DEFINE m == [to |-> subs, list |-> subs, gone |-> {}]
      <4>1. m \in Message /\ m.gone = {}
        BY DEF PushTypes, Message
      <4>2. jobs' = jobs \/ jobs' = jobs \union {m}
        BY <3>1 DEF pushAll
      <4> HIDE DEF m
      <4> QED BY <2>8, <4>1, <4>2 DEF ComparePasses, PushTypes, GoneIsGone
    <3> QED BY <2>8, <3>2, <3>3 DEF ComparePasses, PushTypes, SubscribersKept
  <2>9. ASSUME NEW j \in jobs, DropGone(j) PROVE PushInv'
    <3>1. jobs' \subseteq jobs /\ subs \ j.gone \subseteq subs' /\ subs' \subseteq subs
      BY <2>9 DEF DropGone
    <3>2. j.gone \cap live = {}
      BY DEF GoneIsGone
    <3> QED BY <2>9, <3>1, <3>2 DEF DropGone, PushTypes, GoneIsGone, SubscribersKept, PassBehindFile
  <2>10. ASSUME NEW j \in jobs, NEW b \in Browser, sendPush(j, b) PROVE PushInv'
    <3> DEFINE k == [j EXCEPT !.to = @ \ {b}, !.gone = IF b \in live THEN @ ELSE @ \union {b}]
    <3>1. j \in Message /\ j.gone \cap live = {}
      BY DEF PushTypes, GoneIsGone
    <3>2. k \in Message /\ k.gone \cap live = {}
      BY <3>1 DEF Message
    <3>3. jobs' = (jobs \ {j}) \union {k}
      BY <2>10 DEF sendPush
    <3> HIDE DEF k
    <3> QED BY <2>10, <3>2, <3>3 DEF sendPush, PushTypes, GoneIsGone, SubscribersKept, PassBehindFile
  <2>11. CASE Crash
    BY <2>11 DEF Crash, PushTypes, GoneIsGone, SubscribersKept, PassBehindFile, Unseen, FileState, Word
  <2> QED BY <2>1, <2>2, <2>3, <2>4, <2>5, <2>6, <2>7, <2>8, <2>9, <2>10, <2>11
       DEF PushNext, Pass, Send
<1> QED BY <1>1, <1>2, PTL DEF PushSpec

(* A browser that is subscribed and alive stays on the list: only the ones *)
(* some push service called gone leave it, and those are gone for good     *)
(* (pushAll).                                                              *)
THEOREM SubscribersStay == PushSpec => []SubscribersKept
<1>1. PushInv => SubscribersKept
  BY DEF PushInv
<1> QED BY <1>1, PushInvariant, PTL

(* No pass takes note of the time of a state file that says done and       *)
(* leaves that turn end out (agentTurnEnds): a word read of a newer file   *)
(* comes with an older time, and the next pass sees the time move.         *)
THEOREM NoTurnEndLeftOut == PushSpec => TurnEndsHandled
<1> DEFINE Handled == prev.time \in 1 .. prev'.time - 1 /\ file = [time |-> prev'.time, word |-> "done"]
                        => prev'.time \in handled'
<1>1. PushInv /\ [PushNext]_pushVars => [Handled]_pushVars
  <2> SUFFICES ASSUME PushInv, PushNext, prev.time \in 1 .. prev'.time - 1,
                      file = [time |-> prev'.time, word |-> "done"]
               PROVE prev'.time \in handled'
    OBVIOUS
  <2>1. prev' /= prev
    BY DEF PushInv, PushTypes, FileState
  <2>2. prev' /= Unseen
    BY DEF Unseen, PushInv, PushTypes, FileState
  <2>3. ComparePasses
    BY <2>1, <2>2 DEF PushNext, Pass, Send, Subscribe, Unsubscribe, Expire, HookWrites, PersonTypes,
       MinutePasses, pushChatEnd, ReadTime, ReadWord, DropGone, sendPush, Crash, Restart
  <2>4. prev' = seen /\ seen.time = file.time /\ loop = "word"
    BY <2>3 DEF ComparePasses
  <2>5. seen.word = "done"
    BY <2>4 DEF PushInv, PassBehindFile
  <2>6. TurnEnded(prev, seen)
    BY <2>4, <2>5 DEF TurnEnded, PushInv, PushTypes, FileState
  <2> QED BY <2>3, <2>4, <2>6 DEF ComparePasses
<1> QED BY <1>1, PushInvariant, PTL DEF PushSpec, TurnEndsHandled

-----------------------------------------------------------------------------
(* The pings' databases.                                                   *)
Dest == [id : Id, host : Host]

PingTypes ==
    /\ targets \in [Id -> Host \union {None}]
    /\ rrd = [i \in Id |-> rrd[i]]
    /\ todo \subseteq Dest
    /\ removing \subseteq Id

(* What the loop writes is on the list; if it is not any more, its Delete  *)
(* waits for fileMu, or never came to remove anything.                     *)
WritesKnown ==
    pingLoop \in {"write", "note"} => cur \in Dest /\ cur.id \in listed \union removing \union orphans

PingInv == PingTypes /\ WritesKnown /\ NoStrayDatabase

(* Every step of the loop, of a request and a crash keeps it.              *)
LEMMA PingInvariant == PingSpec => []PingInv
<1>1. PingInit => PingInv
  BY DEF PingInit, PingInv, PingTypes, WritesKnown, NoStrayDatabase
<1>2. PingInv /\ [PingNext]_pingVars => PingInv'
  <2> SUFFICES ASSUME PingInv, [PingNext]_pingVars PROVE PingInv'
    OBVIOUS
  <2> USE DEF PingInv
  <2> DEFINE Known == listed \union removing \union orphans
  <2>0. ASSUME PingTypes', Known \subseteq Known', UNCHANGED <<cur, rrd>>,
               pingLoop' \in {"write", "note"} => pingLoop \in {"write", "note"}
        PROVE PingInv'
    BY <2>0 DEF WritesKnown, NoStrayDatabase, PingTypes
  <2>1. CASE UNCHANGED pingVars
    BY <2>0, <2>1 DEF pingVars, PingTypes, listed
  <2>2. CASE PingTick
    BY <2>0, <2>2 DEF PingTick, PingTypes, listed
  <2>3. ASSUME NEW host \in Host, Add(host) PROVE PingInv'
    BY <2>0, <2>3, HostAssumption DEF Add, PingTypes, listed
  <2>4. ASSUME NEW id \in Id, NEW host \in Host, Edit(id, host) PROVE PingInv'
    BY <2>0, <2>4, HostAssumption DEF Edit, PingTypes, listed
  <2>5. ASSUME NEW id \in Id, Delete(id) PROVE PingInv'
    BY <2>0, <2>5 DEF Delete, PingTypes, listed
  <2>6. ASSUME NEW id \in Id, Remove(id) PROVE PingInv'
    <3>1. rrd' = [i \in Id |-> rrd'[i]] /\ rrd'[id] = 0 /\ \A i \in Id \ {id} : rrd'[i] = rrd[i]
      BY <2>6 DEF Remove, PingTypes
    <3>2. pingLoop' \notin {"write", "note"}
      BY <2>6 DEF Remove, FileFree
    <3> QED BY <2>6, <3>1, <3>2 DEF Remove, PingTypes, WritesKnown, NoStrayDatabase, listed
  <2>7. CASE FreshRound \/ Round
    <3>1. \A asap \in BOOLEAN : Due(asap) \subseteq Dest
      BY HostAssumption DEF Due, listed, Dest, PingTypes
    <3> QED BY <2>0, <2>7, <3>1 DEF FreshRound, Round, Measure, PingTypes, listed
  <2>8. CASE Pinged
    BY <2>0, <2>8 DEF Pinged, PingTypes, listed
  <2>9. CASE Check
    <3>1. CASE todo = {}
      BY <2>0, <2>9, <3>1 DEF Check, PingTypes, listed
    <3>2. ASSUME NEW tg \in todo, todo' = todo \ {tg}, Still(tg), cur' = tg,
                 UNCHANGED <<targets, rrd, removing, orphans>>
          PROVE PingInv'
      <4>1. tg \in Dest /\ tg.id \in listed
        BY <3>2, HostAssumption DEF Still, PingTypes, Dest, listed
      <4> QED BY <3>2, <4>1 DEF PingTypes, WritesKnown, NoStrayDatabase, listed
    <3>3. ASSUME NEW tg \in todo, todo' = todo \ {tg}, ~Still(tg), cur' = cur, pingLoop' = "check",
                 UNCHANGED <<targets, rrd, removing, orphans>>
          PROVE PingInv'
      BY <2>0, <3>3 DEF PingTypes, listed
    <3> QED BY <2>9, <3>1, <3>2, <3>3 DEF Check
  <2>10. CASE write \/ WriteFails
    <3>1. cur \in Dest /\ cur.id \in Known /\ cur.id \in Id
      BY <2>10 DEF write, WriteFails, WritesKnown, Dest
    <3>2. rrd' = [i \in Id |-> rrd'[i]] /\ \A i \in Id \ {cur.id} : rrd'[i] = rrd[i]
      BY <2>10, <3>1 DEF write, WriteFails, PingTypes
    <3> QED BY <2>10, <3>1, <3>2 DEF write, WriteFails, PingTypes, WritesKnown, NoStrayDatabase, listed
  <2>11. CASE Note
    BY <2>0, <2>11 DEF Note, PingTypes, listed
  <2>12. CASE PingCrash
    BY <2>0, <2>12 DEF PingCrash, PingTypes, listed
  <2>13. CASE recall
    BY <2>0, <2>13 DEF recall, PingTypes, listed
  <2> QED BY <2>1, <2>2, <2>3, <2>4, <2>5, <2>6, <2>7, <2>8, <2>9, <2>10, <2>11, <2>12, <2>13 DEF PingNext
<1> QED BY <1>1, <1>2, PTL DEF PingSpec

(* A destination taken out mid-round does not come back as a new file      *)
(* (ping.go, fileMu), but where a crash cut its Delete short.              *)
THEOREM NoDatabaseStrays == PingSpec => []NoStrayDatabase
<1>1. PingInv => NoStrayDatabase
  BY DEF PingInv
<1> QED BY <1>1, PingInvariant, PTL

-----------------------------------------------------------------------------
(* Cloudflare's figures.                                                   *)
AnEntry == [on : BOOLEAN, kept : BOOLEAN, at : Int, failed : BOOLEAN, errAt : Int, flight : BOOLEAN]

ViewsTypes ==
    /\ now \in Int
    /\ entry \in [View -> AnEntry]
    /\ flights \in [View -> Nat]

(* An entry that flies is there.                                           *)
FliersOn(e) == \A v \in View : e[v].flight => e[v].on

FetchInv == ViewsTypes /\ FliersOn(entry) /\ OneFetchPerView

(* A new entry, and none, do not fly.                                      *)
LEMMA EntryTypes == /\ NewEntry \in AnEntry /\ NoEntry \in AnEntry
                    /\ ~NewEntry.flight /\ ~NoEntry.flight /\ NewEntry.on
<1>1. NewEntry \in AnEntry /\ ~NewEntry.flight /\ NewEntry.on
  BY LivesAssumption DEF NewEntry, AnEntry, Long
<1>2. [NewEntry EXCEPT !.on = FALSE] \in AnEntry /\ ~[NewEntry EXCEPT !.on = FALSE].flight
  BY <1>1 DEF AnEntry
<1> QED BY <1>1, <1>2 DEF NoEntry

(* Sweeping drops no entry that flies.                                     *)
LEMMA SweptTypes ==
  ASSUME FetchInv
  PROVE  /\ Swept(entry) \in [View -> AnEntry] /\ FliersOn(Swept(entry))
         /\ \A v \in View : Swept(entry)[v].flight = entry[v].flight
<1>1. ASSUME NEW v \in View
      PROVE /\ Swept(entry)[v] \in AnEntry /\ Swept(entry)[v].flight = entry[v].flight
            /\ Swept(entry)[v].flight => Swept(entry)[v].on
  <2>1. CASE Swept(entry)[v] = entry[v]
    BY <2>1 DEF FetchInv, ViewsTypes, FliersOn
  <2>2. CASE Swept(entry)[v] /= entry[v]
    <3>1. ~entry[v].flight /\ Swept(entry)[v] = NoEntry
      BY <2>2 DEF Swept
    <3>2. entry[v].flight \in BOOLEAN /\ NoEntry.flight \in BOOLEAN
      BY EntryTypes DEF FetchInv, ViewsTypes, AnEntry
    <3>3. entry[v].flight = NoEntry.flight
      BY <3>1, <3>2, EntryTypes
    <3> QED BY <3>1, <3>3, EntryTypes
  <2> QED BY <2>1, <2>2
<1>2. Swept(entry) = [v \in View |-> Swept(entry)[v]]
  BY DEF Swept
<1> QED BY <1>1, <1>2 DEF FliersOn

Made(e, v) == [e EXCEPT ![v] = IF e[v].on THEN e[v] ELSE NewEntry]

(* An entry is made where there is none: the one there does not fly.       *)
LEMMA MadeTypes ==
  ASSUME FetchInv, NEW e \in [View -> AnEntry], FliersOn(e),
         \A w \in View : e[w].flight = entry[w].flight, NEW v \in View
  PROVE  /\ Made(e, v) \in [View -> AnEntry] /\ FliersOn(Made(e, v)) /\ Made(e, v)[v].on
         /\ \A w \in View : Made(e, v)[w].flight = entry[w].flight
<1> DEFINE x == IF e[v].on THEN e[v] ELSE NewEntry
<1>0. Made(e, v) = [e EXCEPT ![v] = x]
  BY DEF Made
<1>1. CASE x = e[v] /\ e[v].on
  <2>1. Made(e, v) = e
    BY <1>0, <1>1
  <2> QED BY <2>1, <1>1
<1>2. CASE x = NewEntry /\ ~e[v].on
  <2>1. x \in AnEntry /\ x.flight \in BOOLEAN /\ e[v].flight \in BOOLEAN
    BY <1>2, EntryTypes DEF AnEntry
  <2>2. ~x.flight /\ ~e[v].flight
    BY <1>2, EntryTypes DEF FliersOn
  <2>3. x.flight = e[v].flight
    BY <2>1, <2>2
  <2>4. x.on
    BY <1>2, EntryTypes
  <2> HIDE DEF x
  <2> QED BY <1>0, <2>1, <2>2, <2>3, <2>4 DEF FliersOn
<1> QED BY <1>1, <1>2

(* A fetch begins for v: nobody flew for it, and one does now.             *)
LEMMA TakesOff ==
  ASSUME FetchInv, NEW e \in [View -> AnEntry], NEW v \in View, UNCHANGED now, FliersOn(e), e[v].on,
         \A w \in View : e[w].flight = entry[w].flight, ~e[v].flight, entry' = Fly(e, v), Flies(v)
  PROVE  FetchInv'
<1>1. entry' \in [View -> AnEntry] /\ entry'[v].flight /\ entry'[v].on
      /\ \A w \in View \ {v} : entry'[w] = e[w]
  <2>1. [e[v] EXCEPT !.flight = TRUE] \in AnEntry /\ [e[v] EXCEPT !.flight = TRUE].flight
        /\ [e[v] EXCEPT !.flight = TRUE].on = e[v].on
    BY DEF AnEntry
  <2> QED BY <2>1 DEF Fly
<1>2. flights[v] \in Nat /\ flights[v] <= 1 /\ flights[v] /= 1
  <2>1. ~entry[v].flight
    OBVIOUS
  <2> QED BY <2>1 DEF FetchInv, ViewsTypes, OneFetchPerView
<1>3. flights' \in [View -> Nat] /\ flights'[v] = 1 /\ \A w \in View \ {v} : flights'[w] = flights[w]
  BY <1>2 DEF Flies, FetchInv, ViewsTypes
<1>4. \A w \in View : /\ entry'[w].flight => entry'[w].on
                      /\ flights'[w] <= 1 /\ (flights'[w] = 1 <=> entry'[w].flight)
  <2> TAKE w \in View
  <2>1. CASE w = v
    BY <2>1, <1>1, <1>3
  <2>2. CASE w /= v
    BY <2>2, <1>1, <1>3 DEF FetchInv, OneFetchPerView, FliersOn
  <2> QED BY <2>1, <2>2
<1> QED BY <1>1, <1>3, <1>4 DEF FetchInv, ViewsTypes, OneFetchPerView, FliersOn

(* Entries change, but none begins or ends to fly.                         *)
LEMMA KeepsFlying ==
  ASSUME FetchInv, entry' \in [View -> AnEntry], FliersOn(entry)', UNCHANGED flights, now' \in Int,
         \A w \in View : entry'[w].flight = entry[w].flight
  PROVE  FetchInv'
BY DEF FetchInv, ViewsTypes, OneFetchPerView

(* Requests, the ends of fetches and warming queries keep it.              *)
LEMMA FetchInvariant == ViewsSpec => []FetchInv
<1>1. ViewsInit => FetchInv
  <2> SUFFICES ASSUME ViewsInit PROVE FetchInv
    OBVIOUS
  <2>1. \A v \in View : entry[v] = NoEntry /\ flights[v] = 0
    BY DEF ViewsInit
  <2> QED BY <2>1, EntryTypes DEF ViewsInit, FetchInv, ViewsTypes, OneFetchPerView, FliersOn
<1>2. FetchInv /\ [ViewsNext]_viewsVars => FetchInv'
  <2> SUFFICES ASSUME FetchInv, [ViewsNext]_viewsVars PROVE FetchInv'
    OBVIOUS
  <2>1. now \in Int /\ entry \in [View -> AnEntry] /\ flights \in [View -> Nat] /\ FliersOn(entry)
    BY DEF FetchInv, ViewsTypes
  <2>2. CASE UNCHANGED <<entry, flights>> /\ now' \in Int
    <3>1. FliersOn(entry)'
      BY <2>1, <2>2 DEF FliersOn
    <3> QED BY <2>1, <2>2, <3>1, KeepsFlying
  <2>3. CASE UNCHANGED viewsVars
    BY <2>1, <2>2, <2>3 DEF viewsVars
  <2>4. CASE Tick
    BY <2>1, <2>2, <2>4 DEF Tick
  <2>5. ASSUME NEW r \in Reader, GoAway(r) \/ Answer(r) PROVE FetchInv'
    BY <2>1, <2>2, <2>5 DEF GoAway, Answer
  <2>6. ASSUME NEW r \in Reader, NEW v \in View, NEW old \in BOOLEAN, Ask(r, v, old) PROVE FetchInv'
    <3> DEFINE swept == Swept(entry)
               e == IF swept[v].on THEN swept[v] ELSE NewEntry
               here == [swept EXCEPT ![v] = e]
    <3>1. swept \in [View -> AnEntry] /\ FliersOn(swept)
          /\ \A w \in View : swept[w].flight = entry[w].flight
      BY SweptTypes
    <3>2. /\ here \in [View -> AnEntry] /\ FliersOn(here) /\ here[v] = e /\ e.on
          /\ \A w \in View : here[w].flight = entry[w].flight
      <4> HIDE DEF swept
      <4>1. here = Made(swept, v) /\ here[v] = e
        BY <3>1 DEF Made
      <4> HIDE DEF here, e
      <4> QED BY <3>1, <4>1, MadeTypes
    <3>3. UNCHANGED now /\ \/ entry' = here /\ UNCHANGED flights
                           \/ entry' = Fly(here, v) /\ Flies(v) /\ ~e.flight
      BY <2>6 DEF Ask
    <3> HIDE DEF here, e, swept
    <3> QED BY <2>1, <3>2, <3>3, TakesOff, KeepsFlying DEF FliersOn
  <2>7. ASSUME NEW v \in View, NEW ok \in BOOLEAN, NEW busy \in SUBSET HostView, FlightEnds(v, ok, busy)
        PROVE FetchInv'
    <3>1. flights[v] > 0 /\ flights' = [flights EXCEPT ![v] = @ - 1] /\ UNCHANGED now
          /\ entry' = Land(v, ok)
      BY <2>7 DEF FlightEnds
    <3>2. flights' \in [View -> Nat] /\ flights'[v] = 0 /\ \A w \in View \ {v} : flights'[w] = flights[w]
      BY <2>1, <3>1 DEF FetchInv, OneFetchPerView
    <3>3. entry' \in [View -> AnEntry] /\ ~entry'[v].flight /\ \A w \in View \ {v} : entry'[w] = entry[w]
      <4>1. entry[v] \in AnEntry
        BY <2>1
      <4>2. CASE ok
        BY <2>1, <3>1, <4>1, <4>2 DEF Land, AnEntry
      <4>3. CASE ~ok
        BY <2>1, <3>1, <4>1, <4>3 DEF Land, AnEntry
      <4> QED BY <4>2, <4>3
    <3>4. \A w \in View : /\ entry'[w].flight => entry'[w].on
                          /\ flights'[w] <= 1 /\ (flights'[w] = 1 <=> entry'[w].flight)
      <4> TAKE w \in View
      <4>1. CASE w = v
        BY <4>1, <3>2, <3>3
      <4>2. CASE w /= v
        BY <4>2, <3>2, <3>3 DEF FetchInv, OneFetchPerView, FliersOn
      <4> QED BY <4>1, <4>2
    <3> QED BY <2>1, <3>1, <3>2, <3>3, <3>4 DEF FetchInv, ViewsTypes, OneFetchPerView, FliersOn
  <2>8. ASSUME NEW v \in HostView, WarmOne(v) PROVE FetchInv'
    <3> DEFINE e == IF entry[v].on THEN entry[v] ELSE NewEntry
               here == [entry EXCEPT ![v] = e]
    <3>0. v \in View
      BY DEF View
    <3>2. /\ here \in [View -> AnEntry] /\ FliersOn(here) /\ here[v] = e /\ e.on
          /\ \A w \in View : here[w].flight = entry[w].flight
      <4>1. here = Made(entry, v) /\ here[v] = e
        BY <2>1, <3>0 DEF Made
      <4> HIDE DEF here, e
      <4> QED BY <2>1, <3>0, <4>1, MadeTypes
    <3>3. UNCHANGED now /\ \/ entry' = here /\ UNCHANGED flights
                           \/ entry' = Fly(here, v) /\ Flies(v) /\ ~e.flight
      BY <2>8 DEF WarmOne
    <3> HIDE DEF here, e
    <3> QED BY <2>1, <3>0, <3>2, <3>3, TakesOff, KeepsFlying DEF FliersOn
  <2> QED BY <2>3, <2>4, <2>5, <2>6, <2>7, <2>8 DEF ViewsNext, Lands
<1> QED BY <1>1, <1>2, PTL DEF ViewsSpec

(* A view is fetched once at a time, and an entry says so exactly while it *)
(* is (anFly): a sweep drops none that flies, and a warming query looks    *)
(* again once it has its slot.                                             *)
THEOREM OneFetchAtATime == ViewsSpec => []OneFetchPerView
<1>1. FetchInv => OneFetchPerView
  BY DEF FetchInv
<1> QED BY <1>1, FetchInvariant, PTL

-----------------------------------------------------------------------------
(* Price alerts.                                                           *)
Alert == [id : Nat, token : Token, at : Nat, heldBack : BOOLEAN]

Address == [slot : Nat, rec : Alert \cup {NoAlert}]

(* The types the proof needs.                                              *)
AlertTypes ==
    /\ alertNow \in Nat
    /\ alertDaemon \in {"down", "idle", "ruling", "telling"}
    /\ array \in Seq(Alert \cup {NoAlert}) /\ len \in 0 .. Len(array) /\ OnList \subseteq Alert
    /\ nextID \in Nat
    /\ fresh \in Seq(Address)
    /\ alertDisk.alerts \in Seq(Alert) /\ alertDisk.nextID \in Nat
    /\ made \subseteq Alert /\ told \in Seq(Alert)

(* What has passed the cap: alerts made, and those of a tick not yet saved. *)
Passed == made \cup {a \in OnList : ~a.heldBack}

(* The alerts made within the last day are on file, and on the list while  *)
(* the daemon runs: Recent counts them all.  What is not held back was     *)
(* made, or is of the tick whose rules are being applied.                  *)
OnRecord ==
    /\ \A a \in made \cup OnList \cup Range(alertDisk.alerts) : a.at <= alertNow
    /\ \A a \in made : ~a.heldBack
    /\ \A a \in made : alertNow - a.at < AlertDay =>
          a \in Range(alertDisk.alerts) /\ (alertDaemon # "down" => a \in OnList)
    /\ \A a \in Range(alertDisk.alerts) : ~a.heldBack => a \in made
    /\ \A a \in OnList : ~a.heldBack => a \in made \/ (alertDaemon = "ruling" /\ a.at = alertNow)

(* What a tick keeps of its alerts is on the list until it is cut, and what *)
(* is read there afterwards was made or is held back.                      *)
Addresses ==
    /\ alertDaemon \in {"down", "idle"} => fresh = <<>>
    /\ alertDaemon = "ruling" => \A f \in Range(fresh) : f.slot <= len /\ Read(f) \in OnList
    /\ alertDaemon = "telling" =>
          fresh # <<>> /\ \A f \in Range(fresh) : f.slot <= Len(array) /\ (Read(f).heldBack \/ Read(f) \in made)

InDay(S, k, u) == {a \in S : a.token = k /\ a.at \in u .. (u + AlertDay - 1)}

(* CapHolds, of all that has passed the cap.                               *)
InCap == \A k \in Token, u \in Nat : Cardinality(InDay(Passed, k, u)) <= AlertCap

AlertInv ==
    /\ AlertTypes /\ OnRecord /\ Addresses /\ InCap
    /\ IsFiniteSet(made) /\ Range(told) \subseteq made

LEMMA Smallest ==
    ASSUME NEW S, S \subseteq Nat, S # {}
    PROVE  \E s \in S : \A u \in S : s <= u
<1>1. PICK s \in S : \A u \in S : ~(<<u, s>> \in OpToRel(<, Nat))
  BY NatLessThanWellFounded, WFMin, Zenon
<1>2. \A u \in S : ~(u < s)
  BY <1>1 DEF OpToRel
<1> QED BY <1>2

LEMMA RangeOfAppend ==
    ASSUME NEW S, NEW s \in Seq(S), NEW e \in S
    PROVE  Range(Append(s, e)) = Range(s) \cup {e}
<1>1. Len(Append(s, e)) = Len(s) + 1 /\ Len(s) \in Nat /\ Append(s, e)[Len(s) + 1] = e
  OBVIOUS
<1>2. \A i \in 1 .. Len(s) : Append(s, e)[i] = s[i]
  OBVIOUS
<1>3. DOMAIN s = 1 .. Len(s) /\ DOMAIN Append(s, e) = 1 .. (Len(s) + 1)
  OBVIOUS
<1>4. 1 .. (Len(s) + 1) = (1 .. Len(s)) \cup {Len(s) + 1}
  BY <1>1
<1> DEFINE u == Append(s, e)
<1> HIDE DEF u
<1>5. {u[x] : x \in 1 .. (Len(s) + 1)} = {u[x] : x \in 1 .. Len(s)} \cup {u[Len(s) + 1]}
  BY <1>4
<1> QED BY <1>1, <1>2, <1>3, <1>5 DEF Range, u

LEMMA Joined ==
    ASSUME NEW S, NEW s \in Seq(S), NEW u \in Seq(S)
    PROVE  /\ s \o u \in Seq(S) /\ Len(s \o u) = Len(s) + Len(u)
           /\ \A i \in 1 .. Len(s) : (s \o u)[i] = s[i]
           /\ \A i \in 1 .. Len(u) : (s \o u)[Len(s) + i] = u[i]
<1>1. s \o u \in Seq(S)
  OBVIOUS
<1>2. Len(s \o u) = Len(s) + Len(u)
  OBVIOUS
<1>3. \A i \in 1 .. Len(s) : (s \o u)[i] = s[i]
  OBVIOUS
<1>4. \A i \in 1 .. Len(u) : (s \o u)[Len(s) + i] = u[i]
  OBVIOUS
<1> QED BY <1>1, <1>2, <1>3, <1>4

(* What the cut keeps: the alerts of the last two days, each of them.      *)
LEMMA WhatIsKept ==
    ASSUME AlertTypes
    PROVE  /\ Kept \in Seq(Alert) /\ Len(Kept) <= len
           /\ Range(Kept) = {a \in OnList : alertNow - a.at < 2 * AlertDay}
<1> DEFINE young(i) == alertNow - array[i].at < 2 * AlertDay
           grow(f, i) == IF i = 0 THEN <<>>
                         ELSE IF young(i) THEN Append(f[i - 1], array[i])
                         ELSE f[i - 1]
           IsUpTo(f, n) == f = [i \in 0 .. n |-> grow(f, i)]
<1>0. len \in Nat /\ \A i \in 1 .. len : array[i] \in Alert
  BY DEF AlertTypes, OnList
<1>1. \A n \in Nat : \E f : IsUpTo(f, n)
  <2> DEFINE P == {n \in Nat : ~ \E f : IsUpTo(f, n)}
  <2> SUFFICES ASSUME P # {} PROVE FALSE
    OBVIOUS
  <2>1. PICK m \in P : \A n \in P : m <= n
    <3> HIDE DEF IsUpTo
    <3> QED BY Smallest
  <2>2. IsUpTo([i \in 0 .. 0 |-> <<>>], 0)
    OBVIOUS
  <2>3. m \in Nat /\ m # 0
    <3> HIDE DEF IsUpTo
    <3> QED BY <2>1, <2>2
  <2>4. m - 1 \in Nat /\ m - 1 \notin P
    <3> HIDE DEF P
    <3> QED BY <2>1, <2>3
  <2>5. PICK f : IsUpTo(f, m - 1)
    BY <2>4
  <2> DEFINE g == [i \in 0 .. m |-> IF i < m THEN f[i] ELSE grow(f, m)]
  <2>6. \A i \in 0 .. m : g[i] = grow(g, i)
    <3> SUFFICES ASSUME NEW i \in 0 .. m PROVE g[i] = grow(g, i)
      OBVIOUS
    <3>1. i # 0 => g[i - 1] = f[i - 1]
      BY <2>3
    <3>2. grow(g, i) = grow(f, i)
      <4> HIDE DEF g
      <4> QED BY <3>1
    <3>3. i < m => f[i] = grow(f, i)
      <4> HIDE DEF grow
      <4> QED BY <2>3, <2>5
    <3>4. g[i] = IF i < m THEN f[i] ELSE grow(f, m)
      BY DEF g
    <3>5. i < m \/ i = m
      BY <2>3
    <3> HIDE DEF g, grow
    <3> QED BY <3>2, <3>3, <3>4, <3>5
  <2>7. IsUpTo(g, m)
    <3> HIDE DEF grow
    <3>1. g = [i \in 0 .. m |-> g[i]]
      OBVIOUS
    <3> HIDE DEF g
    <3> QED BY <3>1, <2>6
  <2> QED BY <2>1, <2>7
<1>2. PICK f : IsUpTo(f, len) /\ Kept = f[len]
  <2> DEFINE f == CHOOSE f : IsUpTo(f, len)
  <2>1. IsUpTo(f, len)
    <3> HIDE DEF IsUpTo
    <3> QED BY <1>0, <1>1
  <2>2. Kept = f[len]
    BY DEF Kept
  <2> HIDE DEF f, IsUpTo
  <2> QED BY <2>1, <2>2
<1> DEFINE Good(n) == /\ f[n] \in Seq(Alert) /\ Len(f[n]) <= n
                      /\ Range(f[n]) = {array[i] : i \in {j \in 1 .. n : young(j)}}
<1>3. \A i \in 0 .. len : f[i] = grow(f, i)
  <2> HIDE DEF grow
  <2> QED BY <1>2
<1>4. Good(0)
  <2>1. f[0] = <<>>
    BY <1>3, <1>0
  <2> QED BY <2>1 DEF Range
<1>5. ASSUME NEW n \in 1 .. len, Good(n - 1) PROVE Good(n)
  <2> DEFINE s == f[n - 1]
             young1 == {j \in 1 .. (n - 1) : young(j)}
             young2 == {j \in 1 .. n : young(j)}
  <2>1. s \in Seq(Alert) /\ Len(s) <= n - 1 /\ Range(s) = {array[i] : i \in young1} /\ array[n] \in Alert
    BY <1>0, <1>5
  <2>2. f[n] = IF young(n) THEN Append(s, array[n]) ELSE s
    BY <1>0, <1>3
  <2>3. young2 = IF young(n) THEN young1 \cup {n} ELSE young1
    <3>1. 1 .. n = (1 .. (n - 1)) \cup {n}
      BY <1>0
    <3> HIDE DEF young
    <3> QED BY <3>1
  <2> HIDE DEF s, young1
  <2>4. Range(Append(s, array[n])) = Range(s) \cup {array[n]}
    BY <2>1, RangeOfAppend
  <2>5. {array[i] : i \in young1 \cup {n}} = {array[i] : i \in young1} \cup {array[n]}
    OBVIOUS
  <2>6. CASE young(n)
    <3> HIDE DEF young
    <3>1. f[n] = Append(s, array[n]) /\ young2 = young1 \cup {n}
      BY <2>2, <2>3, <2>6
    <3>2. Append(s, array[n]) \in Seq(Alert) /\ Len(Append(s, array[n])) = Len(s) + 1 /\ Len(s) \in Nat
      BY <2>1
    <3> HIDE DEF young2
    <3>3. Range(f[n]) = {array[i] : i \in young2}
      BY <2>1, <2>4, <2>5, <3>1
    <3> QED BY <2>1, <3>1, <3>2, <3>3, <1>0 DEF young2
  <2>7. CASE ~young(n)
    <3> HIDE DEF young
    <3>1. f[n] = s /\ young2 = young1
      BY <2>2, <2>3, <2>7
    <3> QED BY <2>1, <3>1, <1>0
  <2> QED BY <2>6, <2>7
<1>6. \A n \in 0 .. len : Good(n)
  <2> DEFINE P == {n \in 0 .. len : ~Good(n)}
  <2> HIDE DEF Good
  <2> SUFFICES ASSUME P # {} PROVE FALSE
    OBVIOUS
  <2>1. PICK m \in P : \A n \in P : m <= n
    <3>1. P \subseteq Nat
      BY <1>0
    <3> HIDE DEF P
    <3> QED BY <3>1, Smallest
  <2>2. m # 0 /\ m \in 1 .. len /\ m - 1 \in 0 .. len /\ m - 1 \notin P
    BY <1>0, <1>4, <2>1
  <2> QED BY <1>5, <2>1, <2>2
<1>7. Good(len)
  <2> HIDE DEF Good
  <2> QED BY <1>0, <1>6
<1>8. {array[i] : i \in {j \in 1 .. len : young(j)}} = {a \in OnList : alertNow - a.at < 2 * AlertDay}
  BY DEF OnList
<1> QED BY <1>2, <1>7, <1>8

(* An append moves the list or extends it: either way rec joins it, and    *)
(* every address kept reads an alert that is on it.                        *)
LEMMA AppendKeepsAddresses ==
    ASSUME AlertTypes, \A f \in Range(fresh) : f.slot <= len /\ Read(f) \in OnList,
           NEW rec \in Alert, Appended(rec)
    PROVE  /\ array' \in Seq(Alert \cup {NoAlert}) /\ len' \in 0 .. Len(array')
           /\ OnList' = OnList \cup {rec}
           /\ fresh' \in Seq(Address)
           /\ \A f \in Range(fresh') : f.slot <= len' /\ Read(f)' \in OnList'
<1>0. /\ array \in Seq(Alert \cup {NoAlert}) /\ len \in Nat /\ len <= Len(array) /\ Len(array) \in Nat
      /\ fresh \in Seq(Address) /\ OnList \subseteq Alert /\ len' = len + 1
  BY DEF AlertTypes, Appended, Address
<1>1. /\ array' \in Seq(Alert \cup {NoAlert}) /\ len' <= Len(array')
      /\ array'[len + 1] = rec /\ \A i \in 1 .. len : array'[i] = array[i]
  <2>1. CASE len < Len(array)
    <3>1. array' = [array EXCEPT ![len + 1] = rec]
      BY <2>1 DEF Appended
    <3> QED BY <1>0, <2>1, <3>1
  <2>2. CASE ~(len < Len(array))
    <3> DEFINE more == [i \in 1 .. (IF len < 2 THEN 0 ELSE len - 1) |-> NoAlert]
               start == array \o <<rec>>
    <3>1. array' = start \o more
      BY <2>2 DEF Appended, Grown
    <3>2. more \in Seq(Alert \cup {NoAlert}) /\ Len(more) \in Nat
      BY <1>0
    <3>3. start \in Seq(Alert \cup {NoAlert}) /\ Len(start) = len + 1 /\ start[len + 1] = rec
          /\ \A i \in 1 .. len : start[i] = array[i]
      BY <1>0, <2>2
    <3> HIDE DEF more, start
    <3>4. array' \in Seq(Alert \cup {NoAlert}) /\ Len(array') = Len(start) + Len(more)
          /\ \A i \in 1 .. Len(start) : array'[i] = start[i]
      BY <3>1, <3>2, <3>3, Joined
    <3> QED BY <1>0, <3>2, <3>3, <3>4
  <2> QED BY <2>1, <2>2
<1>2. OnList' = OnList \cup {rec}
  <2>1. 1 .. len' = (1 .. len) \cup {len + 1}
    BY <1>0
  <2>2. OnList' = {array'[i] : i \in 1 .. len} \cup {array'[len + 1]}
    BY <2>1 DEF OnList
  <2> QED BY <1>1, <2>2 DEF OnList
<1>3. Slot(len + 1) \in Address /\ Slot(len + 1).slot = len + 1
  BY <1>0 DEF Slot, Address
<1>5. \A f \in Range(fresh) : f \in Address
  BY <1>0 DEF Range
<1>6. \A i \in 1 .. len : array'[i] \in OnList'
  BY <1>1, <1>2 DEF OnList
<1>7. CASE len < Len(array)
  <2>1. fresh' = Append(fresh, Slot(len + 1))
    BY <1>7 DEF Appended
  <2>2. fresh' \in Seq(Address) /\ Range(fresh') = Range(fresh) \cup {Slot(len + 1)}
    BY <1>0, <1>3, <2>1, RangeOfAppend
  <2>3. ASSUME NEW f \in Range(fresh) PROVE f.slot <= len' /\ Read(f)' \in OnList'
    <3>1. f.slot \in Nat /\ f.slot <= len
      BY <1>5, <2>3 DEF Address
    <3>2. CASE f.slot > 0
      BY <3>1, <3>2, <1>0, <1>6 DEF Read
    <3>3. CASE f.slot = 0
      BY <3>3, <1>0, <1>2 DEF Read
    <3> QED BY <3>1, <3>2, <3>3
  <2>4. \A f \in {Slot(len + 1)} : f.slot <= len' /\ Read(f)' \in OnList'
    BY <1>0, <1>1, <1>2, <1>3 DEF Read
  <2> QED BY <1>0, <1>1, <1>2, <2>2, <2>3, <2>4
<1>8. CASE ~(len < Len(array))
  <2> DEFINE copies == [i \in DOMAIN fresh |-> Copy(Read(fresh[i]))]
  <2>1. fresh' = Append(copies, Slot(len + 1))
    BY <1>8 DEF Appended
  <2>2. \A i \in DOMAIN fresh : Read(fresh[i]) \in OnList
    BY DEF Range
  <2>3. copies \in Seq(Address)
    <3>1. \A i \in DOMAIN fresh : Copy(Read(fresh[i])) \in Address
      BY <1>0, <2>2 DEF Copy, Address
    <3>2. DOMAIN fresh = 1 .. Len(fresh) /\ Len(fresh) \in Nat
      BY <1>0
    <3> QED BY <3>1, <3>2
  <2>4. fresh' \in Seq(Address) /\ Range(fresh') = Range(copies) \cup {Slot(len + 1)}
    <3> HIDE DEF copies
    <3> QED BY <1>3, <2>1, <2>3, RangeOfAppend
  <2>5. \A f \in Range(copies) : f.slot = 0 /\ f.rec \in OnList
    BY <2>2 DEF Range, Copy
  <2>6. \A f \in Range(copies) : f.slot <= len' /\ Read(f)' \in OnList'
    <3> HIDE DEF copies
    <3> QED BY <1>0, <1>2, <2>5 DEF Read
  <2>7. \A f \in {Slot(len + 1)} : f.slot <= len' /\ Read(f)' \in OnList'
    BY <1>0, <1>1, <1>2, <1>3 DEF Read
  <2> QED BY <1>0, <1>1, <1>2, <2>4, <2>6, <2>7
<1> QED BY <1>7, <1>8

LEMMA PassedIsFinite ==
    ASSUME AlertTypes, IsFiniteSet(made)
    PROVE  IsFiniteSet(OnList) /\ IsFiniteSet(Passed)
<1>1. IsFiniteSet(1 .. len)
  BY FS_Interval DEF AlertTypes
<1>2. IsFiniteSet({array[i] : i \in 1 .. len})
  <2> DEFINE f == [i \in 1 .. len |-> array[i]]
  <2>1. f \in Surjection(1 .. len, OnList)
    BY DEF Surjection, OnList
  <2> QED BY <1>1, <2>1, FS_Surjection DEF OnList
<1>3. IsFiniteSet({a \in OnList : ~a.heldBack})
  BY <1>2, FS_Subset DEF OnList
<1> QED BY <1>2, <1>3, FS_Union DEF OnList, Passed

LEMMA FewerPassed ==
    ASSUME AlertTypes, IsFiniteSet(made), InCap, Passed' \subseteq Passed
    PROVE  InCap'
<1> SUFFICES ASSUME NEW k \in Token, NEW u \in Nat
             PROVE  Cardinality(InDay(Passed, k, u)') <= AlertCap
  BY DEF InCap
<1>1. InDay(Passed, k, u)' \subseteq InDay(Passed, k, u) /\ InDay(Passed, k, u) \subseteq Passed
  BY DEF InDay
<1>2. IsFiniteSet(InDay(Passed, k, u))
  BY <1>1, PassedIsFinite, FS_Subset
<1>3. /\ Cardinality(InDay(Passed, k, u)') <= Cardinality(InDay(Passed, k, u))
      /\ Cardinality(InDay(Passed, k, u)') \in Nat /\ Cardinality(InDay(Passed, k, u)) \in Nat
  BY <1>1, <1>2, FS_Subset, FS_CardinalityType
<1>4. Cardinality(InDay(Passed, k, u)) <= AlertCap
  BY DEF InCap
<1> QED BY <1>3, <1>4, AlertAssumption

(* alertStep appends where the last day has room for another.              *)
LEMMA RuleKeeps ==
    ASSUME AlertInv, NEW token \in Token, NEW quote \in Quote, alertStep(token, quote)
    PROVE  AlertInv'
<1> DEFINE rec == [id |-> nextID, token |-> token, at |-> alertNow,
                   heldBack |-> Cardinality(Recent(token)) >= AlertCap]
<1>0. /\ AlertTypes /\ OnRecord /\ Addresses /\ InCap /\ IsFiniteSet(made) /\ Range(told) \subseteq made
      /\ alertDaemon = "ruling" /\ UNCHANGED <<alertNow, alertDaemon, alertDisk, told, made>>
  BY DEF AlertInv, alertStep
<1>1. CASE UNCHANGED list
  <2>1. UNCHANGED <<array, len, nextID, fresh>>
    BY <1>1 DEF list
  <2>2. AlertTypes' /\ OnRecord' /\ Addresses' /\ InCap'
    <3>1. OnList' = OnList
      BY <2>1 DEF OnList
    <3>2. Passed' = Passed
      BY <1>0, <3>1 DEF Passed
    <3>3. AlertTypes' /\ OnRecord'
      BY <1>0, <2>1, <3>1 DEF AlertTypes, OnRecord
    <3>4. Addresses'
      BY <1>0, <2>1, <3>1 DEF Addresses, Read
    <3>5. InCap'
      BY <1>0, <3>2, FewerPassed
    <3> QED BY <3>3, <3>4, <3>5
  <2> QED BY <1>0, <2>2 DEF AlertInv
<1>2. CASE Appended(rec) /\ nextID' = nextID + 1
  <2>1. rec \in Alert
    BY <1>0 DEF AlertTypes, Alert
  <2>2. /\ array' \in Seq(Alert \cup {NoAlert}) /\ len' \in 0 .. Len(array')
        /\ OnList' = OnList \cup {rec}
        /\ fresh' \in Seq(Address)
        /\ \A f \in Range(fresh') : f.slot <= len' /\ Read(f)' \in OnList'
    <3> HIDE DEF rec
    <3> QED BY <1>0, <1>2, <2>1, AppendKeepsAddresses DEF Addresses
  <2>3. AlertTypes'
    <3> HIDE DEF rec
    <3> QED BY <1>0, <1>2, <2>1, <2>2 DEF AlertTypes, Address
  <2>4. OnRecord'
    <3>1. rec.at = alertNow /\ alertNow \in Nat
      BY <1>0 DEF AlertTypes
    <3> HIDE DEF rec
    <3> QED BY <1>0, <2>2, <3>1 DEF OnRecord
  <2>5. Addresses'
    BY <1>0, <2>2 DEF Addresses
  <2>6. InCap'
    <3> SUFFICES ASSUME NEW k \in Token, NEW u \in Nat
                 PROVE  Cardinality(InDay(Passed, k, u)') <= AlertCap
      BY DEF InCap
    <3>1. Passed' = IF rec.heldBack THEN Passed ELSE Passed \cup {rec}
      <4> HIDE DEF rec
      <4> QED BY <1>0, <2>2 DEF Passed
    <3>2. CASE ~rec.heldBack /\ k = token /\ alertNow \in u .. (u + AlertDay - 1)
      <4>1. InDay(Passed, k, u)' \subseteq Recent(token) \cup {rec}
        <5> SUFFICES ASSUME NEW a \in Passed, a.token = token, a.at \in u .. (u + AlertDay - 1)
                     PROVE  a \in Recent(token)
          BY <3>1, <3>2 DEF InDay
        <5>1. a \in OnList \cup made /\ a.at <= alertNow /\ ~a.heldBack
          BY <1>0 DEF Passed, OnRecord
        <5>2. alertNow - a.at < AlertDay
          BY <1>0, <3>2, <5>1, AlertAssumption DEF AlertTypes
        <5>3. a \in OnList
          BY <1>0, <5>1, <5>2 DEF OnRecord
        <5> QED BY <5>1, <5>2, <5>3 DEF Recent
      <4>2. IsFiniteSet(Recent(token))
        BY <1>0, PassedIsFinite, FS_Subset DEF Recent
      <4>3. Cardinality(Recent(token)) \in Nat /\ ~(Cardinality(Recent(token)) >= AlertCap)
        BY <3>2, <4>2, FS_CardinalityType
      <4> HIDE DEF rec
      <4>4. /\ IsFiniteSet(Recent(token) \cup {rec})
            /\ Cardinality(Recent(token) \cup {rec}) \in {Cardinality(Recent(token)), Cardinality(Recent(token)) + 1}
        BY <4>2, FS_AddElement
      <4>5. Cardinality(InDay(Passed, k, u)') <= Cardinality(Recent(token) \cup {rec})
            /\ Cardinality(InDay(Passed, k, u)') \in Nat
        BY <4>1, <4>4, FS_Subset, FS_CardinalityType
      <4> QED BY <4>3, <4>4, <4>5, AlertAssumption
    <3>3. CASE ~(~rec.heldBack /\ k = token /\ alertNow \in u .. (u + AlertDay - 1))
      <4>1. InDay(Passed, k, u)' = InDay(Passed, k, u)
        BY <3>1, <3>3 DEF InDay
      <4> QED BY <1>0, <4>1 DEF InCap
    <3> QED BY <3>2, <3>3
  <2> QED BY <1>0, <2>3, <2>4, <2>5, <2>6 DEF AlertInv
<1> QED BY <1>1, <1>2 DEF alertStep

LEMMA Rest ==
    ASSUME NEW S, NEW s \in Seq(S), NEW n \in 0 .. Len(s)
    PROVE  /\ SubSeq(s, n + 1, Len(s)) \in Seq(S) /\ Len(SubSeq(s, n + 1, Len(s))) = Len(s) - n
           /\ \A i \in 1 .. (Len(s) - n) : SubSeq(s, n + 1, Len(s))[i] = s[n + i]
<1> DEFINE r == SubSeq(s, n + 1, Len(s))
<1>1. r = [i \in 1 .. (Len(s) - n) |-> s[n + i]]
  OBVIOUS
<1>2. \A i \in 1 .. (Len(s) - n) : s[n + i] \in S
  OBVIOUS
<1>3. Len(s) - n \in Nat
  OBVIOUS
<1> HIDE DEF r
<1>4. r \in Seq(S) /\ Len(r) = Len(s) - n /\ \A i \in 1 .. (Len(s) - n) : r[i] = s[n + i]
  BY <1>1, <1>2, <1>3
<1> QED BY <1>4 DEF r

(* The cut moves alerts to the front of the list, yet every slot it had    *)
(* still holds one that was on it: an address may read another alert, not  *)
(* one that did not pass the cap.                                          *)
LEMMA CutKeeps ==
    ASSUME AlertInv, CutAndSave
    PROVE  AlertInv'
<1>0. /\ AlertTypes /\ OnRecord /\ Addresses /\ InCap /\ IsFiniteSet(made) /\ Range(told) \subseteq made
      /\ alertDaemon = "ruling" /\ UNCHANGED <<prevHit, nextID, quoted, fresh, told>>
  BY DEF AlertInv, CutAndSave
<1> DEFINE rest == SubSeq(array, Len(Kept) + 1, Len(array))
<1>1. /\ array' = Kept \o rest /\ len' = Len(Kept) /\ alertDisk'.alerts = Kept /\ alertDisk'.nextID = nextID
      /\ made' = made \cup {a \in OnList : a.at = alertNow /\ ~a.heldBack}
      /\ alertDaemon' = IF fresh = <<>> THEN "idle" ELSE "telling"
      /\ alertNow' \in {alertNow, alertNow + 1}
  BY DEF CutAndSave, SaveAlerts
<1>2. /\ Kept \in Seq(Alert) /\ Len(Kept) \in Nat /\ Len(Kept) <= len
      /\ Range(Kept) = {a \in OnList : alertNow - a.at < 2 * AlertDay}
  BY <1>0, WhatIsKept
<1>t. /\ array \in Seq(Alert \cup {NoAlert}) /\ Len(array) \in Nat /\ len \in 0 .. Len(array) /\ OnList \subseteq Alert
      /\ alertNow \in Nat /\ nextID \in Nat /\ fresh \in Seq(Address) /\ made \subseteq Alert /\ told \in Seq(Alert)
  BY <1>0 DEF AlertTypes, Address
<1>3. /\ rest \in Seq(Alert \cup {NoAlert}) /\ Len(rest) = Len(array) - Len(Kept)
      /\ \A i \in 1 .. (Len(array) - Len(Kept)) : rest[i] = array[Len(Kept) + i]
  <2>1. Len(Kept) \in 0 .. Len(array)
    BY <1>2, <1>t
  <2> QED BY <1>t, <2>1, Rest
<1>4. /\ array' \in Seq(Alert \cup {NoAlert}) /\ Len(array') = Len(array)
      /\ \A i \in 1 .. Len(Kept) : array'[i] = Kept[i]
      /\ \A i \in (Len(Kept) + 1) .. Len(array) : array'[i] = array[i]
  <2> HIDE DEF rest
  <2>1. Kept \in Seq(Alert \cup {NoAlert})
    BY <1>2
  <2>2. /\ Kept \o rest \in Seq(Alert \cup {NoAlert}) /\ Len(Kept \o rest) = Len(Kept) + Len(rest)
        /\ \A i \in 1 .. Len(Kept) : (Kept \o rest)[i] = Kept[i]
        /\ \A i \in 1 .. Len(rest) : (Kept \o rest)[Len(Kept) + i] = rest[i]
    BY <1>3, <2>1, Joined
  <2>3. ASSUME NEW i \in (Len(Kept) + 1) .. Len(array) PROVE (Kept \o rest)[i] = array[i]
    <3>1. i - Len(Kept) \in 1 .. Len(rest) /\ Len(Kept) + (i - Len(Kept)) = i
      BY <1>2, <1>3, <1>t
    <3>2. (Kept \o rest)[Len(Kept) + (i - Len(Kept))] = rest[i - Len(Kept)]
      BY <2>2, <3>1
    <3>3. rest[i - Len(Kept)] = array[Len(Kept) + (i - Len(Kept))]
      BY <1>3, <3>1
    <3> QED BY <3>1, <3>2, <3>3
  <2> QED BY <1>1, <1>2, <1>3, <1>t, <2>2, <2>3
<1>5. OnList' = Range(Kept)
  <2>1. DOMAIN Kept = 1 .. Len(Kept)
    BY <1>2
  <2> QED BY <1>1, <1>4, <2>1 DEF OnList, Range
<1>6. \A i \in 1 .. len : array'[i] \in OnList
  <2> SUFFICES ASSUME NEW i \in 1 .. len PROVE array'[i] \in OnList
    OBVIOUS
  <2>1. CASE i <= Len(Kept)
    <3>1. Kept[i] \in Range(Kept)
      BY <1>2, <1>t, <2>1 DEF Range
    <3> QED BY <1>2, <1>4, <1>t, <2>1, <3>1
  <2>2. CASE i > Len(Kept)
    <3>1. i \in (Len(Kept) + 1) .. Len(array)
      BY <1>2, <1>t, <2>2
    <3>2. array'[i] = array[i]
      BY <1>4, <3>1
    <3> QED BY <3>2 DEF OnList
  <2> QED BY <1>2, <1>t, <2>1, <2>2
<1>7. \A a \in OnList : ~a.heldBack => a \in made'
  BY <1>0, <1>1 DEF OnRecord
<1> HIDE DEF rest
<1>8. AlertTypes'
  <2>1. OnList' \subseteq Alert /\ made' \subseteq Alert
    BY <1>1, <1>2, <1>5, <1>t
  <2> QED BY <1>0, <1>1, <1>2, <1>4, <1>t, <2>1 DEF AlertTypes, Address
<1>9. IsFiniteSet(made') /\ Passed' \subseteq Passed
  <2>1. made' \subseteq Passed
    BY <1>1 DEF Passed
  <2>2. OnList' \subseteq OnList
    BY <1>2, <1>5
  <2> QED BY <1>0, <1>7, <2>1, <2>2, PassedIsFinite, FS_Subset DEF Passed
<1>10. InCap'
  BY <1>0, <1>9, FewerPassed
<1>11. OnRecord'
  <2>1. \A a \in made' \cup OnList' \cup Range(alertDisk'.alerts) : a.at <= alertNow /\ a.at \in Nat
    BY <1>0, <1>1, <1>2, <1>5, <1>t DEF OnRecord, Alert
  <2>2. ASSUME NEW a \in made', alertNow' - a.at < AlertDay PROVE a \in Range(Kept)
    <3>1. a.at \in Nat /\ a.at <= alertNow
      BY <2>1
    <3>2. alertNow - a.at < AlertDay /\ alertNow - a.at < 2 * AlertDay
      BY <1>1, <1>t, <2>2, <3>1, AlertAssumption
    <3>3. a \in OnList
      BY <1>0, <1>1, <3>2 DEF OnRecord
    <3> QED BY <1>2, <3>2, <3>3
  <2>3. \A a \in made' : ~a.heldBack
    BY <1>0, <1>1 DEF OnRecord
  <2>4. \A a \in OnList' \cup Range(alertDisk'.alerts) : ~a.heldBack => a \in made'
    BY <1>1, <1>2, <1>5, <1>7
  <2>5. \A a \in made' \cup OnList' \cup Range(alertDisk'.alerts) : a.at <= alertNow'
    BY <1>1, <1>t, <2>1
  <2> QED BY <1>1, <1>5, <2>2, <2>3, <2>4, <2>5 DEF OnRecord
<1>12. Addresses'
  <2>1. ASSUME NEW f \in Range(fresh) PROVE f.slot <= Len(array') /\ Read(f)' \in OnList
    <3>1. f \in Address /\ f.slot <= len /\ Read(f) \in OnList
      BY <1>0, <1>t DEF Addresses, Range
    <3>2. CASE f.slot > 0
      BY <1>4, <1>6, <1>t, <3>1, <3>2 DEF Read, Address
    <3>3. CASE ~(f.slot > 0)
      BY <1>4, <1>t, <3>1, <3>3 DEF Read, Address
    <3> QED BY <3>2, <3>3
  <2>2. \A f \in Range(fresh') : f.slot <= Len(array') /\ (Read(f)'.heldBack \/ Read(f)' \in made')
    BY <1>0, <1>7, <2>1
  <2> QED BY <1>0, <1>1, <2>2 DEF Addresses
<1>13. Range(told') \subseteq made'
  BY <1>0, <1>1
<1> QED BY <1>8, <1>9, <1>10, <1>11, <1>12, <1>13 DEF AlertInv

(* Every tick, cut, telling, crash and restart keeps the invariant.        *)
LEMMA AlertInvariant == AlertsSpec => []AlertInv
<1>1. AlertsInit => AlertInv
  <2> SUFFICES ASSUME AlertsInit PROVE AlertInv
    OBVIOUS
  <2>1. OnList = {} /\ Range(fresh) = {} /\ Range(told) = {} /\ Range(alertDisk.alerts) = {} /\ Passed = {}
    BY DEF AlertsInit, OnList, Range, Passed
  <2>2. AlertTypes
    BY <2>1 DEF AlertsInit, AlertTypes
  <2>3. OnRecord /\ Addresses
    BY <2>1 DEF AlertsInit, OnRecord, Addresses
  <2>4. \A k \in Token, u \in Nat : InDay(Passed, k, u) = {}
    BY <2>1 DEF InDay
  <2>5. IsFiniteSet({}) /\ Cardinality({}) = 0
    BY FS_EmptySet
  <2>6. InCap
    <3> SUFFICES ASSUME NEW k \in Token, NEW u \in Nat PROVE Cardinality(InDay(Passed, k, u)) <= AlertCap
      BY DEF InCap
    <3>1. InDay(Passed, k, u) = {}
      BY <2>4
    <3> QED BY <2>5, <3>1, AlertAssumption
  <2> QED BY <2>1, <2>2, <2>3, <2>5, <2>6 DEF AlertsInit, AlertInv
<1>2. AlertInv /\ [AlertsNext]_alertVars => AlertInv'
  <2> SUFFICES ASSUME AlertInv, [AlertsNext]_alertVars PROVE AlertInv'
    OBVIOUS
  <2>0. /\ AlertTypes /\ OnRecord /\ Addresses /\ InCap /\ IsFiniteSet(made) /\ Range(told) \subseteq made
        /\ alertNow \in Nat /\ AlertDay \in Nat /\ made \subseteq Alert
    BY AlertAssumption DEF AlertInv, AlertTypes
  <2>r. \A a \in made \cup OnList \cup Range(alertDisk.alerts) : a.at \in Nat
    <3>1. alertDisk.alerts \in Seq(Alert) /\ OnList \subseteq Alert
      BY <2>0 DEF AlertTypes
    <3>2. Range(alertDisk.alerts) \subseteq Alert
      BY <3>1 DEF Range
    <3> QED BY <2>0, <3>1, <3>2 DEF Alert
  <2>1. ASSUME NEW answers \in SUBSET Token, alertTick(answers) PROVE AlertInv'
    <3>0. UNCHANGED <<array, len, nextID, fresh, told, made>> /\ alertDaemon = "idle" /\ fresh = <<>>
          /\ OnList' = OnList /\ Passed' = Passed
      BY <2>0, <2>1 DEF alertTick, list, OnList, Passed, Addresses
    <3>1. InCap'
      BY <2>0, <3>0, FewerPassed
    <3>2. CASE answers = {}
      <4> DEFINE s == SubSeq(array, 1, len)
      <4>1. alertDisk'.alerts = s /\ alertDisk'.nextID = nextID /\ alertNow' = alertNow + 1 /\ alertDaemon' = "idle"
        BY <2>1, <3>2 DEF alertTick, SaveAlerts
      <4>2. s = [i \in 1 .. len |-> array[i]] /\ len \in Nat /\ \A i \in 1 .. len : array[i] \in Alert
        BY <2>0 DEF AlertTypes, OnList
      <4>3. s \in Seq(Alert) /\ Range(s) = OnList
        <5> HIDE DEF s
        <5> QED BY <4>2 DEF Range, OnList
      <4> HIDE DEF s
      <4>4. AlertTypes'
        BY <2>0, <3>0, <4>1, <4>3 DEF AlertTypes
      <4>5. \A a \in made \cup OnList : a.at \in Nat /\ a.at <= alertNow
        BY <2>0 DEF AlertTypes, OnRecord, Alert
      <4>6. OnRecord'
        BY <2>0, <3>0, <4>1, <4>3, <4>5 DEF OnRecord
      <4>7. Addresses'
        BY <3>0, <4>1 DEF Addresses
      <4> QED BY <2>0, <3>0, <3>1, <4>4, <4>6, <4>7 DEF AlertInv
    <3>3. CASE answers # {}
      <4>1. alertDaemon' = "ruling" /\ UNCHANGED <<alertDisk, alertNow>>
        BY <2>1, <3>3 DEF alertTick
      <4>2. AlertTypes' /\ OnRecord'
        BY <2>0, <3>0, <4>1 DEF AlertTypes, OnRecord
      <4>3. Addresses'
        BY <3>0, <4>1 DEF Addresses, Range
      <4> QED BY <2>0, <3>0, <3>1, <4>2, <4>3 DEF AlertInv
    <3> QED BY <3>2, <3>3
  <2>2. ASSUME NEW token \in Token, NEW quote \in Quote, alertStep(token, quote) PROVE AlertInv'
    BY <2>2, RuleKeeps
  <2>3. CASE CutAndSave
    BY <2>3, CutKeeps
  <2>4. CASE TellAlert
    <3>0. /\ UNCHANGED <<array, len, nextID, alertDisk, made>> /\ alertDaemon = "telling" /\ fresh' = Tail(fresh)
          /\ OnList' = OnList /\ Passed' = Passed /\ fresh \in Seq(Address) /\ fresh # <<>>
      BY <2>0, <2>4 DEF TellAlert, OnList, Passed, Addresses, AlertTypes, Address
    <3>1. fresh' \in Seq(Address) /\ Range(fresh') \subseteq Range(fresh) /\ fresh[1] \in Range(fresh)
          /\ Len(fresh') = Len(fresh) - 1
      <4>1. Len(fresh) \in Nat \ {0} /\ DOMAIN fresh = 1 .. Len(fresh)
        BY <3>0
      <4>2. Tail(fresh) \in Seq(Address) /\ Len(Tail(fresh)) = Len(fresh) - 1
        BY <3>0
      <4>3. \A i \in 1 .. (Len(fresh) - 1) : Tail(fresh)[i] = fresh[i + 1]
        BY <3>0
      <4>4. DOMAIN Tail(fresh) = 1 .. (Len(fresh) - 1)
        BY <3>0
      <4> QED BY <3>0, <4>1, <4>2, <4>3, <4>4 DEF Range
    <3>2. alertNow' \in {alertNow, alertNow + 1} /\ alertDaemon' = IF Len(fresh) = 1 THEN "idle" ELSE "telling"
      BY <2>4 DEF TellAlert
    <3>3. told' = told \/ (told' = Append(told, Read(fresh[1])) /\ Read(fresh[1]) \in made)
      BY <2>0, <2>4, <3>0, <3>1 DEF TellAlert, Addresses
    <3>4. told' \in Seq(Alert) /\ Range(told') \subseteq made
      <4>1. told \in Seq(Alert)
        BY <2>0 DEF AlertTypes
      <4> DEFINE r == Read(fresh[1])
      <4>2. told' = told \/ (told' = Append(told, r) /\ r \in made /\ r \in Alert)
        BY <2>0, <3>3
      <4> HIDE DEF r
      <4>3. r \in Alert => Append(told, r) \in Seq(Alert) /\ Range(Append(told, r)) = Range(told) \cup {r}
        BY <4>1, RangeOfAppend
      <4> QED BY <2>0, <4>1, <4>2, <4>3
    <3>5. AlertTypes'
      BY <2>0, <3>0, <3>1, <3>2, <3>4 DEF AlertTypes, Address
    <3>6. InCap'
      BY <2>0, <3>0, FewerPassed
    <3>7. OnRecord'
      <4> QED BY <2>0, <2>r, <3>0, <3>2 DEF OnRecord
    <3>8. Addresses'
      <4>1. Len(fresh) = 1 => fresh' = <<>>
        BY <3>0
      <4>2. Len(fresh) # 1 => fresh' # <<>>
        <5>1. Len(fresh) \in Nat \ {0}
          BY <3>0
        <5>2. fresh' = <<>> => Len(fresh') = 0
          OBVIOUS
        <5> QED BY <3>1, <5>1, <5>2
      <4> QED BY <2>0, <3>0, <3>1, <3>2, <4>1, <4>2 DEF Addresses, Read
    <3> QED BY <2>0, <3>0, <3>4, <3>5, <3>6, <3>7, <3>8 DEF AlertInv
  <2>5. CASE AlertCrash
    <3>1. /\ array' = <<>> /\ len' = 0 /\ fresh' = <<>> /\ alertDaemon' = "down" /\ OnList' = {}
          /\ UNCHANGED <<alertNow, nextID, alertDisk, told, made>>
      BY <2>5 DEF AlertCrash, OnList
    <3>2. AlertTypes' /\ OnRecord' /\ Addresses'
      BY <2>0, <3>1 DEF AlertTypes, OnRecord, Addresses, Range
    <3>3. InCap'
      BY <2>0, <3>1, FewerPassed DEF Passed
    <3> QED BY <2>0, <3>1, <3>2, <3>3 DEF AlertInv
  <2>6. CASE TimePasses
    <3>1. alertDaemon = "down" /\ alertNow' = alertNow + 1
          /\ UNCHANGED <<array, len, nextID, fresh, alertDaemon, alertDisk, told, made>>
      BY <2>6 DEF TimePasses, list
    <3>2. OnList' = OnList /\ Passed' = Passed
      BY <3>1 DEF OnList, Passed
    <3>3. AlertTypes' /\ Addresses'
      BY <2>0, <3>1, <3>2 DEF AlertTypes, Addresses
    <3>5. OnRecord'
      BY <2>0, <2>r, <3>1, <3>2 DEF OnRecord
    <3>6. InCap'
      BY <2>0, <3>2, FewerPassed
    <3> QED BY <2>0, <3>1, <3>3, <3>5, <3>6 DEF AlertInv
  <2>7. CASE loadAlertState
    <3>1. /\ alertDaemon = "down" /\ alertDaemon' = "idle" /\ array' = alertDisk.alerts /\ len' = Len(alertDisk.alerts)
          /\ nextID' = alertDisk.nextID /\ UNCHANGED <<alertNow, fresh, alertDisk, told, made>>
      BY <2>7 DEF loadAlertState
    <3>2. alertDisk.alerts \in Seq(Alert) /\ Len(alertDisk.alerts) \in Nat
          /\ DOMAIN alertDisk.alerts = 1 .. Len(alertDisk.alerts) /\ alertDisk.nextID \in Nat
      BY <2>0 DEF AlertTypes
    <3>3. OnList' = Range(alertDisk.alerts) /\ OnList' \subseteq Alert
      BY <3>1, <3>2 DEF OnList, Range
    <3>4. array' \in Seq(Alert \cup {NoAlert})
      BY <3>1, <3>2
    <3>5. AlertTypes'
      BY <2>0, <3>1, <3>2, <3>3, <3>4 DEF AlertTypes
    <3>6. OnRecord' /\ Addresses'
      BY <2>0, <3>1, <3>3 DEF OnRecord, Addresses
    <3>7. Passed' \subseteq Passed
      BY <2>0, <3>1, <3>3 DEF Passed, OnRecord
    <3>8. InCap'
      BY <2>0, <3>7, FewerPassed
    <3> QED BY <2>0, <3>1, <3>5, <3>6, <3>8 DEF AlertInv
  <2>8. CASE UNCHANGED alertVars
    <3>1. UNCHANGED <<array, len, nextID, fresh, alertDaemon, alertNow, alertDisk, told, made>>
      BY <2>8 DEF alertVars, list
    <3>2. OnList' = OnList /\ Passed' = Passed
      BY <3>1 DEF OnList, Passed
    <3>3. AlertTypes' /\ OnRecord'
      BY <2>0, <3>1, <3>2 DEF AlertTypes, OnRecord
    <3>4. Addresses'
      BY <2>0, <3>1, <3>2 DEF Addresses, Read
    <3>5. InCap'
      BY <2>0, <3>2, FewerPassed
    <3> QED BY <2>0, <3>1, <3>3, <3>4, <3>5 DEF AlertInv
  <2> QED BY <2>1, <2>2, <2>3, <2>4, <2>5, <2>6, <2>7, <2>8 DEF AlertsNext
<1> QED BY <1>1, <1>2, PTL DEF AlertsSpec

(* No token is told of more than AlertCap times in any sliding day: what   *)
(* was told was made, the list holds all that was made within the last     *)
(* day, on file too, and an alert needs room among those (alertStep,       *)
(* alertTick, loadAlertState).                                             *)
THEOREM CapIsKept == AlertsSpec => []CapHolds
<1>1. AlertInv => CapHolds
  <2> SUFFICES ASSUME AlertInv, NEW k \in Token, NEW u \in 1 .. alertNow
               PROVE  Cardinality({a \in Range(told) : a.token = k /\ a.at \in u .. (u + AlertDay - 1)}) <= AlertCap
    BY DEF CapHolds
  <2> DEFINE said == {a \in Range(told) : a.token = k /\ a.at \in u .. (u + AlertDay - 1)}
             all == InDay(Passed, k, u)
  <2>1. u \in Nat /\ AlertTypes /\ IsFiniteSet(made) /\ Range(told) \subseteq made
    BY DEF AlertInv, AlertTypes
  <2>2. said \subseteq all /\ all \subseteq Passed
    BY <2>1 DEF InDay, Passed
  <2> HIDE DEF said, all
  <2>3. IsFiniteSet(all)
    BY <2>1, <2>2, PassedIsFinite, FS_Subset
  <2>4. Cardinality(said) <= Cardinality(all) /\ Cardinality(said) \in Nat /\ Cardinality(all) \in Nat
    BY <2>2, <2>3, FS_Subset, FS_CardinalityType
  <2>5. Cardinality(all) <= AlertCap
    BY <2>1 DEF AlertInv, InCap, all
  <2> QED BY <2>4, <2>5, AlertAssumption DEF said
<1> QED BY <1>1, AlertInvariant, PTL

-----------------------------------------------------------------------------
(* The weather of the first place.                                         *)
Episode == [place : City \cup {NoCity}, closed : Int, budget : SUBSET Nat, held : BOOLEAN]

(* The types the proof needs.                                              *)
RainTypes ==
    /\ rainNow \in Nat
    /\ top \in City \cup {NoCity} /\ asked \in City \cup {NoCity}
    /\ ep \in [Hazard -> Episode] /\ rainDisk = ep
    /\ opened \subseteq [hazard : Hazard, at : 0 .. rainNow]
    /\ emptied \in BOOLEAN

(* Every opening of the last day is in the budget of its hazard, in memory *)
(* and on file.                                                            *)
Remembered == ~emptied =>
    \A h \in Hazard, u \in Nat :
        [hazard |-> h, at |-> u] \in opened /\ rainNow - u < RainDay => u \in ep[h].budget

FiniteBudgets == \A h \in Hazard : IsFiniteSet(ep[h].budget)

(* BudgetHolds, for days that begin at any time.                           *)
InBudget == ~emptied => \A h \in Hazard, d \in Nat : Cardinality(InADay(h, d)) <= RainCap

RainInv == RainTypes /\ FiniteBudgets /\ Remembered /\ InBudget

(* What hazardStep makes of an episode: its budget keeps the last day, and *)
(* an opening adds now, if the last day had room for it.                   *)
LEMMA StepOfEpisode ==
    ASSUME RainTypes, NEW e \in Episode, IsFiniteSet(e.budget), NEW at \in City \cup {NoCity},
           NEW level
    PROVE  LET r == hazardStep(e, at, level)
               recent == {u \in e.budget : rainNow - u < RainDay}
           IN /\ r.e \in Episode /\ IsFiniteSet(r.e.budget) /\ recent \subseteq r.e.budget
              /\ r.tell = "open" => rainNow \in r.e.budget /\ Cardinality(recent) < RainCap
<1> DEFINE m == Moved(e, at)
           recent == {u \in e.budget : rainNow - u < RainDay}
           r == hazardStep(e, at, level)
<1>1. m \in Episode /\ m.budget = e.budget
  <2>1. Quiet \in Episode
    BY RainAssumption DEF Quiet, Episode
  <2>2. [Quiet EXCEPT !.budget = e.budget] \in Episode /\ [Quiet EXCEPT !.budget = e.budget].budget = e.budget
    BY <2>1 DEF Episode
  <2> QED BY <2>2 DEF Moved
<1>2. recent \in SUBSET Nat /\ IsFiniteSet(recent) /\ IsFiniteSet(recent \cup {rainNow})
  BY FS_Subset, FS_AddElement DEF Episode
<1>3. Cardinality(recent) \in Nat
  BY <1>2, FS_CardinalityType
<1>4. rainNow \in Nat
  BY DEF RainTypes
<1> DEFINE At(f) == f \in Episode /\ IsFiniteSet(f.budget) /\ recent \subseteq f.budget
           clear == [e |-> [m EXCEPT !.place = NoCity, !.closed = rainNow], tell |-> "clear"]
           still == [e |-> m, tell |-> "none"]
           calm == [e |-> [m EXCEPT !.held = FALSE], tell |-> "none"]
           full == [e |-> [m EXCEPT !.budget = recent, !.held = TRUE],
                    tell |-> IF m.held THEN "none" ELSE "held"]
           open == [e |-> [m EXCEPT !.held = FALSE, !.place = at, !.budget = recent \cup {rainNow}],
                    tell |-> "open"]
<1>5. At(clear.e) /\ At(still.e) /\ At(calm.e) /\ At(full.e) /\ At(open.e)
  <2>0. recent \subseteq m.budget /\ IsFiniteSet(m.budget)
    BY <1>1
  <2> HIDE DEF m, recent
  <2>1. At(still.e) /\ At(calm.e)
    BY <1>1, <2>0, <1>4 DEF Episode
  <2>3. At(clear.e)
    <3> DEFINE left == [m EXCEPT !.place = NoCity]
    <3>1. left \in Episode /\ left.budget = m.budget
      BY <1>1 DEF Episode
    <3>2. clear.e = [left EXCEPT !.closed = rainNow]
      OBVIOUS
    <3> HIDE DEF left
    <3>3. [left EXCEPT !.closed = rainNow] \in Episode /\ [left EXCEPT !.closed = rainNow].budget = m.budget
      BY <3>1, <1>4 DEF Episode
    <3> QED BY <3>2, <3>3, <2>0
  <2>2. At(full.e) /\ At(open.e)
    BY <1>1, <1>2, <1>4 DEF Episode
  <2> QED BY <2>1, <2>2, <2>3
<1>6. \/ r = clear \/ r = still \/ r = calm \/ r = full
      \/ r = open /\ ~(Cardinality(recent) >= RainCap)
  BY <1>1 DEF hazardStep
<1>7. rainNow \in open.e.budget
  BY <1>1 DEF Episode
<1> HIDE DEF r, m, recent
<1>8. ~(Cardinality(recent) >= RainCap) => Cardinality(recent) < RainCap
  BY <1>3, RainAssumption
<1>9. clear.tell /= "open" /\ still.tell /= "open" /\ calm.tell /= "open" /\ full.tell /= "open"
  OBVIOUS
<1> QED BY <1>5, <1>6, <1>7, <1>8, <1>9 DEF r, recent

(* Forecast is the step that opens: an hour of one hazard or another.      *)
LEMMA ForecastKeeps ==
    ASSUME RainInv, NEW f \in Forecasts, Forecast(f)
    PROVE  RainInv'
<1> DEFINE Becomes(h) == hazardStep(ep[h], asked, f[h])
           recent(h) == {u \in ep[h].budget : rainNow - u < RainDay}
           new == {h \in Hazard : [hazard |-> h, kind |-> "open"] \in rainStep(asked, f).tell}
<1>0. RainTypes /\ FiniteBudgets /\ Remembered /\ InBudget /\ rainNow \in Nat /\ asked \in City \cup {NoCity}
  BY DEF RainInv, RainTypes
<1>t. \A h \in Hazard : ep[h] \in Episode /\ IsFiniteSet(ep[h].budget)
  BY <1>0 DEF RainTypes, FiniteBudgets
<1>1. \A h \in Hazard : /\ Becomes(h).e \in Episode /\ IsFiniteSet(Becomes(h).e.budget)
                        /\ recent(h) \subseteq Becomes(h).e.budget
                        /\ Becomes(h).tell = "open" => rainNow \in Becomes(h).e.budget /\ Cardinality(recent(h)) < RainCap
  BY <1>0, <1>t, StepOfEpisode
<1>2. ep' = rainStep(asked, f).ep /\ rainDisk' = ep' /\ UNCHANGED <<top, asked, emptied>>
  BY DEF Forecast, SaveRain
<1>3. \A h \in Hazard : ep'[h] = Becomes(h).e \/ (ep'[h] = ep[h] /\ h \notin new)
  <2> HIDE DEF Becomes
  <2> SUFFICES ASSUME NEW h \in Hazard, ep'[h] /= Becomes(h).e PROVE ep'[h] = ep[h] /\ h \notin new
    BY Zenon
  <2>1. Outranked(asked, f, h) /\ ep'[h] = ep[h]
    BY <1>2 DEF rainStep, Becomes
  <2> QED BY <2>1 DEF rainStep
<1>4. \A h \in new : ep'[h] = Becomes(h).e /\ Becomes(h).tell = "open"
  <2> SUFFICES ASSUME NEW h \in new PROVE ep'[h] = Becomes(h).e /\ Becomes(h).tell = "open"
    OBVIOUS
  <2>1. Becomes(h).tell = "open"
    BY DEF rainStep
  <2> QED BY <1>3, <2>1
<1>5. ep' \in [Hazard -> Episode] /\ FiniteBudgets'
  <2>1. ep' = [h \in Hazard |-> ep'[h]]
    BY <1>2 DEF rainStep
  <2> HIDE DEF Becomes, new
  <2>2. \A h \in Hazard : ep'[h] \in Episode /\ IsFiniteSet(ep'[h].budget)
    BY <1>1, <1>3, <1>t
  <2> QED BY <2>1, <2>2 DEF FiniteBudgets
<1>6. opened' = opened \cup {[hazard |-> h, at |-> rainNow] : h \in new}
  <2> DEFINE says == {e \in rainStep(asked, f).tell : e.kind = "open"}
  <2>1. opened' = opened \cup {[hazard |-> e.hazard, at |-> rainNow] : e \in says}
    BY DEF Forecast
  <2>2. \A e \in rainStep(asked, f).tell : e.hazard \in Hazard /\ e = [hazard |-> e.hazard, kind |-> e.kind]
    BY DEF rainStep
  <2>3. ASSUME NEW e \in says PROVE e.hazard \in new
    <3>1. e = [hazard |-> e.hazard, kind |-> "open"] /\ e.hazard \in Hazard
      BY <2>2, <2>3
    <3> QED BY <3>1
  <2>4. ASSUME NEW h \in new PROVE [hazard |-> h, kind |-> "open"] \in says
    OBVIOUS
  <2> HIDE DEF says, new
  <2>5. {[hazard |-> e.hazard, at |-> rainNow] : e \in says} = {[hazard |-> h, at |-> rainNow] : h \in new}
    <3>1. ASSUME NEW h \in new PROVE \E e \in says : [hazard |-> e.hazard, at |-> rainNow] = [hazard |-> h, at |-> rainNow]
      BY <2>4
    <3> QED BY <2>3, <2>4, <3>1
  <2> QED BY <2>1, <2>5
<1>7. rainNow' \in {rainNow, rainNow + 1}
  BY DEF Forecast
<1>h. new \subseteq Hazard
  OBVIOUS
<1> HIDE DEF new, Becomes
<1>8. RainTypes'
  <2>1. opened' \subseteq [hazard : Hazard, at : 0 .. rainNow']
    BY <1>0, <1>6, <1>7, <1>h DEF RainTypes
  <2> QED BY <1>0, <1>2, <1>5, <1>7, <2>1 DEF RainTypes
<1>9. Remembered'
  <2> SUFFICES ASSUME ~emptied, NEW h \in Hazard, NEW u \in Nat, [hazard |-> h, at |-> u] \in opened',
                      rainNow' - u < RainDay
               PROVE  u \in ep'[h].budget
    BY <1>2 DEF Remembered
  <2>1. CASE [hazard |-> h, at |-> u] \in opened
    <3>1. u \in recent(h)
      BY <1>0, <1>7, <2>1, RainAssumption DEF Remembered
    <3> QED BY <3>1, <1>1, <1>3
  <2>2. CASE u = rainNow /\ h \in new
    BY <2>2, <1>4, <1>1
  <2> QED BY <1>6, <2>1, <2>2
<1>10. InBudget'
  <2> SUFFICES ASSUME ~emptied, NEW h \in Hazard, NEW d \in Nat
               PROVE  Cardinality(InADay(h, d)') <= RainCap
    BY <1>2 DEF InBudget
  <2>1. CASE h \in new /\ rainNow \in d .. (d + RainDay - 1)
    <3>1. InADay(h, d)' \subseteq recent(h) \cup {rainNow}
      <4> SUFFICES ASSUME NEW u \in d .. (d + RainDay - 1), [hazard |-> h, at |-> u] \in opened', u /= rainNow
                   PROVE  u \in recent(h)
        BY DEF InADay
      <4>1. [hazard |-> h, at |-> u] \in opened
        BY <1>6
      <4> QED BY <1>0, <2>1, <4>1, RainAssumption DEF Remembered
    <3>2. IsFiniteSet(recent(h)) /\ Cardinality(recent(h)) < RainCap
      BY <1>1, <1>4, <1>t, <2>1, FS_Subset
    <3>3. /\ Cardinality(recent(h) \cup {rainNow}) \in {Cardinality(recent(h)), Cardinality(recent(h)) + 1}
          /\ IsFiniteSet(recent(h) \cup {rainNow}) /\ Cardinality(recent(h)) \in Nat
      <4> HIDE DEF recent
      <4> QED BY <3>2, FS_AddElement, FS_CardinalityType
    <3>4. Cardinality(InADay(h, d)') <= Cardinality(recent(h) \cup {rainNow}) /\ Cardinality(InADay(h, d)') \in Nat
      BY <3>1, <3>3, FS_Subset, FS_CardinalityType
    <3> HIDE DEF recent
    <3> QED BY <3>2, <3>3, <3>4, RainAssumption
  <2>2. CASE ~(h \in new /\ rainNow \in d .. (d + RainDay - 1))
    <3>1. InADay(h, d)' = InADay(h, d)
      BY <1>6, <2>2 DEF InADay
    <3> QED BY <1>0, <3>1 DEF InBudget
  <2> QED BY <2>1, <2>2
<1> QED BY <1>5, <1>8, <1>9, <1>10 DEF RainInv

(* Every tick, move of the first place, push, crash and restart keeps it.  *)
LEMMA RainInvariant == RainSpec => []RainInv
<1>1. RainInit => RainInv
  <2> SUFFICES ASSUME RainInit PROVE RainInv
    OBVIOUS
  <2>1. Quiet \in Episode /\ Quiet.budget = {}
    BY RainAssumption DEF Quiet, Episode
  <2>2. \A h \in Hazard, d \in Nat : InADay(h, d) = {}
    BY DEF InADay, RainInit
  <2>3. Cardinality({}) = 0 /\ IsFiniteSet({})
    BY FS_EmptySet
  <2> HIDE DEF Episode
  <2>4. RainTypes
    BY <2>1 DEF RainInit, RainTypes
  <2>5. FiniteBudgets /\ Remembered /\ InBudget
    BY <2>1, <2>2, <2>3, RainAssumption DEF RainInit, FiniteBudgets, Remembered, InBudget
  <2> QED BY <2>4, <2>5 DEF RainInv
<1>2. RainInv /\ [RainNext]_rainVars => RainInv'
  <2> SUFFICES ASSUME RainInv, [RainNext]_rainVars PROVE RainInv'
    OBVIOUS
  <2> USE DEF RainInv
  <2>0. ASSUME RainTypes', UNCHANGED <<ep, opened, emptied>>, rainNow <= rainNow' PROVE RainInv'
    <3>1. InBudget' /\ FiniteBudgets'
      BY <2>0 DEF InBudget, InADay, FiniteBudgets
    <3>2. Remembered'
      BY <2>0, RainAssumption DEF Remembered, RainTypes
    <3> QED BY <2>0, <3>1, <3>2
  <2>1. CASE rainTick /\ top = NoCity
    <3>1. emptied' = TRUE /\ ep' = [h \in Hazard |-> Quiet] /\ rainDisk' = ep' /\ rainNow' = rainNow + 1
          /\ UNCHANGED <<top, asked, opened>>
      BY <2>1 DEF rainTick
    <3>2. Quiet \in Episode /\ Quiet.budget = {} /\ IsFiniteSet({})
      BY RainAssumption, FS_EmptySet DEF Quiet, Episode
    <3> HIDE DEF Episode
    <3>3. RainTypes'
      BY <3>1, <3>2 DEF RainTypes
    <3> QED BY <3>1, <3>2, <3>3 DEF FiniteBudgets, Remembered, InBudget
  <2>2. CASE rainTick /\ top /= NoCity
    <3>1. asked' = top /\ UNCHANGED <<ep, rainDisk, emptied, rainNow, top, opened>>
      BY <2>2 DEF rainTick
    <3>2. RainTypes'
      BY <3>1 DEF RainTypes
    <3> QED BY <3>1, <3>2, <2>0 DEF RainTypes
  <2>3. CASE NoForecast
    <3>1. RainTypes' /\ rainNow <= rainNow'
      BY <2>3 DEF NoForecast, RainTypes
    <3> QED BY <2>3, <3>1, <2>0 DEF NoForecast
  <2>4. CASE PushRain
    <3>1. RainTypes' /\ rainNow <= rainNow'
      BY <2>4 DEF PushRain, RainTypes
    <3> QED BY <2>4, <3>1, <2>0 DEF PushRain
  <2>5. CASE RainCrash
    <3>1. RainTypes' /\ rainNow <= rainNow'
      BY <2>5 DEF RainCrash, RainTypes
    <3> QED BY <2>5, <3>1, <2>0 DEF RainCrash
  <2>6. CASE RunRain
    <3>1. rainNow' \in Nat /\ rainNow <= rainNow' /\ UNCHANGED <<ep, rainDisk, opened, emptied, top, asked>>
      BY <2>6, RainAssumption DEF RunRain, RainTypes
    <3>2. RainTypes'
      BY <3>1 DEF RainTypes
    <3> QED BY <3>1, <3>2, <2>0
  <2>7. ASSUME NEW f \in Forecasts, Forecast(f) PROVE RainInv'
    BY <2>7, ForecastKeeps
  <2>8. ASSUME NEW p \in City \cup {NoCity}, MoveTop(p) PROVE RainInv'
    <3>1. RainTypes' /\ rainNow <= rainNow'
      BY <2>8 DEF MoveTop, RainTypes
    <3> QED BY <2>8, <3>1, <2>0 DEF MoveTop
  <2>9. CASE UNCHANGED rainVars
    <3>1. RainTypes' /\ rainNow <= rainNow'
      BY <2>9 DEF rainVars, RainTypes
    <3> QED BY <2>9, <3>1, <2>0 DEF rainVars
  <2> QED BY <2>1, <2>2, <2>3, <2>4, <2>5, <2>6, <2>7, <2>8, <2>9 DEF RainNext
<1> QED BY <1>1, <1>2, PTL DEF RainSpec

(* A hazard's openings of any sliding day stay within its budget: what the *)
(* last day opened is in the budget, in memory and on file, also over a    *)
(* crash and a change of the first city (rainStep, hazardStep).            *)
THEOREM BudgetIsKept == RainSpec => []BudgetHolds
<1>1. RainInv => BudgetHolds
  <2> SUFFICES ASSUME RainInv PROVE BudgetHolds
    OBVIOUS
  <2>1. 1 .. rainNow \subseteq Nat
    BY DEF RainInv, RainTypes
  <2> QED BY <2>1 DEF RainInv, InBudget, BudgetHolds
<1> QED BY <1>1, RainInvariant, PTL

-----------------------------------------------------------------------------
(***************************************************************************)
(* Published hostnames (Routes).                                           *)
(***************************************************************************)
Rules == [host : Names, service : Service \cup {TheirService, "404"}]

(* What cloudflared, reading the list, finds first for h is a rule for s.  *)
Reaches(l, h, s) ==
    \E i \in DOMAIN l : l[i] = Rule(h, s) /\ \A j \in 1 .. (i - 1) : l[j].host \notin {h, Wildcard, CatchAll}

(* Nothing in the list stands in the way of a rule for h behind it.        *)
LetsPass(l, h) == \A i \in DOMAIN l : l[i].host \notin {h, Wildcard, CatchAll}

LEMMA FirstIsLeast ==
    ASSUME NEW S, S \subseteq Nat, S # {}
    PROVE  First(S) \in S /\ \A j \in S : First(S) <= j
BY Smallest DEF First

LEMMA ReachesResolves ==
    ASSUME NEW l \in Seq(Rules), NEW h, NEW s, Reaches(l, h, s)
    PROVE  Resolve(l, h) = s
<1> DEFINE m == {i \in DOMAIN l : l[i].host \in {h, Wildcard, CatchAll}}
<1>1. PICK i \in DOMAIN l : l[i] = Rule(h, s) /\ \A j \in 1 .. (i - 1) : l[j].host \notin {h, Wildcard, CatchAll}
  BY DEF Reaches
<1>2. i \in m /\ m \subseteq Nat /\ \A j \in m : i <= j
  BY <1>1 DEF Rule
<1> HIDE DEF m
<1>3. First(m) \in m /\ \A j \in m : First(m) <= j
  BY <1>2, FirstIsLeast
<1>4. First(m) = i
  BY <1>2, <1>3
<1>5. l[First(m)].service = s
  BY <1>1, <1>4 DEF Rule
<1> QED BY <1>2, <1>5 DEF Resolve, m

(* A list in front keeps what it reaches; one that lets h pass, what the   *)
(* one behind it reaches.                                                  *)
LEMMA ReachesInFront ==
    ASSUME NEW l \in Seq(Rules), NEW r \in Seq(Rules), NEW h, NEW s, Reaches(l, h, s)
    PROVE  Reaches(l \o r, h, s)
<1>1. PICK i \in DOMAIN l : l[i] = Rule(h, s) /\ \A j \in 1 .. (i - 1) : l[j].host \notin {h, Wildcard, CatchAll}
  BY DEF Reaches
<1>2. i \in 1 .. Len(l) /\ Len(l) \in Nat /\ Len(r) \in Nat
  OBVIOUS
<1>3. l \o r \in Seq(Rules) /\ Len(l \o r) = Len(l) + Len(r) /\ \A j \in 1 .. Len(l) : (l \o r)[j] = l[j]
  BY Joined
<1>4. i \in DOMAIN (l \o r)
  BY <1>2, <1>3
<1>5. \A j \in 1 .. (i - 1) : (l \o r)[j] = l[j]
  BY <1>2, <1>3
<1> QED BY <1>1, <1>2, <1>3, <1>4, <1>5 DEF Reaches

LEMMA ReachesBehind ==
    ASSUME NEW l \in Seq(Rules), NEW r \in Seq(Rules), NEW h, NEW s, LetsPass(l, h), Reaches(r, h, s)
    PROVE  Reaches(l \o r, h, s)
<1>1. PICK i \in DOMAIN r : r[i] = Rule(h, s) /\ \A j \in 1 .. (i - 1) : r[j].host \notin {h, Wildcard, CatchAll}
  BY DEF Reaches
<1>2. i \in 1 .. Len(r) /\ Len(l) \in Nat /\ Len(r) \in Nat /\ DOMAIN l = 1 .. Len(l)
  OBVIOUS
<1>3. /\ l \o r \in Seq(Rules) /\ Len(l \o r) = Len(l) + Len(r) /\ \A j \in 1 .. Len(l) : (l \o r)[j] = l[j]
      /\ \A j \in 1 .. Len(r) : (l \o r)[Len(l) + j] = r[j]
  BY Joined
<1>4. Len(l) + i \in DOMAIN (l \o r) /\ (l \o r)[Len(l) + i] = Rule(h, s)
  BY <1>1, <1>2, <1>3
<1>5. ASSUME NEW j \in 1 .. (Len(l) + i - 1) PROVE (l \o r)[j].host \notin {h, Wildcard, CatchAll}
  <2>1. CASE j \in 1 .. Len(l)
    BY <1>2, <1>3, <2>1 DEF LetsPass
  <2>2. CASE j \notin 1 .. Len(l)
    <3>1. j - Len(l) \in 1 .. (i - 1) /\ j - Len(l) \in 1 .. Len(r) /\ Len(l) + (j - Len(l)) = j
      BY <1>2, <2>2
    <3>2. (l \o r)[Len(l) + (j - Len(l))] = r[j - Len(l)]
      BY <1>3, <3>1
    <3> QED BY <1>1, <3>1, <3>2
  <2> QED BY <2>1, <2>2
<1> QED BY <1>4, <1>5 DEF Reaches

(* The list before its first wildcard or catch-all, and from there on.     *)
LEMMA AroundShadow ==
    ASSUME NEW l \in Seq(Rules)
    PROVE  /\ Ahead(l) \in Seq(Rules) /\ Behind(l) \in Seq(Rules)
           /\ Range(Ahead(l)) \subseteq Range(l) /\ Range(Behind(l)) \subseteq Range(l)
           /\ \A i \in DOMAIN Ahead(l) : ~IsShadow(l[i]) /\ i \in DOMAIN l /\ Ahead(l)[i] = l[i]
           /\ \A i \in DOMAIN l : (\A j \in 1 .. i : ~IsShadow(l[j])) => i \in DOMAIN Ahead(l)
           /\ \A i \in DOMAIN l : i \notin DOMAIN Ahead(l) =>
                 \E k \in DOMAIN Behind(l) : i = Len(Ahead(l)) + k
           /\ \A k \in DOMAIN Behind(l) : Len(Ahead(l)) + k \in DOMAIN l /\ Behind(l)[k] = l[Len(Ahead(l)) + k]
<1> DEFINE f == firstShadow(l)
           at == {i \in DOMAIN l : IsShadow(l[i])}
<1>0. Len(l) \in Nat /\ DOMAIN l = 1 .. Len(l) /\ at \subseteq Nat
  OBVIOUS
<1>1. f \in 1 .. (Len(l) + 1) /\ (\A i \in 1 .. (f - 1) : ~IsShadow(l[i])) /\ (f <= Len(l) => IsShadow(l[f]))
  <2>1. CASE at = {}
    <3>1. f = Len(l) + 1
      BY <2>1 DEF firstShadow
    <3> QED BY <1>0, <2>1, <3>1
  <2>2. CASE at # {}
    <3>1. f = First(at)
      BY <2>2 DEF firstShadow
    <3>2. f \in at /\ \A j \in at : f <= j
      <4> HIDE DEF at, f
      <4> QED BY <1>0, <2>2, <3>1, FirstIsLeast
    <3> HIDE DEF f
    <3> QED BY <1>0, <3>2
  <2> QED BY <2>1, <2>2
<1> HIDE DEF f, at
<1>2. Ahead(l) = SubSeq(l, 1, f - 1) /\ Behind(l) = SubSeq(l, f, Len(l))
  BY DEF Ahead, Behind, f
<1>3. Ahead(l) = [i \in 1 .. (f - 1) |-> l[i]] /\ Ahead(l) \in Seq(Rules) /\ Len(Ahead(l)) = f - 1
      /\ DOMAIN Ahead(l) = 1 .. (f - 1)
  <2>1. SubSeq(l, 1, f - 1) = [i \in 1 .. (f - 1) |-> l[i]]
    BY <1>1
  <2>2. f - 1 \in Nat /\ \A i \in 1 .. (f - 1) : l[i] \in Rules
    BY <1>0, <1>1
  <2> QED BY <1>2, <2>1, <2>2
<1>4. Behind(l) \in Seq(Rules) /\ Len(Behind(l)) = Len(l) - (f - 1) /\ DOMAIN Behind(l) = 1 .. (Len(l) - (f - 1))
      /\ \A i \in 1 .. (Len(l) - (f - 1)) : Behind(l)[i] = l[(f - 1) + i]
  <2>1. f - 1 \in 0 .. Len(l) /\ (f - 1) + 1 = f
    BY <1>0, <1>1
  <2>2. /\ SubSeq(l, f, Len(l)) \in Seq(Rules) /\ Len(SubSeq(l, f, Len(l))) = Len(l) - (f - 1)
        /\ \A i \in 1 .. (Len(l) - (f - 1)) : SubSeq(l, f, Len(l))[i] = l[(f - 1) + i]
    BY <2>1, Rest
  <2> DEFINE b == SubSeq(l, f, Len(l))
  <2>3. Behind(l) = b
    BY <1>2
  <2> HIDE DEF b
  <2>4. DOMAIN b = 1 .. Len(b)
    BY <2>2 DEF b
  <2> QED BY <2>2, <2>3, <2>4 DEF b
<1>5. Range(Ahead(l)) \subseteq Range(l) /\ Range(Behind(l)) \subseteq Range(l)
  <2>1. \A i \in 1 .. (f - 1) : i \in DOMAIN l
    BY <1>0, <1>1
  <2>2. \A i \in 1 .. (Len(l) - (f - 1)) : (f - 1) + i \in DOMAIN l
    BY <1>0, <1>1
  <2> QED BY <1>3, <1>4, <2>1, <2>2 DEF Range
<1>6. \A i \in DOMAIN Ahead(l) : ~IsShadow(l[i]) /\ i \in DOMAIN l /\ Ahead(l)[i] = l[i]
  BY <1>0, <1>1, <1>3
<1>7. ASSUME NEW i \in DOMAIN l, \A j \in 1 .. i : ~IsShadow(l[j]) PROVE i \in DOMAIN Ahead(l)
  <2>1. ~(f <= i)
    <3> SUFFICES ASSUME f <= i PROVE FALSE
      OBVIOUS
    <3>1. f \in 1 .. i /\ f <= Len(l)
      BY <1>0, <1>1
    <3> QED BY <1>1, <1>7, <3>1
  <2> QED BY <1>0, <1>1, <1>3, <2>1
<1>8. ASSUME NEW i \in DOMAIN l, i \notin DOMAIN Ahead(l) PROVE \E k \in DOMAIN Behind(l) : i = Len(Ahead(l)) + k
  <2>1. i - (f - 1) \in DOMAIN Behind(l) /\ i = Len(Ahead(l)) + (i - (f - 1))
    BY <1>0, <1>1, <1>3, <1>4, <1>8
  <2> QED BY <2>1
<1>9. ASSUME NEW k \in DOMAIN Behind(l) PROVE Len(Ahead(l)) + k \in DOMAIN l /\ Behind(l)[k] = l[Len(Ahead(l)) + k]
  <2>1. k \in 1 .. (Len(l) - (f - 1)) /\ (f - 1) + k \in 1 .. Len(l)
    BY <1>0, <1>1, <1>4
  <2>2. Behind(l)[k] = l[(f - 1) + k]
    BY <1>4, <2>1
  <2> QED BY <1>0, <1>3, <2>1, <2>2
<1> QED BY <1>3, <1>4, <1>5, <1>6, <1>7, <1>8, <1>9

(* A rule that stays has before it only rules that were before it.         *)
KeepsOrder(l, kept, hosts) ==
    \A i \in DOMAIN l : l[i].host \in hosts =>
        \E p \in DOMAIN kept : kept[p] = l[i] /\ \A q \in 1 .. (p - 1) : \E j \in 1 .. (i - 1) : kept[q] = l[j]

(* The filter keeps what it should, in order.                              *)
LEMMA OnlyKeeps ==
    ASSUME NEW l \in Seq(Rules), NEW hosts
    PROVE  /\ Only(l, hosts) \in Seq(Rules)
           /\ Range(Only(l, hosts)) = {l[i] : i \in {j \in DOMAIN l : l[j].host \in hosts}}
           /\ KeepsOrder(l, Only(l, hosts), hosts)
<1> DEFINE stays(i) == l[i].host \in hosts
           grow(f, i) == IF i = 0 THEN <<>>
                         ELSE IF stays(i) THEN Append(f[i - 1], l[i])
                         ELSE f[i - 1]
           IsUpTo(f, n) == f = [i \in 0 .. n |-> grow(f, i)]
<1>0. Len(l) \in Nat /\ DOMAIN l = 1 .. Len(l) /\ \A i \in 1 .. Len(l) : l[i] \in Rules
  OBVIOUS
<1>1. \A n \in Nat : \E f : IsUpTo(f, n)
  <2> DEFINE P == {n \in Nat : ~ \E f : IsUpTo(f, n)}
  <2> SUFFICES ASSUME P # {} PROVE FALSE
    OBVIOUS
  <2>1. PICK m \in P : \A n \in P : m <= n
    <3> HIDE DEF IsUpTo
    <3> QED BY Smallest
  <2>2. IsUpTo([i \in 0 .. 0 |-> <<>>], 0)
    OBVIOUS
  <2>3. m \in Nat /\ m # 0
    <3> HIDE DEF IsUpTo
    <3> QED BY <2>1, <2>2
  <2>4. m - 1 \in Nat /\ m - 1 \notin P
    <3> HIDE DEF P
    <3> QED BY <2>1, <2>3
  <2>5. PICK f : IsUpTo(f, m - 1)
    BY <2>4
  <2> DEFINE g == [i \in 0 .. m |-> IF i < m THEN f[i] ELSE grow(f, m)]
  <2>6. \A i \in 0 .. m : g[i] = grow(g, i)
    <3> SUFFICES ASSUME NEW i \in 0 .. m PROVE g[i] = grow(g, i)
      OBVIOUS
    <3>1. i # 0 => g[i - 1] = f[i - 1]
      BY <2>3
    <3>2. grow(g, i) = grow(f, i)
      <4> HIDE DEF g
      <4> QED BY <3>1
    <3>3. i < m => f[i] = grow(f, i)
      <4> HIDE DEF grow
      <4> QED BY <2>3, <2>5
    <3>4. g[i] = IF i < m THEN f[i] ELSE grow(f, m)
      BY DEF g
    <3>5. i < m \/ i = m
      BY <2>3
    <3> HIDE DEF g, grow
    <3> QED BY <3>2, <3>3, <3>4, <3>5
  <2>7. IsUpTo(g, m)
    <3> HIDE DEF grow
    <3>1. g = [i \in 0 .. m |-> g[i]]
      OBVIOUS
    <3> HIDE DEF g
    <3> QED BY <3>1, <2>6
  <2> QED BY <2>1, <2>7
<1>2. PICK f : IsUpTo(f, Len(l)) /\ Only(l, hosts) = f[Len(l)]
  <2> DEFINE f == CHOOSE f : IsUpTo(f, Len(l))
  <2>1. IsUpTo(f, Len(l))
    <3> HIDE DEF IsUpTo
    <3> QED BY <1>0, <1>1
  <2>2. Only(l, hosts) = f[Len(l)]
    BY DEF Only
  <2> HIDE DEF f, IsUpTo
  <2> QED BY <2>1, <2>2
<1> DEFINE InOrder(r, i) == \E p \in DOMAIN r : /\ r[p] = l[i]
                                                /\ \A q \in 1 .. (p - 1) : \E j \in 1 .. (i - 1) : r[q] = l[j]
           Good(n) == /\ f[n] \in Seq(Rules)
                      /\ Range(f[n]) = {l[i] : i \in {j \in 1 .. n : stays(j)}}
                      /\ \A i \in 1 .. n : stays(i) => InOrder(f[n], i)
<1>3. \A i \in 0 .. Len(l) : f[i] = grow(f, i)
  <2> HIDE DEF grow
  <2> QED BY <1>2
<1>4. Good(0)
  <2>1. f[0] = <<>>
    BY <1>3, <1>0
  <2> QED BY <2>1 DEF Range
<1>5. ASSUME NEW n \in 1 .. Len(l), Good(n - 1) PROVE Good(n)
  <2> DEFINE s == f[n - 1]
             before == {j \in 1 .. (n - 1) : stays(j)}
             upto == {j \in 1 .. n : stays(j)}
  <2>1. s \in Seq(Rules) /\ Range(s) = {l[i] : i \in before} /\ l[n] \in Rules
        /\ \A i \in 1 .. (n - 1) : stays(i) => InOrder(s, i)
    <3> HIDE DEF InOrder
    <3> QED BY <1>0, <1>5
  <2>2. f[n] = IF stays(n) THEN Append(s, l[n]) ELSE s
    BY <1>0, <1>3
  <2>3. upto = IF stays(n) THEN before \cup {n} ELSE before
    <3>1. 1 .. n = (1 .. (n - 1)) \cup {n}
      BY <1>0
    <3> HIDE DEF stays
    <3> QED BY <3>1
  <2> HIDE DEF s, before
  <2>4. Range(Append(s, l[n])) = Range(s) \cup {l[n]}
    BY <2>1, RangeOfAppend
  <2>5. {l[i] : i \in before \cup {n}} = {l[i] : i \in before} \cup {l[n]}
    OBVIOUS
  <2>6. CASE stays(n)
    <3>1. f[n] = Append(s, l[n]) /\ upto = before \cup {n}
      <4> HIDE DEF stays, upto
      <4> QED BY <2>2, <2>3, <2>6
    <3> DEFINE r == Append(s, l[n])
    <3>2. r \in Seq(Rules) /\ Len(r) = Len(s) + 1 /\ Len(s) \in Nat /\ DOMAIN s = 1 .. Len(s)
          /\ DOMAIN r = 1 .. (Len(s) + 1) /\ r[Len(s) + 1] = l[n]
      BY <2>1
    <3>3. \A p \in 1 .. Len(s) : r[p] = s[p]
      BY <2>1
    <3> HIDE DEF r
    <3>4. ASSUME NEW i \in 1 .. (n - 1), stays(i) PROVE InOrder(r, i)
      <4>1. PICK p \in DOMAIN s : s[p] = l[i] /\ \A q \in 1 .. (p - 1) : \E j \in 1 .. (i - 1) : s[q] = l[j]
        BY <2>1, <3>4
      <4>2. p \in DOMAIN r /\ r[p] = l[i] /\ \A q \in 1 .. (p - 1) : r[q] = s[q]
        BY <3>2, <3>3, <4>1
      <4> QED BY <4>1, <4>2
    <3>5. InOrder(r, n)
      <4>1. \A q \in 1 .. Len(s) : r[q] \in Range(s)
        BY <3>2, <3>3 DEF Range
      <4>2. \A q \in 1 .. Len(s) : \E j \in 1 .. (n - 1) : r[q] = l[j]
        BY <2>1, <4>1 DEF before
      <4> QED BY <3>2, <4>2
    <3>6. \A i \in 1 .. n : i \in 1 .. (n - 1) \/ i = n
      BY <1>0
    <3> HIDE DEF stays, upto, InOrder
    <3>7. Range(f[n]) = {l[i] : i \in upto}
      BY <2>1, <2>4, <2>5, <3>1
    <3> QED BY <3>1, <3>2, <3>4, <3>5, <3>6, <3>7 DEF r, upto
  <2>7. CASE ~stays(n)
    <3> HIDE DEF stays, InOrder
    <3>1. f[n] = s /\ upto = before
      BY <2>2, <2>3, <2>7
    <3>2. \A i \in 1 .. n : i \in 1 .. (n - 1) \/ i = n
      BY <1>0
    <3> QED BY <2>1, <2>7, <3>1, <3>2
  <2> QED BY <2>6, <2>7
<1>6. \A n \in 0 .. Len(l) : Good(n)
  <2> DEFINE P == {n \in 0 .. Len(l) : ~Good(n)}
  <2> HIDE DEF Good
  <2> SUFFICES ASSUME P # {} PROVE FALSE
    OBVIOUS
  <2>1. PICK m \in P : \A n \in P : m <= n
    <3>1. P \subseteq Nat
      BY <1>0
    <3> HIDE DEF P
    <3> QED BY <3>1, Smallest
  <2>2. m # 0 /\ m \in 1 .. Len(l) /\ m - 1 \in 0 .. Len(l) /\ m - 1 \notin P
    BY <1>0, <1>4, <2>1
  <2> QED BY <1>5, <2>1, <2>2
<1>7. Good(Len(l))
  <2> HIDE DEF Good
  <2> QED BY <1>0, <1>6
<1> HIDE DEF grow, IsUpTo
<1> QED BY <1>0, <1>2, <1>7 DEF KeepsOrder

LEMMA OnlyWithin ==
    ASSUME NEW l \in Seq(Rules), NEW hosts
    PROVE  /\ Only(l, hosts) \in Seq(Rules) /\ Range(Only(l, hosts)) \subseteq Range(l)
           /\ \A r \in Range(Only(l, hosts)) : r.host \in hosts
<1>1. /\ Only(l, hosts) \in Seq(Rules)
      /\ Range(Only(l, hosts)) = {l[i] : i \in {j \in DOMAIN l : l[j].host \in hosts}}
  BY OnlyKeeps
<1> QED BY <1>1 DEF Range

LEMMA OnlyInOrder ==
    ASSUME NEW l \in Seq(Rules), NEW hosts, NEW i \in DOMAIN l, l[i].host \in hosts
    PROVE  \E p \in DOMAIN Only(l, hosts) :
              /\ Only(l, hosts)[p] = l[i]
              /\ \A q \in 1 .. (p - 1) : \E j \in 1 .. (i - 1) : Only(l, hosts)[q] = l[j]
<1> DEFINE kept == Only(l, hosts)
<1>1. KeepsOrder(l, kept, hosts)
  BY OnlyKeeps
<1> HIDE DEF kept
<1>2. \E p \in DOMAIN kept : kept[p] = l[i] /\ \A q \in 1 .. (p - 1) : \E j \in 1 .. (i - 1) : kept[q] = l[j]
  BY <1>1 DEF KeepsOrder
<1> QED BY <1>2 DEF kept

(* The first rule of a name is found first among the rules of exe's names. *)
LEMMA FoundAmong ==
    ASSUME NEW l \in Seq(Rules), NEW hosts, hosts \subseteq Hostname, NEW h \in hosts, NEW s,
           NEW k \in DOMAIN l, l[k] = Rule(h, s), \A j \in 1 .. (k - 1) : l[j].host # h
    PROVE  Reaches(Only(l, hosts), h, s)
<1> DEFINE mine == Only(l, hosts)
<1>1. l[k].host \in hosts /\ l[k].host = h
  BY DEF Rule
<1>2. PICK p \in DOMAIN mine : mine[p] = l[k] /\ \A q \in 1 .. (p - 1) : \E j \in 1 .. (k - 1) : mine[q] = l[j]
  BY <1>1, OnlyInOrder
<1>3. mine \in Seq(Rules) /\ \A r \in Range(mine) : r.host \in hosts
  BY OnlyWithin
<1> HIDE DEF mine
<1>4. ASSUME NEW q \in 1 .. (p - 1) PROVE mine[q].host \notin {h, Wildcard, CatchAll}
  <2>1. mine[q].host # h
    BY <1>2
  <2>2. q \in DOMAIN mine
    BY <1>2, <1>3
  <2>3. mine[q] \in Range(mine)
    BY <2>2 DEF Range
  <2>4. mine[q].host \in Hostname
    BY <1>3, <2>3
  <2> QED BY <2>1, <2>4, RoutesAssumption
<1>5. Reaches(mine, h, s)
  BY <1>2, <1>4 DEF Reaches
<1> QED BY <1>5 DEF mine

LEMMA RangeJoined ==
    ASSUME NEW l \in Seq(Rules), NEW r \in Seq(Rules)
    PROVE  Range(l \o r) = Range(l) \cup Range(r)
<1>0. /\ l \o r \in Seq(Rules) /\ Len(l \o r) = Len(l) + Len(r) /\ Len(l) \in Nat /\ Len(r) \in Nat
      /\ DOMAIN l = 1 .. Len(l) /\ DOMAIN r = 1 .. Len(r) /\ DOMAIN (l \o r) = 1 .. (Len(l) + Len(r))
      /\ \A i \in 1 .. Len(l) : (l \o r)[i] = l[i]
      /\ \A i \in 1 .. Len(r) : (l \o r)[Len(l) + i] = r[i]
  BY Joined
<1>1. ASSUME NEW i \in DOMAIN (l \o r) PROVE (l \o r)[i] \in Range(l) \cup Range(r)
  <2>1. CASE i <= Len(l)
    BY <1>0, <2>1 DEF Range
  <2>2. CASE ~(i <= Len(l))
    <3>1. i - Len(l) \in 1 .. Len(r) /\ Len(l) + (i - Len(l)) = i
      BY <1>0, <2>2
    <3>2. (l \o r)[Len(l) + (i - Len(l))] = r[i - Len(l)]
      BY <1>0, <3>1
    <3> QED BY <1>0, <3>1, <3>2 DEF Range
  <2> QED BY <2>1, <2>2
<1>2. \A i \in DOMAIN l : i \in DOMAIN (l \o r) /\ (l \o r)[i] = l[i]
  BY <1>0
<1>3. \A i \in DOMAIN r : Len(l) + i \in DOMAIN (l \o r) /\ (l \o r)[Len(l) + i] = r[i]
  BY <1>0
<1>4. Range(l \o r) \subseteq Range(l) \cup Range(r)
  BY <1>1 DEF Range
<1>5. Range(l) \subseteq Range(l \o r) /\ Range(r) \subseteq Range(l \o r)
  BY <1>2, <1>3 DEF Range
<1> QED BY <1>4, <1>5

(* What is reached stands before every wildcard.                           *)
LEMMA AheadReaches ==
    ASSUME NEW l \in Seq(Rules), NEW h \in Hostname, NEW s, Reaches(l, h, s)
    PROVE  Reaches(Ahead(l), h, s)
<1>1. PICK i \in DOMAIN l : l[i] = Rule(h, s) /\ \A j \in 1 .. (i - 1) : l[j].host \notin {h, Wildcard, CatchAll}
  BY DEF Reaches
<1>2. h \notin {Wildcard, CatchAll} /\ i \in Nat /\ l[i].host = h
  BY <1>1, RoutesAssumption DEF Rule
<1>3. \A j \in 1 .. i : ~IsShadow(l[j])
  <2> SUFFICES ASSUME NEW j \in 1 .. i PROVE ~IsShadow(l[j])
    OBVIOUS
  <2>1. j = i \/ j \in 1 .. (i - 1)
    BY <1>2
  <2> QED BY <1>1, <1>2, <2>1 DEF IsShadow
<1>4. i \in DOMAIN Ahead(l) /\ Ahead(l) \in Seq(Rules) /\ \A j \in DOMAIN Ahead(l) : Ahead(l)[j] = l[j]
  BY <1>3, AroundShadow
<1>5. \A j \in 1 .. (i - 1) : j \in DOMAIN Ahead(l)
  BY <1>4
<1> QED BY <1>1, <1>4, <1>5 DEF Reaches

LEMMA AheadLetsPass ==
    ASSUME NEW l \in Seq(Rules), NEW h, \A i \in DOMAIN Ahead(l) : l[i].host # h
    PROVE  LetsPass(Ahead(l), h)
BY AroundShadow DEF LetsPass, IsShadow

LEMMA HoistKeeps ==
    ASSUME NEW l \in Seq(Rules), NEW managed
    PROVE  /\ hoistIngress(l, managed) \in Seq(Rules)
           /\ Range(hoistIngress(l, managed)) \subseteq Range(l)
           /\ \A h \in Hostname : \A s : Reaches(l, h, s) => Reaches(hoistIngress(l, managed), h, s)
<1> DEFINE a == Ahead(l)
           mine == Only(Behind(l), managed)
           rest == Only(Behind(l), Names \ managed)
<1>1. a \in Seq(Rules) /\ Behind(l) \in Seq(Rules) /\ Range(a) \subseteq Range(l) /\ Range(Behind(l)) \subseteq Range(l)
  BY AroundShadow
<1>2. mine \in Seq(Rules) /\ rest \in Seq(Rules) /\ Range(mine) \subseteq Range(Behind(l)) /\ Range(rest) \subseteq Range(Behind(l))
  BY <1>1, OnlyWithin
<1>3. hoistIngress(l, managed) = (a \o mine) \o rest
  BY DEF hoistIngress
<1>4. ASSUME NEW h \in Hostname, NEW s, Reaches(l, h, s) PROVE Reaches(a, h, s)
  BY <1>4, AheadReaches
<1> HIDE DEF a, mine, rest
<1>5. a \o mine \in Seq(Rules) /\ Range(a \o mine) = Range(a) \cup Range(mine)
  BY <1>1, <1>2, RangeJoined, Joined
<1>6. (a \o mine) \o rest \in Seq(Rules) /\ Range((a \o mine) \o rest) = Range(a \o mine) \cup Range(rest)
  BY <1>2, <1>5, RangeJoined, Joined
<1>7. ASSUME NEW h \in Hostname, NEW s, Reaches(a, h, s) PROVE Reaches((a \o mine) \o rest, h, s)
  BY <1>1, <1>2, <1>5, <1>7, ReachesInFront
<1> QED BY <1>1, <1>2, <1>3, <1>4, <1>5, <1>6, <1>7

LEMMA CatchAllKeeps ==
    ASSUME NEW l \in Seq(Rules)
    PROVE  /\ ensureCatchAll(l) \in Seq(Rules)
           /\ Range(ensureCatchAll(l)) \subseteq Range(l) \cup {Rule(CatchAll, "404")}
           /\ \A h \in Hostname : \A s : Reaches(l, h, s) => Reaches(ensureCatchAll(l), h, s)
<1>1. Rule(CatchAll, "404") \in Rules
  BY DEF Rule, Rules, Names
<1> DEFINE only404 == <<Rule(CatchAll, "404")>>
<1>2. only404 \in Seq(Rules) /\ Append(l, Rule(CatchAll, "404")) = l \o only404
  BY <1>1
<1>3. Append(l, Rule(CatchAll, "404")) \in Seq(Rules)
      /\ Range(Append(l, Rule(CatchAll, "404"))) = Range(l) \cup {Rule(CatchAll, "404")}
  BY <1>1, RangeOfAppend
<1> HIDE DEF only404
<1>4. \A h \in Hostname : \A s : Reaches(l, h, s) => Reaches(l \o only404, h, s)
  BY <1>2, ReachesInFront
<1> QED BY <1>2, <1>3, <1>4 DEF ensureCatchAll

(* Moving exe's rules ahead of the first wildcard makes the first rule of  *)
(* a name the first to match it.                                           *)
LEMMA HoistBrings ==
    ASSUME NEW l \in Seq(Rules), NEW managed, managed \subseteq Hostname, NEW h \in managed, NEW s,
           NEW f \in DOMAIN l, l[f] = Rule(h, s), \A j \in 1 .. (f - 1) : l[j].host # h
    PROVE  Reaches(hoistIngress(l, managed), h, s)
<1>0. Len(l) \in Nat /\ DOMAIN l = 1 .. Len(l) /\ h \in Hostname /\ h \notin {Wildcard, CatchAll} /\ l[f].host = h
  BY RoutesAssumption DEF Rule
<1>1. CASE f \in DOMAIN Ahead(l)
  <2>1. Ahead(l) \in Seq(Rules) /\ \A i \in DOMAIN Ahead(l) : ~IsShadow(l[i])
    BY AroundShadow
  <2>2. \A j \in 1 .. f : j \in DOMAIN Ahead(l)
    BY <1>1, <2>1
  <2>3. \A j \in 1 .. (f - 1) : l[j].host \notin {h, Wildcard, CatchAll}
    <3> SUFFICES ASSUME NEW j \in 1 .. (f - 1) PROVE l[j].host \notin {h, Wildcard, CatchAll}
      OBVIOUS
    <3>1. j \in 1 .. f
      BY <1>0
    <3> QED BY <2>1, <2>2, <3>1 DEF IsShadow
  <2>4. Reaches(l, h, s)
    BY <2>3 DEF Reaches
  <2> QED BY <1>0, <2>4, HoistKeeps
<1>2. CASE f \notin DOMAIN Ahead(l)
  <2> DEFINE a == Ahead(l)
             b == Behind(l)
             mine == Only(b, managed)
             rest == Only(b, Names \ managed)
  <2>1. /\ a \in Seq(Rules) /\ b \in Seq(Rules) /\ \A i \in DOMAIN a : i \in DOMAIN l
        /\ \A k \in DOMAIN b : Len(a) + k \in DOMAIN l /\ b[k] = l[Len(a) + k]
    BY AroundShadow
  <2>2. PICK k \in DOMAIN b : f = Len(a) + k
    BY <1>2, AroundShadow
  <2>3. Len(a) \in Nat /\ DOMAIN a = 1 .. Len(a) /\ Len(b) \in Nat /\ DOMAIN b = 1 .. Len(b)
    BY <2>1
  <2>4. b[k] = Rule(h, s)
    BY <2>1, <2>2
  <2>5. ASSUME NEW j \in 1 .. (k - 1) PROVE b[j].host # h
    <3>1. k \in 1 .. Len(b) /\ j \in 1 .. Len(b) /\ j < k
      BY <2>2, <2>3
    <3> HIDE DEF a, b
    <3>2. j \in DOMAIN b /\ Len(a) + j \in 1 .. (f - 1)
      BY <2>2, <2>3, <3>1
    <3>3. b[j] = l[Len(a) + j]
      BY <2>1, <3>2
    <3> QED BY <3>2, <3>3
  <2>6. LetsPass(a, h)
    <3>1. ASSUME NEW i \in DOMAIN a PROVE l[i].host # h
      <4>1. i \in 1 .. (f - 1)
        <5> HIDE DEF a, b
        <5> QED BY <2>2, <2>3
      <4> QED BY <4>1
    <3> QED BY <3>1, AheadLetsPass
  <2> HIDE DEF a, b
  <2>7. mine \in Seq(Rules) /\ rest \in Seq(Rules)
    BY <2>1, OnlyWithin
  <2>8. Reaches(mine, h, s)
    <3> HIDE DEF rest
    <3> QED BY <2>1, <2>2, <2>4, <2>5, FoundAmong
  <2> HIDE DEF mine, rest
  <2>9. Reaches(a \o mine, h, s) /\ a \o mine \in Seq(Rules)
    BY <2>1, <2>6, <2>7, <2>8, ReachesBehind, Joined
  <2>10. Reaches((a \o mine) \o rest, h, s)
    BY <2>7, <2>9, ReachesInFront
  <2> QED BY <2>10 DEF hoistIngress, a, b, mine, rest
<1> QED BY <1>1, <1>2

(* EnsureIngress: the name is reached, no other is lost, and nothing else  *)
(* is put in but a catch-all.                                              *)
LEMMA EnsureReaches ==
    ASSUME NEW l \in Seq(Rules), NEW h \in Hostname, NEW s \in Service
    PROVE  /\ EnsureIngress(l, h, s) \in Seq(Rules)
           /\ Range(EnsureIngress(l, h, s)) \subseteq Range(l) \cup {Rule(h, s), Rule(CatchAll, "404")}
           /\ Reaches(EnsureIngress(l, h, s), h, s)
           /\ \A k \in Hostname \ {h} : \A z : Reaches(l, k, z) => Reaches(EnsureIngress(l, h, s), k, z)
<1>0. Len(l) \in Nat /\ DOMAIN l = 1 .. Len(l) /\ Rule(h, s) \in Rules /\ Rule(h, s).host = h
      /\ h \notin {Wildcard, CatchAll}
  BY RoutesAssumption DEF Rule, Rules, Names
<1>1. CASE Named(l, h) # {}
  <2> DEFINE f == First(Named(l, h))
             set == [l EXCEPT ![f] = Rule(h, s)]
  <2>1. f \in DOMAIN l /\ l[f].host = h /\ \A j \in DOMAIN l : l[j].host = h => f <= j
    <3>1. Named(l, h) \subseteq Nat
      BY <1>0 DEF Named
    <3>2. f \in Named(l, h) /\ \A j \in Named(l, h) : f <= j
      BY <1>1, <3>1, FirstIsLeast
    <3> QED BY <3>2 DEF Named
  <2> HIDE DEF f
  <2>2. /\ set \in Seq(Rules) /\ DOMAIN set = DOMAIN l /\ set[f] = Rule(h, s)
        /\ \A i \in DOMAIN l : i # f => set[i] = l[i]
        /\ \A i \in DOMAIN l : set[i].host = l[i].host
    BY <1>0, <2>1
  <2>3. EnsureIngress(l, h, s) = hoistIngress(set, {h})
    BY <1>1 DEF EnsureIngress, f
  <2> HIDE DEF set
  <2>4. Range(set) \subseteq Range(l) \cup {Rule(h, s)}
    BY <2>2 DEF Range
  <2>5. ASSUME NEW k \in Hostname \ {h}, NEW z, Reaches(l, k, z) PROVE Reaches(set, k, z)
    <3>1. PICK i \in DOMAIN l : l[i] = Rule(k, z) /\ \A j \in 1 .. (i - 1) : l[j].host \notin {k, Wildcard, CatchAll}
      BY <2>5 DEF Reaches
    <3>2. i # f /\ \A j \in 1 .. (i - 1) : j \in DOMAIN l
      BY <1>0, <2>1, <3>1 DEF Rule
    <3> QED BY <2>2, <3>1, <3>2 DEF Reaches
  <2>6. Reaches(hoistIngress(set, {h}), h, s)
    <3> DEFINE only == {h}
    <3>1. only \subseteq Hostname /\ h \in only
      OBVIOUS
    <3>2. f \in DOMAIN set /\ \A j \in 1 .. (f - 1) : set[j].host # h
      <4> SUFFICES ASSUME NEW j \in 1 .. (f - 1) PROVE set[j].host # h
        BY <2>1, <2>2
      <4>1. j \in DOMAIN l /\ ~(f <= j)
        BY <1>0, <2>1
      <4> QED BY <2>1, <2>2, <4>1
    <3> HIDE DEF only
    <3>3. Reaches(hoistIngress(set, only), h, s)
      BY <2>2, <3>1, <3>2, HoistBrings
    <3> QED BY <3>3 DEF only
  <2> QED BY <2>2, <2>3, <2>4, <2>5, <2>6, HoistKeeps
<1>2. CASE Named(l, h) = {}
  <2> DEFINE a == Ahead(l)
             b == Behind(l)
             one == <<Rule(h, s)>>
  <2>1. a \in Seq(Rules) /\ b \in Seq(Rules) /\ Range(a) \subseteq Range(l) /\ Range(b) \subseteq Range(l)
        /\ \A i \in DOMAIN a : i \in DOMAIN l
    BY AroundShadow
  <2>2. LetsPass(a, h)
    BY <1>2, <2>1, AheadLetsPass DEF Named
  <2>3. one \in Seq(Rules) /\ Range(one) = {Rule(h, s)} /\ Reaches(one, h, s)
    <3>1. one \in Seq(Rules) /\ DOMAIN one = 1 .. 1 /\ one[1] = Rule(h, s)
      BY <1>0
    <3> HIDE DEF one
    <3> QED BY <3>1 DEF Range, Reaches
  <2>4. \A k \in Hostname : \A z : Reaches(l, k, z) => Reaches(a, k, z)
    BY AheadReaches
  <2>5. EnsureIngress(l, h, s) = ensureCatchAll((a \o one) \o b)
    BY <1>2 DEF EnsureIngress, insertIngress
  <2> HIDE DEF a, b, one
  <2>6. a \o one \in Seq(Rules) /\ Range(a \o one) = Range(a) \cup Range(one) /\ Reaches(a \o one, h, s)
        /\ \A k \in Hostname : \A z : Reaches(l, k, z) => Reaches(a \o one, k, z)
    BY <2>1, <2>2, <2>3, <2>4, RangeJoined, Joined, ReachesInFront, ReachesBehind
  <2> DEFINE all == (a \o one) \o b
  <2>7. all \in Seq(Rules) /\ Range(all) = Range(a \o one) \cup Range(b) /\ Reaches(all, h, s)
        /\ \A k \in Hostname : \A z : Reaches(l, k, z) => Reaches(all, k, z)
    BY <2>1, <2>6, RangeJoined, Joined, ReachesInFront
  <2> HIDE DEF all
  <2>8. ensureCatchAll(all) \in Seq(Rules) /\ Range(ensureCatchAll(all)) \subseteq Range(all) \cup {Rule(CatchAll, "404")}
        /\ Reaches(ensureCatchAll(all), h, s)
        /\ \A k \in Hostname : \A z : Reaches(l, k, z) => Reaches(ensureCatchAll(all), k, z)
    BY <2>7, CatchAllKeeps
  <2> QED BY <2>1, <2>3, <2>5, <2>6, <2>7, <2>8 DEF all
<1> QED BY <1>1, <1>2

(* RemoveIngress: the name has no rule left, and every other is reached as  *)
(* before.                                                                  *)
LEMMA RemoveReaches ==
    ASSUME NEW l \in Seq(Rules), NEW h \in Names
    PROVE  /\ RemoveIngress(l, h) \in Seq(Rules)
           /\ Range(RemoveIngress(l, h)) \subseteq Range(l)
           /\ \A r \in Range(RemoveIngress(l, h)) : r.host # h
           /\ \A k \in Hostname \ {h} : \A s : Reaches(l, k, s) => Reaches(RemoveIngress(l, h), k, s)
<1> DEFINE hosts == Names \ {h}
           left == Only(l, hosts)
<1>1. left \in Seq(Rules) /\ Range(left) \subseteq Range(l) /\ \A r \in Range(left) : r.host \in hosts
  BY OnlyWithin
<1>2. RemoveIngress(l, h) = left
  BY DEF RemoveIngress
<1>3. ASSUME NEW k \in Hostname \ {h}, NEW s, Reaches(l, k, s) PROVE Reaches(left, k, s)
  <2>1. PICK i \in DOMAIN l : l[i] = Rule(k, s) /\ \A j \in 1 .. (i - 1) : l[j].host \notin {k, Wildcard, CatchAll}
    BY <1>3 DEF Reaches
  <2>2. l[i].host \in hosts
    BY <2>1 DEF Rule, Names
  <2> HIDE DEF hosts
  <2>3. PICK p \in DOMAIN left : left[p] = l[i] /\ \A q \in 1 .. (p - 1) : \E j \in 1 .. (i - 1) : left[q] = l[j]
    BY <2>2, OnlyInOrder
  <2> HIDE DEF left
  <2> QED BY <2>1, <2>3 DEF Reaches
<1>4. \A r \in Range(left) : r.host # h
  BY <1>1 DEF hosts
<1> HIDE DEF left
<1> QED BY <1>1, <1>2, <1>3, <1>4

(* The new rules of a sync reach each name they are for.                   *)
LEMMA RulesForReach ==
    ASSUME NEW hosts, IsFiniteSet(hosts), hosts \subseteq Hostname, NEW s \in Service
    PROVE  /\ RulesFor(hosts, s) \in Seq(Rules)
           /\ Range(RulesFor(hosts, s)) \subseteq {Rule(h, s) : h \in hosts}
           /\ \A h \in hosts : Reaches(RulesFor(hosts, s), h, s)
<1> DEFINE n == Cardinality(hosts)
           order == CHOOSE o \in [1 .. n -> hosts] : Range(o) = hosts
           new == [i \in 1 .. n |-> Rule(order[i], s)]
<1>1. n \in Nat /\ \E o \in [1 .. n -> hosts] : Range(o) = hosts
  <2>1. n \in Nat
    BY FS_CardinalityType
  <2>2. PICK o \in Bijection(1 .. n, hosts) : TRUE
    BY FS_CardinalityType DEF ExistsBijection
  <2>3. o \in [1 .. n -> hosts] /\ \A h \in hosts : \E i \in 1 .. n : o[i] = h
    BY <2>2 DEF Bijection, Injection, Surjection
  <2>4. Range(o) = hosts
    BY <2>3 DEF Range
  <2> QED BY <2>1, <2>3, <2>4
<1>2. order \in [1 .. n -> hosts] /\ Range(order) = hosts
  <2> HIDE DEF n
  <2> QED BY <1>1
<1>3. RulesFor(hosts, s) = new
  BY DEF RulesFor
<1> HIDE DEF order, n
<1>4. \A h \in Hostname : Rule(h, s) \in Rules /\ Rule(h, s).host = h
  BY DEF Rule, Rules, Names
<1>5. new \in Seq(Rules) /\ DOMAIN new = 1 .. n /\ \A i \in 1 .. n : new[i] = Rule(order[i], s)
  <2>1. \A i \in 1 .. n : Rule(order[i], s) \in Rules
    BY <1>2, <1>4
  <2> QED BY <1>1, <2>1
<1> HIDE DEF new
<1>6. Range(new) \subseteq {Rule(h, s) : h \in hosts}
  BY <1>2, <1>5 DEF Range
<1>7. ASSUME NEW h \in hosts PROVE Reaches(new, h, s)
  <2> DEFINE S == {i \in 1 .. n : order[i] = h}
  <2>1. S \subseteq Nat /\ S # {}
    <3>1. h \in {order[i] : i \in DOMAIN order} /\ DOMAIN order = 1 .. n
      BY <1>2 DEF Range
    <3>2. PICK i \in 1 .. n : order[i] = h
      BY <3>1
    <3> QED BY <1>1, <3>2
  <2>2. PICK i \in S : \A j \in S : i <= j
    <3> HIDE DEF S
    <3> QED BY <2>1, Smallest
  <2>3. ASSUME NEW j \in 1 .. (i - 1) PROVE new[j].host \notin {h, Wildcard, CatchAll}
    <3>1. j \in 1 .. n /\ ~(i <= j)
      BY <1>1, <2>2
    <3>2. order[j] # h /\ order[j] \in hosts
      BY <1>2, <2>2, <3>1
    <3>3. new[j].host = order[j]
      BY <1>4, <1>5, <3>1, <3>2
    <3>4. order[j] \notin {Wildcard, CatchAll}
      BY <3>2, RoutesAssumption
    <3> QED BY <3>2, <3>3, <3>4
  <2>4. i \in 1 .. n /\ new[i] = Rule(h, s)
    BY <1>5, <2>2
  <2> QED BY <1>5, <2>3, <2>4 DEF Reaches
<1> QED BY <1>3, <1>5, <1>6, <1>7

(* SyncIngress: each name is reached at the new service, and nothing else  *)
(* is put in but a catch-all.                                              *)
LEMMA SyncReaches ==
    ASSUME NEW l \in Seq(Rules), NEW hosts, IsFiniteSet(hosts), hosts \subseteq Hostname, NEW s \in Service
    PROVE  /\ SyncIngress(l, hosts, s) \in Seq(Rules)
           /\ Range(SyncIngress(l, hosts, s)) \subseteq
                 Range(l) \cup {Rule(h, s) : h \in hosts} \cup {Rule(CatchAll, "404")}
           /\ \A h \in hosts : Reaches(SyncIngress(l, hosts, s), h, s)
<1> DEFINE set == [i \in DOMAIN l |-> IF l[i].host \in hosts THEN Rule(l[i].host, s) ELSE l[i]]
           hoisted == hoistIngress(set, hosts)
           missing == {h \in hosts : Named(l, h) = {}}
           new == {Rule(h, s) : h \in hosts}
<1>0. Len(l) \in Nat /\ DOMAIN l = 1 .. Len(l) /\ \A h \in Hostname : Rule(h, s) \in Rules /\ Rule(h, s).host = h
  BY DEF Rule, Rules, Names
<1>1. /\ set \in Seq(Rules) /\ DOMAIN set = DOMAIN l
      /\ \A i \in DOMAIN l : set[i].host = l[i].host /\ (l[i].host \in hosts => set[i] = Rule(l[i].host, s))
      /\ \A i \in DOMAIN l : set[i] = l[i] \/ set[i] \in new
  <2>1. \A i \in DOMAIN l : l[i] \in Rules
    BY <1>0
  <2>2. \A i \in 1 .. Len(l) : (IF l[i].host \in hosts THEN Rule(l[i].host, s) ELSE l[i]) \in Rules
    BY <1>0, <2>1
  <2>3. set \in Seq(Rules) /\ DOMAIN set = DOMAIN l
    BY <1>0, <2>2
  <2>4. \A i \in DOMAIN l : set[i] = IF l[i].host \in hosts THEN Rule(l[i].host, s) ELSE l[i]
    OBVIOUS
  <2> HIDE DEF set
  <2> QED BY <1>0, <2>3, <2>4
<1> HIDE DEF set, new
<1>2. Range(set) \subseteq Range(l) \cup new
  BY <1>1 DEF Range
<1>3. hoisted \in Seq(Rules) /\ Range(hoisted) \subseteq Range(set)
  BY <1>1, HoistKeeps
<1>4. ASSUME NEW h \in hosts, Named(l, h) # {} PROVE Reaches(hoisted, h, s)
  <2> DEFINE f == First(Named(l, h))
  <2>1. f \in DOMAIN l /\ l[f].host = h /\ \A j \in DOMAIN l : l[j].host = h => f <= j
    <3>1. Named(l, h) \subseteq Nat
      BY <1>0 DEF Named
    <3>2. f \in Named(l, h) /\ \A j \in Named(l, h) : f <= j
      BY <1>4, <3>1, FirstIsLeast
    <3> QED BY <3>2 DEF Named
  <2> HIDE DEF f
  <2>2. set[f] = Rule(h, s)
    BY <1>1, <2>1
  <2>3. ASSUME NEW j \in 1 .. (f - 1) PROVE set[j].host # h
    <3>1. j \in DOMAIN l /\ ~(f <= j)
      BY <1>0, <2>1
    <3> QED BY <1>1, <2>1, <3>1
  <2> QED BY <1>1, <2>1, <2>2, <2>3, HoistBrings
<1>5. SyncIngress(l, hosts, s) =
         IF missing = {} THEN hoisted ELSE ensureCatchAll(Ahead(hoisted) \o RulesFor(missing, s) \o Behind(hoisted))
  BY DEF SyncIngress, set
<1> HIDE DEF hoisted
<1>6. CASE missing = {}
  BY <1>2, <1>3, <1>4, <1>5, <1>6 DEF new
<1>7. CASE missing # {}
  <2> DEFINE a == Ahead(hoisted)
             m == RulesFor(missing, s)
             b == Behind(hoisted)
  <2>1. a \in Seq(Rules) /\ b \in Seq(Rules) /\ Range(a) \subseteq Range(hoisted) /\ Range(b) \subseteq Range(hoisted)
        /\ \A i \in DOMAIN a : i \in DOMAIN hoisted
    BY <1>3, AroundShadow
  <2>2. missing \subseteq hosts /\ IsFiniteSet(missing) /\ missing \subseteq Hostname
    BY FS_Subset
  <2>3. m \in Seq(Rules) /\ Range(m) \subseteq new /\ \A h \in missing : Reaches(m, h, s)
    <3>1. m \in Seq(Rules) /\ Range(m) \subseteq {Rule(h, s) : h \in missing} /\ \A h \in missing : Reaches(m, h, s)
      <4> HIDE DEF missing
      <4> QED BY <2>2, RulesForReach
    <3> QED BY <2>2, <3>1 DEF new
  <2>4. ASSUME NEW h \in hosts \ missing PROVE Reaches(a, h, s)
    BY <1>3, <1>4, AheadReaches
  <2>5. ASSUME NEW h \in missing PROVE LetsPass(a, h)
    <3>1. \A i \in DOMAIN set : set[i].host # h
      BY <1>1 DEF Named
    <3>2. \A i \in DOMAIN hoisted : hoisted[i] \in Range(set)
      BY <1>3 DEF Range
    <3>3. \A i \in DOMAIN hoisted : hoisted[i].host # h
      BY <3>1, <3>2 DEF Range
    <3> QED BY <1>3, <2>1, <3>3, AheadLetsPass
  <2>6. a \o m \in Seq(Rules) /\ Range(a \o m) = Range(a) \cup Range(m)
    <3> HIDE DEF a, m
    <3> QED BY <2>1, <2>3, RangeJoined, Joined
  <2>7. ASSUME NEW h \in hosts PROVE Reaches(a \o m, h, s)
    <3>1. CASE h \in missing
      <4> HIDE DEF a, m, missing
      <4> QED BY <2>1, <2>3, <2>5, <3>1, ReachesBehind
    <3>2. CASE h \notin missing
      <4> HIDE DEF a, m, missing
      <4> QED BY <2>1, <2>3, <2>4, <3>2, ReachesInFront
    <3> QED BY <3>1, <3>2
  <2> DEFINE all == (a \o m) \o b
  <2> HIDE DEF a, m, b, missing
  <2>8. all \in Seq(Rules) /\ Range(all) = Range(a \o m) \cup Range(b)
    BY <2>1, <2>6, RangeJoined, Joined
  <2>9. \A h \in hosts : Reaches(all, h, s)
    BY <2>1, <2>6, <2>7, ReachesInFront
  <2> HIDE DEF all
  <2>10. ensureCatchAll(all) \in Seq(Rules) /\ Range(ensureCatchAll(all)) \subseteq Range(all) \cup {Rule(CatchAll, "404")}
         /\ \A h \in hosts : Reaches(ensureCatchAll(all), h, s)
    BY <2>8, <2>9, CatchAllKeeps
  <2>11. SyncIngress(l, hosts, s) = ensureCatchAll(all)
    BY <1>5, <1>7 DEF all, a, m, b
  <2> QED BY <1>2, <1>3, <2>1, <2>3, <2>6, <2>8, <2>10, <2>11 DEF new
<1> QED BY <1>6, <1>7

-----------------------------------------------------------------------------
RouteCalls ==
    [op : {"none", "publish", "remove", "link", "sync"}, host : Names, hosts : SUBSET Hostname,
     at : {"dns", "txt", "get", "put", "route", "end"}, got : Seq(Rules), svc : Service, warned : BOOLEAN]

RoutesTyped ==
    /\ routes \subseteq Hostname /\ IsFiniteSet(routes) /\ whole \subseteq Hostname
    /\ rules \in Seq(Rules) /\ svc \in Service
    /\ call \in [Caller -> RouteCalls]

OneRequest == \A r, u \in Caller : call[r].op # "none" /\ call[u].op # "none" => r = u

(* What the requests have done by now: a publish, its name not whole yet,  *)
PublishSoFar(c) ==
    /\ c.at \in {"dns", "get", "put"} /\ c.host \in routes \ whole /\ c.svc = svc
    /\ c.at # "dns" /\ ~c.warned => c.host \in dns
    /\ c.at = "put" => c.got = rules

(* a removal, which goes through Cloudflare before the route,              *)
RemoveSoFar(c) ==
    /\ c.at \in {"dns", "txt", "get", "put", "route"} /\ c.host \in routes \ whole
    /\ c.at # "dns" => c.host \notin dns
    /\ c.at \notin {"dns", "txt"} => c.host \notin txt
    /\ c.at = "put" => c.got = rules
    /\ c.at = "route" => \A u \in Range(rules) : u.host # c.host

(* a sync of every route's rule to the service just configured.            *)
SyncSoFar(c) ==
    /\ c.at \in {"get", "put"} /\ c.hosts = routes /\ c.svc = svc
    /\ c.at = "put" => c.got = rules

SoFar(c) ==
    /\ c.op = "none" => c.at = "end"
    /\ c.op = "publish" => PublishSoFar(c)
    /\ c.op = "remove" => RemoveSoFar(c)
    /\ c.op = "link" => c.at = "txt" /\ c.host \in routes
    /\ c.op = "sync" => SyncSoFar(c)

(* A whole name is reached; at the service in place unless a sync is at it. *)
WholeReached ==
    \A h \in whole :
        /\ h \in routes /\ h \in dns
        /\ \E s \in Service : Reaches(rules, h, s)
        /\ (\A r \in Caller : call[r].op # "sync") => Reaches(rules, h, svc)

RulesRouted == \A u \in Range(rules) : u.host \in Hostname /\ u.service \in Service => u.host \in routes
RecordsRouted == \A h \in Hostname : h \in dns \cup txt => h \in routes

RoutesInv ==
    /\ RoutesTyped /\ OneRequest /\ \A r \in Caller : SoFar(call[r])
    /\ WholeReached /\ RulesRouted /\ RecordsRouted

LEMMA RoutesInitInv == RoutesInit => RoutesInv
<1> SUFFICES ASSUME RoutesInit PROVE RoutesInv
  OBVIOUS
<1>1. /\ routes = {} /\ whole = {} /\ dns = {} /\ txt = {} /\ svc = "s1" /\ rules \in StartRules
      /\ call = [r \in Caller |-> NoCall]
  BY DEF RoutesInit
<1>2. IsFiniteSet(routes)
  BY <1>1, FS_EmptySet
<1> DEFINE TheirRules == [host : Names, service : {TheirService, "404"}]
<1>3. rules \in Seq(TheirRules)
  BY <1>1, RoutesAssumption
<1>4. TheirRules \subseteq Rules
  BY DEF Rules
<1> HIDE DEF TheirRules
<1>6. Len(rules) \in Nat /\ DOMAIN rules = 1 .. Len(rules) /\ rules = [i \in 1 .. Len(rules) |-> rules[i]]
  BY <1>3
<1>5. \A i \in DOMAIN rules : rules[i] \in TheirRules
  BY <1>3
<1>7. \A i \in 1 .. Len(rules) : rules[i] \in Rules
  BY <1>4, <1>5, <1>6
<1>8. rules \in Seq(Rules)
  BY <1>6, <1>7
<1>9. RulesRouted
  <2>1. \A u \in Range(rules) : u \in TheirRules
    BY <1>5 DEF Range
  <2> QED BY <2>1 DEF RulesRouted, Service, TheirService, TheirRules
<1>10. NoCall \in RouteCalls
  <2>1. <<>> \in Seq(Rules)
    OBVIOUS
  <2> QED BY <2>1 DEF NoCall, RouteCalls, Names, Service
<1>11. RoutesTyped
  BY <1>1, <1>2, <1>8, <1>10 DEF RoutesTyped, Service
<1>12. OneRequest /\ WholeReached /\ RecordsRouted
  BY <1>1 DEF OneRequest, WholeReached, RecordsRouted, NoCall
<1>13. \A r \in Caller : SoFar(call[r])
  BY <1>1 DEF SoFar, NoCall
<1> QED BY <1>9, <1>11, <1>12, <1>13 DEF RoutesInv

(* While one request moves, the others are at rest.                        *)
LEMMA Turn ==
    ASSUME RoutesInv, NEW r \in Caller, call[r].op # "none" \/ underWay = {}, NEW x \in RouteCalls,
           call' = [call EXCEPT ![r] = x]
    PROVE  /\ call' \in [Caller -> RouteCalls] /\ OneRequest' /\ call'[r] = x
           /\ \A u \in Caller \ {r} : call[u].op = "none" /\ call'[u] = call[u]
           /\ SoFar(x)' => \A u \in Caller : SoFar(call[u])'
<1>1. call \in [Caller -> RouteCalls] /\ OneRequest /\ \A u \in Caller : SoFar(call[u])
  BY DEF RoutesInv, RoutesTyped
<1>2. call' \in [Caller -> RouteCalls] /\ call'[r] = x /\ \A u \in Caller \ {r} : call'[u] = call[u]
  BY <1>1
<1>3. \A u \in Caller \ {r} : call[u].op = "none"
  BY <1>1 DEF OneRequest, underWay
<1>4. OneRequest'
  BY <1>2, <1>3 DEF OneRequest
<1>5. ASSUME SoFar(x)', NEW u \in Caller PROVE SoFar(call[u])'
  <2>1. CASE u = r
    BY <1>2, <1>5, <2>1 DEF SoFar, PublishSoFar, RemoveSoFar, SyncSoFar
  <2>2. CASE u # r
    BY <1>1, <1>2, <1>3, <2>2 DEF SoFar
  <2> QED BY <2>1, <2>2
<1> QED BY <1>2, <1>3, <1>4, <1>5

LEMMA Starting ==
    ASSUME ~Overlap, NEW r \in Caller, MayStart(r), RoutesInv
    PROVE  underWay = {} /\ \A u \in Caller : call[u].op = "none"
BY DEF MayStart, underWay

LEMMA CallOf ==
    ASSUME RoutesInv, NEW r \in Caller
    PROVE  call[r] \in RouteCalls /\ SoFar(call[r]) /\ NoCall \in RouteCalls
<1>1. <<>> \in Seq(Rules)
  OBVIOUS
<1> QED BY <1>1 DEF RoutesInv, RoutesTyped, NoCall, RouteCalls, Names, Service

LEMMA PublishHostInv ==
    ASSUME RoutesInv, ~Overlap, NEW r \in Caller, NEW h \in Hostname, PublishHost(r, h) PROVE RoutesInv'
<1> DEFINE started == [NoCall EXCEPT !.op = "publish", !.host = h, !.at = "dns", !.svc = svc]
<1>0. /\ RoutesTyped /\ WholeReached /\ RulesRouted /\ RecordsRouted
      /\ MayStart(r) /\ routes' = routes \union {h} /\ call' = [call EXCEPT ![r] = started] /\ whole' = whole \ {h}
      /\ dns' = dns /\ txt' = txt /\ rules' = rules /\ svc' = svc
  BY DEF RoutesInv, PublishHost
<1>1. underWay = {} /\ \A u \in Caller : call[u].op = "none"
  BY <1>0, Starting
<1>2. started \in RouteCalls /\ started.op = "publish" /\ started.host = h /\ started.at = "dns" /\ started.svc = svc
  BY <1>0, CallOf DEF RoutesTyped, NoCall, RouteCalls, Names
<1> PICK x \in RouteCalls : x = started
  BY <1>2
<1> HIDE DEF started
<1>3. call' \in [Caller -> RouteCalls] /\ OneRequest' /\ (SoFar(x)' => \A u \in Caller : SoFar(call[u])')
  BY <1>0, <1>1, <1>2, Turn
<1>4. SoFar(x)'
  BY <1>0, <1>2 DEF SoFar, PublishSoFar
<1>5. IsFiniteSet(routes')
  BY <1>0, FS_AddElement DEF RoutesTyped
<1>6. RoutesTyped'
  BY <1>0, <1>3, <1>5 DEF RoutesTyped
<1>7. WholeReached'
  <2>1. \A u \in Caller : call[u].op # "sync"
    BY <1>1
  <2> QED BY <1>0, <2>1 DEF WholeReached
<1>8. RulesRouted' /\ RecordsRouted'
  BY <1>0 DEF RulesRouted, RecordsRouted
<1> QED BY <1>3, <1>4, <1>6, <1>7, <1>8 DEF RoutesInv

LEMMA UnpublishInv ==
    ASSUME RoutesInv, ~Overlap, NEW r \in Caller, NEW h \in Hostname, Unpublish(r, h) PROVE RoutesInv'
<1> DEFINE x == [NoCall EXCEPT !.op = "remove", !.host = h, !.at = "dns"]
<1>0. /\ RoutesTyped /\ WholeReached /\ RulesRouted /\ RecordsRouted /\ h \in routes
      /\ MayStart(r) /\ routes' = routes /\ call' = [call EXCEPT ![r] = x] /\ whole' = whole \ {h}
      /\ dns' = dns /\ txt' = txt /\ rules' = rules /\ svc' = svc
  BY DEF RoutesInv, Unpublish
<1>1. underWay = {} /\ \A u \in Caller : call[u].op = "none"
  BY <1>0, Starting
<1>2. x \in RouteCalls /\ x.op = "remove" /\ x.host = h /\ x.at = "dns"
  BY <1>0, CallOf DEF RoutesTyped, NoCall, RouteCalls, Names
<1> HIDE DEF x
<1>3. call' \in [Caller -> RouteCalls] /\ OneRequest' /\ (SoFar(x)' => \A u \in Caller : SoFar(call[u])')
  BY <1>0, <1>1, <1>2, Turn
<1>4. SoFar(x)'
  BY <1>0, <1>2 DEF SoFar, RemoveSoFar
<1>6. RoutesTyped'
  BY <1>0, <1>3 DEF RoutesTyped
<1>7. WholeReached'
  BY <1>0, <1>1 DEF WholeReached
<1>8. RulesRouted' /\ RecordsRouted'
  BY <1>0 DEF RulesRouted, RecordsRouted
<1> QED BY <1>3, <1>4, <1>6, <1>7, <1>8 DEF RoutesInv

LEMMA LinkInv ==
    ASSUME RoutesInv, ~Overlap, NEW r \in Caller, NEW h \in Hostname, Link(r, h) PROVE RoutesInv'
<1> DEFINE x == [NoCall EXCEPT !.op = "link", !.host = h, !.at = "txt"]
<1>0. /\ RoutesTyped /\ WholeReached /\ RulesRouted /\ RecordsRouted /\ h \in routes
      /\ MayStart(r) /\ routes' = routes /\ call' = [call EXCEPT ![r] = x] /\ whole' = whole
      /\ dns' = dns /\ txt' = txt /\ rules' = rules /\ svc' = svc
  BY DEF RoutesInv, Link
<1>1. underWay = {} /\ \A u \in Caller : call[u].op = "none"
  BY <1>0, Starting
<1>2. x \in RouteCalls /\ x.op = "link" /\ x.host = h /\ x.at = "txt"
  BY <1>0, CallOf DEF RoutesTyped, NoCall, RouteCalls, Names
<1> HIDE DEF x
<1>3. call' \in [Caller -> RouteCalls] /\ OneRequest' /\ (SoFar(x)' => \A u \in Caller : SoFar(call[u])')
  BY <1>0, <1>1, <1>2, Turn
<1>4. SoFar(x)'
  BY <1>0, <1>2 DEF SoFar
<1>6. RoutesTyped'
  BY <1>0, <1>3 DEF RoutesTyped
<1>7. WholeReached'
  BY <1>0, <1>1 DEF WholeReached
<1>8. RulesRouted' /\ RecordsRouted'
  BY <1>0 DEF RulesRouted, RecordsRouted
<1> QED BY <1>3, <1>4, <1>6, <1>7, <1>8 DEF RoutesInv

LEMMA RepointInv ==
    ASSUME RoutesInv, ~Overlap, NEW r \in Caller, Repoint(r) PROVE RoutesInv'
<1> DEFINE started == IF routes = {} THEN NoCall
                   ELSE [NoCall EXCEPT !.op = "sync", !.hosts = routes, !.at = "get", !.svc = svc']
<1>0. /\ RoutesTyped /\ WholeReached /\ RulesRouted /\ RecordsRouted
      /\ MayStart(r) /\ routes' = routes /\ call' = [call EXCEPT ![r] = started] /\ whole' = whole
      /\ dns' = dns /\ txt' = txt /\ rules' = rules /\ svc' \in Service
  BY DEF RoutesInv, Repoint, Service
<1>1. underWay = {} /\ \A u \in Caller : call[u].op = "none"
  BY <1>0, Starting
<1>2. /\ started \in RouteCalls /\ (routes = {} => started = NoCall)
      /\ routes # {} => started.op = "sync" /\ started.hosts = routes /\ started.at = "get" /\ started.svc = svc'
  BY <1>0, CallOf DEF RoutesTyped, NoCall, RouteCalls, Names
<1> PICK x \in RouteCalls : x = started
  BY <1>2
<1> HIDE DEF started
<1>3. call' \in [Caller -> RouteCalls] /\ OneRequest' /\ call'[r] = x /\ (SoFar(x)' => \A u \in Caller : SoFar(call[u])')
  BY <1>0, <1>1, <1>2, Turn
<1>4. SoFar(x)'
  BY <1>0, <1>2 DEF SoFar, SyncSoFar, NoCall
<1>6. RoutesTyped'
  BY <1>0, <1>3 DEF RoutesTyped
<1>7. WholeReached'
  <2>1. CASE routes = {}
    <3>1. whole = {}
      BY <1>0, <2>1 DEF WholeReached
    <3> QED BY <1>0, <3>1 DEF WholeReached
  <2>2. CASE routes # {}
    <3>1. call'[r].op = "sync"
      BY <1>2, <1>3, <2>2
    <3> QED BY <1>0, <3>1 DEF WholeReached
  <2> QED BY <2>1, <2>2
<1>8. RulesRouted' /\ RecordsRouted'
  BY <1>0 DEF RulesRouted, RecordsRouted
<1> QED BY <1>3, <1>4, <1>6, <1>7, <1>8 DEF RoutesInv

LEMMA CallDNSInv ==
    ASSUME RoutesInv, NEW r \in Caller, CallDNS(r) PROVE RoutesInv'
<1>0. /\ RoutesTyped /\ WholeReached /\ RulesRouted /\ RecordsRouted
      /\ routes' = routes /\ whole' = whole /\ txt' = txt /\ rules' = rules /\ svc' = svc
  BY DEF RoutesInv, CallDNS
<1>1. call[r] \in RouteCalls /\ SoFar(call[r])
  BY CallOf
<1>2. CASE CallAt(r, "publish", "dns") /\ dns' = dns \union {call[r].host} /\ CallGo(r, "get")
  <2> PICK x \in RouteCalls : x = [call[r] EXCEPT !.at = "get"]
    BY <1>1 DEF RouteCalls
  <2>1. /\ call[r].op = "publish" /\ x.op = "publish" /\ x.host = call[r].host /\ x.at = "get" /\ x.svc = call[r].svc
        /\ call' = [call EXCEPT ![r] = x]
    BY <1>1, <1>2 DEF CallAt, CallGo, RouteCalls
  <2>2. /\ call' \in [Caller -> RouteCalls] /\ OneRequest' /\ (SoFar(x)' => \A u \in Caller : SoFar(call[u])')
        /\ \A u \in Caller \ {r} : call[u].op = "none"
    BY <2>1, Turn
  <2>3. SoFar(x)'
    BY <1>0, <1>1, <1>2, <2>1 DEF SoFar, PublishSoFar
  <2>4. WholeReached'
    <3>1. \A u \in Caller : call[u].op # "sync"
      BY <2>1, <2>2
    <3> QED BY <1>0, <1>2, <3>1 DEF WholeReached
  <2>5. RecordsRouted'
    BY <1>0, <1>1, <1>2, <2>1 DEF RecordsRouted, SoFar, PublishSoFar
  <2> QED BY <1>0, <2>2, <2>3, <2>4, <2>5 DEF RoutesInv, RoutesTyped, RulesRouted
<1>3. CASE CallAt(r, "remove", "dns") /\ dns' = dns \ {call[r].host} /\ CallGo(r, "txt")
  <2> PICK x \in RouteCalls : x = [call[r] EXCEPT !.at = "txt"]
    BY <1>1 DEF RouteCalls
  <2>1. /\ call[r].op = "remove" /\ x.op = "remove" /\ x.host = call[r].host /\ x.at = "txt"
        /\ call' = [call EXCEPT ![r] = x]
    BY <1>1, <1>3 DEF CallAt, CallGo, RouteCalls
  <2>2. /\ call' \in [Caller -> RouteCalls] /\ OneRequest' /\ (SoFar(x)' => \A u \in Caller : SoFar(call[u])')
        /\ \A u \in Caller \ {r} : call[u].op = "none"
    BY <2>1, Turn
  <2>3. SoFar(x)'
    BY <1>0, <1>1, <1>3, <2>1 DEF SoFar, RemoveSoFar
  <2>4. WholeReached'
    <3>1. call[r].host \notin whole
      BY <1>1, <2>1 DEF SoFar, RemoveSoFar
    <3>2. \A u \in Caller : call[u].op # "sync"
      BY <2>1, <2>2
    <3> QED BY <1>0, <1>3, <3>1, <3>2 DEF WholeReached
  <2>5. RecordsRouted'
    BY <1>0, <1>3 DEF RecordsRouted
  <2> QED BY <1>0, <2>2, <2>3, <2>4, <2>5 DEF RoutesInv, RoutesTyped, RulesRouted
<1> QED BY <1>2, <1>3 DEF CallDNS

LEMMA CallTXTInv ==
    ASSUME RoutesInv, NEW r \in Caller, CallTXT(r) PROVE RoutesInv'
<1>0. /\ RoutesTyped /\ WholeReached /\ RulesRouted /\ RecordsRouted
      /\ routes' = routes /\ whole' = whole /\ dns' = dns /\ rules' = rules /\ svc' = svc
  BY DEF RoutesInv, CallTXT
<1>1. call[r] \in RouteCalls /\ SoFar(call[r]) /\ NoCall \in RouteCalls
  BY CallOf
<1>2. CASE CallAt(r, "link", "txt") /\ txt' = txt \union {call[r].host} /\ CallEnd(r)
  <2>1. call[r].op = "link" /\ call' = [call EXCEPT ![r] = NoCall]
    BY <1>2 DEF CallAt, CallEnd
  <2>2. /\ call' \in [Caller -> RouteCalls] /\ OneRequest' /\ (SoFar(NoCall)' => \A u \in Caller : SoFar(call[u])')
        /\ \A u \in Caller \ {r} : call[u].op = "none"
    BY <1>1, <2>1, Turn
  <2>3. SoFar(NoCall)'
    BY DEF SoFar, NoCall
  <2>4. WholeReached'
    <3>1. \A u \in Caller : call[u].op # "sync"
      BY <2>1, <2>2
    <3> QED BY <1>0, <3>1 DEF WholeReached
  <2>5. RecordsRouted'
    BY <1>0, <1>1, <1>2, <2>1 DEF RecordsRouted, SoFar
  <2> QED BY <1>0, <2>2, <2>3, <2>4, <2>5 DEF RoutesInv, RoutesTyped, RulesRouted
<1>3. CASE CallAt(r, "remove", "txt") /\ txt' = txt \ {call[r].host} /\ CallGo(r, "get")
  <2> PICK x \in RouteCalls : x = [call[r] EXCEPT !.at = "get"]
    BY <1>1 DEF RouteCalls
  <2>1. /\ call[r].op = "remove" /\ call[r].at = "txt" /\ x.op = "remove" /\ x.host = call[r].host /\ x.at = "get"
        /\ call' = [call EXCEPT ![r] = x]
    BY <1>1, <1>3 DEF CallAt, CallGo, RouteCalls
  <2>2. /\ call' \in [Caller -> RouteCalls] /\ OneRequest' /\ (SoFar(x)' => \A u \in Caller : SoFar(call[u])')
        /\ \A u \in Caller \ {r} : call[u].op = "none"
    BY <2>1, Turn
  <2>3. SoFar(x)'
    BY <1>0, <1>1, <1>3, <2>1 DEF SoFar, RemoveSoFar
  <2>4. WholeReached'
    <3>1. \A u \in Caller : call[u].op # "sync"
      BY <2>1, <2>2
    <3> QED BY <1>0, <3>1 DEF WholeReached
  <2>5. RecordsRouted'
    BY <1>0, <1>3 DEF RecordsRouted
  <2> QED BY <1>0, <2>2, <2>3, <2>4, <2>5 DEF RoutesInv, RoutesTyped, RulesRouted
<1> QED BY <1>2, <1>3 DEF CallTXT

LEMMA GetRulesInv ==
    ASSUME RoutesInv, NEW r \in Caller, GetRules(r) PROVE RoutesInv'
<1>0. /\ RoutesTyped /\ WholeReached /\ RulesRouted /\ RecordsRouted /\ call[r].at = "get"
      /\ routes' = routes /\ whole' = whole /\ dns' = dns /\ txt' = txt /\ rules' = rules /\ svc' = svc
      /\ call' = [call EXCEPT ![r].at = "put", ![r].got = rules]
  BY DEF RoutesInv, GetRules
<1>1. call[r] \in RouteCalls /\ SoFar(call[r]) /\ call \in [Caller -> RouteCalls]
  BY <1>0, CallOf DEF RoutesTyped
<1>2. [call[r] EXCEPT !.at = "put", !.got = rules] \in RouteCalls
  BY <1>0, <1>1 DEF RouteCalls, RoutesTyped
<1> PICK x \in RouteCalls : x = [call[r] EXCEPT !.at = "put", !.got = rules]
  BY <1>2
<1>3. /\ call' = [call EXCEPT ![r] = x] /\ x.at = "put" /\ x.got = rules
      /\ x.op = call[r].op /\ x.host = call[r].host /\ x.hosts = call[r].hosts /\ x.svc = call[r].svc /\ x.warned = call[r].warned
  <2>1. call' = [call EXCEPT ![r] = [call[r] EXCEPT !.at = "put", !.got = rules]]
    BY <1>0, <1>1
  <2> QED BY <1>1, <2>1 DEF RouteCalls
<1>4. call[r].op # "none" /\ call[r].op # "link"
  BY <1>0, <1>1 DEF SoFar
<1>5. /\ call' \in [Caller -> RouteCalls] /\ OneRequest' /\ call'[r] = x /\ (SoFar(x)' => \A u \in Caller : SoFar(call[u])')
      /\ \A u \in Caller \ {r} : call[u].op = "none" /\ call'[u] = call[u]
  BY <1>3, <1>4, Turn
<1>6. SoFar(x)'
  BY <1>0, <1>1, <1>3, <1>4 DEF SoFar, PublishSoFar, RemoveSoFar, SyncSoFar
<1>7. WholeReached'
  <2>1. \A u \in Caller : call'[u].op = call[u].op
    BY <1>3, <1>5
  <2> QED BY <1>0, <2>1 DEF WholeReached
<1> QED BY <1>0, <1>5, <1>6, <1>7 DEF RoutesInv, RoutesTyped, RulesRouted, RecordsRouted

LEMMA RemoveRouteInv ==
    ASSUME RoutesInv, NEW r \in Caller, RemoveRoute(r) PROVE RoutesInv'
<1>0. /\ RoutesTyped /\ WholeReached /\ RulesRouted /\ RecordsRouted /\ routes' = routes \ {call[r].host}
      /\ call[r].op = "remove" /\ call[r].at = "route"
      /\ whole' = whole /\ dns' = dns /\ txt' = txt /\ rules' = rules /\ svc' = svc
      /\ call' = [call EXCEPT ![r] = NoCall]
  BY DEF RoutesInv, RemoveRoute, CallAt, CallEnd
<1>1. call[r] \in RouteCalls /\ RemoveSoFar(call[r]) /\ NoCall \in RouteCalls
  BY <1>0, CallOf DEF SoFar
<1>2. /\ call' \in [Caller -> RouteCalls] /\ OneRequest' /\ (SoFar(NoCall)' => \A u \in Caller : SoFar(call[u])')
      /\ \A u \in Caller \ {r} : call[u].op = "none"
  BY <1>0, <1>1, Turn
<1>3. SoFar(NoCall)'
  BY DEF SoFar, NoCall
<1>4. WholeReached'
  <2>1. \A u \in Caller : call[u].op # "sync"
    BY <1>0, <1>2
  <2>2. call[r].host \notin whole
    BY <1>1 DEF RemoveSoFar
  <2> QED BY <1>0, <2>1, <2>2 DEF WholeReached
<1>5. RulesRouted' /\ RecordsRouted'
  BY <1>0, <1>1 DEF RulesRouted, RecordsRouted, RemoveSoFar
<1>6. IsFiniteSet(routes')
  BY <1>0, FS_Subset DEF RoutesTyped
<1> QED BY <1>0, <1>2, <1>3, <1>4, <1>5, <1>6 DEF RoutesInv, RoutesTyped

LEMMA CallFailsInv ==
    ASSUME RoutesInv, NEW r \in Caller, CallFails(r) PROVE RoutesInv'
<1>0. /\ RoutesTyped /\ WholeReached /\ RulesRouted /\ RecordsRouted /\ call[r].op # "none"
      /\ routes' = routes /\ dns' = dns /\ txt' = txt /\ rules' = rules /\ svc' = svc
      /\ whole' = IF call[r].op = "sync" THEN {} ELSE whole
      /\ call' = IF CallAt(r, "publish", "dns") THEN [call EXCEPT ![r].at = "get", ![r].warned = TRUE]
                 ELSE [call EXCEPT ![r] = NoCall]
  BY DEF RoutesInv, CallFails, CallEnd
<1>1. call[r] \in RouteCalls /\ SoFar(call[r]) /\ NoCall \in RouteCalls /\ call \in [Caller -> RouteCalls]
  BY <1>0, CallOf DEF RoutesTyped
<1>3. /\ call' \in [Caller -> RouteCalls] /\ OneRequest' /\ \A u \in Caller : SoFar(call[u])'
      /\ \A u \in Caller \ {r} : call[u].op = "none"
  <2>1. CASE CallAt(r, "publish", "dns")
    <3> DEFINE y == [call[r] EXCEPT !.at = "get", !.warned = TRUE]
    <3>1. y \in RouteCalls /\ y.op = "publish" /\ y.at = "get" /\ y.host = call[r].host /\ y.warned /\ y.svc = call[r].svc
      BY <1>1, <2>1 DEF RouteCalls, CallAt
    <3>2. call' = [call EXCEPT ![r] = y]
      BY <1>0, <1>1, <2>1
    <3> HIDE DEF y
    <3> PICK x \in RouteCalls : x = y
      BY <3>1
    <3>3. SoFar(x)'
      BY <1>0, <1>1, <2>1, <3>1 DEF SoFar, PublishSoFar, CallAt
    <3>4. call' = [call EXCEPT ![r] = x]
      BY <3>2
    <3> QED BY <1>0, <3>3, <3>4, Turn
  <2>2. CASE ~CallAt(r, "publish", "dns")
    <3>1. SoFar(NoCall)'
      BY DEF SoFar, NoCall
    <3>2. call' = [call EXCEPT ![r] = NoCall]
      BY <1>0, <2>2
    <3> QED BY <1>0, <1>1, <3>1, <3>2, Turn
  <2> QED BY <2>1, <2>2
<1>4. WholeReached'
  <2>1. CASE call[r].op = "sync"
    BY <1>0, <2>1 DEF WholeReached
  <2>2. CASE call[r].op # "sync"
    <3>1. \A u \in Caller : call[u].op # "sync"
      BY <1>3, <2>2
    <3> QED BY <1>0, <2>2, <3>1 DEF WholeReached
  <2> QED BY <2>1, <2>2
<1> QED BY <1>0, <1>3, <1>4 DEF RoutesInv, RoutesTyped, RulesRouted, RecordsRouted

LEMMA RoutesCrashInv ==
    ASSUME RoutesInv, RoutesCrash PROVE RoutesInv'
<1>0. /\ RoutesTyped /\ WholeReached /\ RulesRouted /\ RecordsRouted
      /\ routes' = routes /\ dns' = dns /\ txt' = txt /\ rules' = rules /\ svc' = svc
      /\ whole' = IF \E r \in Caller : call[r].op = "sync" THEN {} ELSE whole
      /\ call' = [r \in Caller |-> NoCall]
  BY DEF RoutesInv, RoutesCrash
<1>1. call' \in [Caller -> RouteCalls]
  BY <1>0, CallOf
<1>2. OneRequest' /\ \A u \in Caller : SoFar(call[u])'
  BY <1>0 DEF OneRequest, SoFar, NoCall
<1>3. WholeReached'
  BY <1>0 DEF WholeReached
<1> QED BY <1>0, <1>1, <1>2, <1>3 DEF RoutesInv, RoutesTyped, RulesRouted, RecordsRouted

LEMMA OthersEditInv ==
    ASSUME RoutesInv, ~Overlap, NEW o \in OtherHost, OthersEdit(o) PROVE RoutesInv'
<1> DEFINE one == <<Rule(o, TheirService)>>
<1>0. /\ RoutesTyped /\ WholeReached /\ RulesRouted /\ RecordsRouted /\ underWay = {}
      /\ routes' = routes /\ whole' = whole /\ dns' = dns /\ txt' = txt /\ svc' = svc /\ call' = call
      /\ rules' = IF Named(rules, o) = {} THEN one \o rules ELSE RemoveIngress(rules, o)
  BY DEF RoutesInv, OthersEdit
<1>1. o \in Names /\ o \notin Hostname /\ o \notin {Wildcard, CatchAll}
  BY RoutesAssumption DEF Names
<1>2. \A u \in Caller : call[u].op = "none"
  BY <1>0 DEF underWay
<1>3. /\ rules' \in Seq(Rules) /\ Range(rules') \subseteq Range(rules) \cup {Rule(o, TheirService)}
      /\ \A h \in Hostname : \A s : Reaches(rules, h, s) => Reaches(rules', h, s)
  <2>1. CASE Named(rules, o) = {}
    <3>1. Rule(o, TheirService) \in Rules
      BY <1>1 DEF Rule, Rules
    <3>2. one \in Seq(Rules) /\ DOMAIN one = 1 .. 1 /\ one[1] = Rule(o, TheirService)
      BY <3>1
    <3> HIDE DEF one
    <3>3. Range(one) = {Rule(o, TheirService)}
      BY <3>2 DEF Range
    <3>4. \A h \in Hostname : LetsPass(one, h)
      BY <1>1, <3>2 DEF LetsPass, Rule
    <3>5. one \o rules \in Seq(Rules) /\ Range(one \o rules) = Range(one) \cup Range(rules)
          /\ \A h \in Hostname : \A s : Reaches(rules, h, s) => Reaches(one \o rules, h, s)
      BY <1>0, <3>2, <3>4, Joined, RangeJoined, ReachesBehind DEF RoutesTyped
    <3> QED BY <1>0, <2>1, <3>3, <3>5
  <2>2. CASE Named(rules, o) # {}
    <3>1. /\ RemoveIngress(rules, o) \in Seq(Rules) /\ Range(RemoveIngress(rules, o)) \subseteq Range(rules)
          /\ \A h \in Hostname \ {o} : \A s : Reaches(rules, h, s) => Reaches(RemoveIngress(rules, o), h, s)
      BY <1>0, <1>1, RemoveReaches DEF RoutesTyped
    <3> QED BY <1>0, <1>1, <2>2, <3>1
  <2> QED BY <2>1, <2>2
<1>4. RoutesTyped' /\ OneRequest'
  BY <1>0, <1>2, <1>3 DEF RoutesTyped, OneRequest
<1>5. \A u \in Caller : SoFar(call[u])'
  BY <1>0, <1>2, CallOf DEF SoFar
<1>6. WholeReached'
  BY <1>0, <1>2, <1>3 DEF WholeReached, RoutesTyped
<1>7. RulesRouted' /\ RecordsRouted'
  BY <1>0, <1>1, <1>3 DEF RulesRouted, RecordsRouted, Rule
<1> QED BY <1>4, <1>5, <1>6, <1>7 DEF RoutesInv

(* A request writes back the list as it stands, changed: nobody else has   *)
(* written since it was read.                                              *)
LEMMA PutRulesInv ==
    ASSUME RoutesInv, NEW r \in Caller, PutRules(r) PROVE RoutesInv'
<1> DEFINE c == call[r]
<1>0. /\ RoutesTyped /\ WholeReached /\ RulesRouted /\ RecordsRouted /\ call[r].at = "put"
      /\ routes' = routes /\ dns' = dns /\ txt' = txt /\ svc' = svc
      /\ rules' = IF call[r].op # "publish" /\ Changed(r, call[r].got) = call[r].got THEN rules ELSE Changed(r, call[r].got)
  BY DEF RoutesInv, PutRules
<1>1. c \in RouteCalls /\ SoFar(c) /\ NoCall \in RouteCalls /\ call \in [Caller -> RouteCalls]
  BY <1>0, CallOf DEF RoutesTyped
<1>2. c.op \in {"publish", "remove", "sync"} /\ c.got = rules
  BY <1>0, <1>1 DEF RouteCalls, SoFar, PublishSoFar, RemoveSoFar, SyncSoFar
<1>3. rules' = Changed(r, rules)
  BY <1>0, <1>2
<1>4. SoFar(NoCall)'
  BY DEF SoFar, NoCall
<1>5. rules \in Seq(Rules) /\ svc \in Service /\ whole \subseteq routes /\ whole \subseteq Hostname
      /\ routes \subseteq Hostname /\ IsFiniteSet(routes)
  BY <1>0 DEF RoutesTyped, WholeReached
<1>6. \A h \in Hostname : h # CatchAll
  BY RoutesAssumption
<1>7. CASE c.op = "publish"
  <2> DEFINE h == c.host
  <2>0. PublishSoFar(c) /\ h \in Hostname /\ h \in routes /\ h \notin whole /\ c.svc = svc /\ (~c.warned => h \in dns)
    BY <1>0, <1>1, <1>5, <1>7 DEF SoFar, PublishSoFar
  <2>1. /\ call' = [call EXCEPT ![r] = NoCall]
        /\ whole' = IF ~c.warned THEN whole \cup {h} ELSE whole
    BY <1>7, <2>0 DEF PutRules, CallEnd
  <2>2. /\ call' \in [Caller -> RouteCalls] /\ OneRequest' /\ (\A u \in Caller : SoFar(call[u])')
        /\ \A u \in Caller \ {r} : call[u].op = "none"
    BY <1>1, <1>4, <1>7, <2>1, Turn
  <2>3. rules' = EnsureIngress(rules, h, svc)
    BY <1>3, <1>7, <2>0 DEF Changed
  <2>4. /\ rules' \in Seq(Rules) /\ Range(rules') \subseteq Range(rules) \cup {Rule(h, svc), Rule(CatchAll, "404")}
        /\ Reaches(rules', h, svc)
        /\ \A k \in Hostname \ {h} : \A s : Reaches(rules, k, s) => Reaches(rules', k, s)
    BY <1>5, <2>0, <2>3, EnsureReaches
  <2>5. RulesRouted'
    BY <1>0, <1>6, <2>0, <2>4 DEF RulesRouted, Rule
  <2>6. WholeReached'
    <3>1. \A u \in Caller : call[u].op # "sync"
      BY <1>7, <2>2
    <3>2. \A k \in whole : k \in Hostname \ {h} /\ Reaches(rules, k, svc) /\ k \in routes /\ k \in dns
      BY <1>0, <1>5, <2>0, <3>1 DEF WholeReached
    <3>3. \A k \in whole' : k \in routes /\ k \in dns /\ Reaches(rules', k, svc)
      <4> HIDE DEF h, c
      <4> QED BY <2>0, <2>1, <2>4, <3>2
    <3> QED BY <1>0, <1>5, <3>3 DEF WholeReached
  <2>7. RoutesTyped'
    BY <1>0, <1>5, <2>0, <2>1, <2>2, <2>4 DEF RoutesTyped
  <2> QED BY <1>0, <2>2, <2>5, <2>6, <2>7 DEF RoutesInv, RecordsRouted
<1>8. CASE c.op = "remove"
  <2> DEFINE h == c.host
  <2>0. RemoveSoFar(c) /\ h \in Hostname /\ h \in routes /\ h \notin whole /\ h \in Names
    BY <1>0, <1>1, <1>5, <1>8 DEF SoFar, RemoveSoFar, RouteCalls
  <2>1. call' = [call EXCEPT ![r].at = "route"] /\ whole' = whole
    BY <1>8 DEF PutRules, CallGo
  <2>2. rules' = RemoveIngress(rules, h)
    BY <1>3, <1>8 DEF Changed
  <2>3. /\ rules' \in Seq(Rules) /\ Range(rules') \subseteq Range(rules) /\ \A u \in Range(rules') : u.host # h
        /\ \A k \in Hostname \ {h} : \A s : Reaches(rules, k, s) => Reaches(rules', k, s)
    BY <1>5, <2>0, <2>2, RemoveReaches
  <2> PICK x \in RouteCalls : x = [c EXCEPT !.at = "route"]
    BY <1>1 DEF RouteCalls
  <2>4. call' = [call EXCEPT ![r] = x] /\ x.op = "remove" /\ x.at = "route" /\ x.host = h
    BY <1>1, <1>8, <2>1 DEF RouteCalls
  <2>5. SoFar(x)'
    BY <1>0, <2>0, <2>1, <2>3, <2>4 DEF SoFar, RemoveSoFar
  <2>6. /\ call' \in [Caller -> RouteCalls] /\ OneRequest' /\ (\A u \in Caller : SoFar(call[u])')
        /\ \A u \in Caller \ {r} : call[u].op = "none"
    BY <1>8, <2>4, <2>5, Turn
  <2>7. WholeReached'
    <3>1. \A u \in Caller : call[u].op # "sync"
      BY <1>8, <2>6
    <3>2. \A k \in whole : k \in Hostname \ {h} /\ Reaches(rules, k, svc) /\ k \in routes /\ k \in dns
      BY <1>0, <1>5, <2>0, <3>1 DEF WholeReached
    <3> QED BY <1>0, <1>5, <2>1, <2>3, <3>2 DEF WholeReached
  <2>8. RulesRouted'
    BY <1>0, <2>3 DEF RulesRouted
  <2> QED BY <1>0, <1>5, <2>1, <2>3, <2>6, <2>7, <2>8 DEF RoutesInv, RoutesTyped, RecordsRouted
<1>9. CASE c.op = "sync"
  <2>0. SyncSoFar(c) /\ c.hosts = routes /\ c.svc = svc
    BY <1>1, <1>9 DEF SoFar, SyncSoFar
  <2>1. call' = [call EXCEPT ![r] = NoCall] /\ whole' = whole
    BY <1>9 DEF PutRules, CallEnd
  <2>2. /\ call' \in [Caller -> RouteCalls] /\ OneRequest' /\ (\A u \in Caller : SoFar(call[u])')
    BY <1>1, <1>4, <1>9, <2>1, Turn
  <2>3. rules' = SyncIngress(rules, routes, svc)
    BY <1>3, <1>9, <2>0 DEF Changed
  <2>4. /\ rules' \in Seq(Rules)
        /\ Range(rules') \subseteq Range(rules) \cup {Rule(h, svc) : h \in routes} \cup {Rule(CatchAll, "404")}
        /\ \A h \in routes : Reaches(rules', h, svc)
    BY <1>5, <2>3, SyncReaches
  <2>5. RulesRouted'
    BY <1>0, <1>6, <2>4 DEF RulesRouted, Rule
  <2>6. WholeReached'
    BY <1>0, <1>5, <2>1, <2>4 DEF WholeReached
  <2>7. RoutesTyped'
    BY <1>0, <1>5, <2>1, <2>2, <2>4 DEF RoutesTyped
  <2> QED BY <1>0, <2>2, <2>5, <2>6, <2>7 DEF RoutesInv, RecordsRouted
<1> QED BY <1>2, <1>7, <1>8, <1>9

LEMMA RoutesStepInv ==
    ASSUME ~Overlap, RoutesInv, [RoutesNext]_routeVars PROVE RoutesInv'
<1>1. CASE UNCHANGED routeVars
  <2>1. /\ routes' = routes /\ dns' = dns /\ txt' = txt /\ rules' = rules /\ svc' = svc /\ call' = call /\ whole' = whole
    BY <1>1 DEF routeVars
  <2> QED BY <2>1 DEF RoutesInv, RoutesTyped, OneRequest, SoFar, PublishSoFar, RemoveSoFar, SyncSoFar,
                      WholeReached, RulesRouted, RecordsRouted
<1>2. ASSUME NEW r \in Caller, Call(r) \/ Repoint(r) PROVE RoutesInv'
  BY <1>2, CallDNSInv, CallTXTInv, GetRulesInv, PutRulesInv, RemoveRouteInv, CallFailsInv, RepointInv DEF Call
<1>3. ASSUME NEW r \in Caller, NEW h \in Hostname, PublishHost(r, h) \/ Unpublish(r, h) \/ Link(r, h) PROVE RoutesInv'
  BY <1>3, PublishHostInv, UnpublishInv, LinkInv
<1> QED BY <1>1, <1>2, <1>3, RoutesCrashInv, OthersEditInv DEF RoutesNext

(***************************************************************************)
(* Requests that do not overlap leave the tunnel telling one story: a name *)
(* published without a warning is reached at this daemon's service, and    *)
(* nothing of exe's is left for a name without a route, whatever fails, at *)
(* whatever call the daemon stops, whatever rules stood there and whatever *)
(* other programs put in between two requests (server.go publishHost,      *)
(* removeRoute; cf.go EnsureIngress, SyncIngress, RemoveIngress).          *)
(***************************************************************************)
THEOREM RoutesStayTrue ==
    ASSUME ~Overlap PROVE RoutesSpec => []RoutesAgree
<1>1. RoutesInit => RoutesInv
  BY RoutesInitInv
<1>2. RoutesInv /\ [RoutesNext]_routeVars => RoutesInv'
  BY RoutesStepInv
<1>3. RoutesInv => RoutesAgree
  <2> SUFFICES ASSUME RoutesInv PROVE RoutesAgree
    OBVIOUS
  <2>0. RoutesTyped /\ WholeReached /\ RulesRouted /\ RecordsRouted
    BY DEF RoutesInv
  <2>1. ASSUME underWay = {}, NEW h \in whole PROVE h \in routes \intersect dns /\ Resolve(rules, h) = svc
    <3>1. \A u \in Caller : call[u].op # "sync"
      BY <2>1 DEF underWay
    <3>2. h \in routes /\ h \in dns /\ Reaches(rules, h, svc)
      BY <2>0, <2>1, <3>1 DEF WholeReached
    <3> QED BY <2>0, <3>2, ReachesResolves DEF RoutesTyped
  <2>2. ASSUME NEW h \in Hostname, h \in dns \union txt \/ \E i \in Named(rules, h) : rules[i].service \in Service
        PROVE  h \in routes
    <3>1. CASE h \in dns \union txt
      BY <2>0, <3>1 DEF RecordsRouted
    <3>2. ASSUME NEW i \in Named(rules, h), rules[i].service \in Service PROVE h \in routes
      <4>1. rules[i] \in Range(rules) /\ rules[i].host = h
        BY DEF Named, Range
      <4> QED BY <2>0, <3>2, <4>1 DEF RulesRouted
    <3> QED BY <2>2, <3>1, <3>2
  <2> QED BY <2>1, <2>2 DEF RoutesAgree, PublishedIsReached, NothingDangles
<1> QED BY <1>1, <1>2, <1>3, PTL DEF RoutesSpec

-----------------------------------------------------------------------------
(* The agents' logs.  The counts of transcripts are exactly what seen      *)
(* remembers.  A rollout is read against the last request alone, prev:     *)
(* enough, as a rollout has its requests for itself, in order.  A line     *)
(* that was read stays booked or too old when old days are dropped, as the *)
(* first line of a request in a log is as old as any of it.                *)
Lines == [req : Req, day : Day]
Counts == [Day -> [Req -> Nat]]
LogRecord == [off : Nat, prev : 0 .. MaxAsked, known : BOOLEAN]
Scans == [on : BOOLEAN, since : Day, root : {0, 1, 2}, left : SUBSET LogFile, calm : BOOLEAN]

Whole(f) == Range(log[f])
Being(f) == Range(partial[f])

UsageTypes ==
    /\ codex \in BOOLEAN /\ day \in Day /\ requests \in 0 .. MaxAsked /\ logMoves \in Nat /\ cut \subseteq LogFile
    /\ log \in [LogFile -> Seq(Lines)] /\ partial \in [LogFile -> Seq(Lines)]
    /\ place \in [LogFile -> {0, 1, 2}] /\ touched \in [LogFile -> Day]
    /\ logFiles \in [Keys -> LogRecord]
    /\ days \in Counts /\ bookedOn \in [Req -> 0 .. MaxDay] /\ scan \in Scans

(* Nothing is written before its day, or of a request not yet made.        *)
LinesKnown ==
    /\ \A f \in LogFile : \A l \in Whole(f) \cup Being(f) : l.req <= requests /\ l.day <= touched[f]
    /\ \A f \in LogFile : touched[f] <= day /\ Len(partial[f]) <= 1
    /\ \A f \in LogFile : place[f] = 0 => log[f] = <<>> /\ partial[f] = <<>>
    /\ \A k \in Keys : logFiles[k].prev <= requests
    /\ scan.since <= usageSince

IsBooked(counted, r) == \E d \in Day : counted[d][r] > 0

(* A line as old as any of its request, and as what was booked of it.      *)
Oldest(l, lines, counted) ==
    /\ \A g \in LogFile : \A m \in Range(lines[g]) : m.req = l.req => l.day <= m.day
    /\ \A d \in Day : counted[d][l.req] > 0 => l.day <= d
BeginOldest(lines, counted) ==
    \A f \in LogFile : \A i \in 1 .. Len(lines[f]) :
        \E j \in 1 .. i : lines[f][j].req = lines[f][i].req /\ Oldest(lines[f][j], lines, counted)

(* A line being written repeats the log's last one, or begins a request.   *)
Repeats(f, l) == log[f] # <<>> /\ log[f][Len(log[f])].req = l.req /\ log[f][Len(log[f])].day <= l.day
Begins(f, l) ==
    /\ \A g \in LogFile : \A m \in Whole(g) : m.req # l.req
    /\ \A g \in LogFile \ {f} : \A m \in Being(g) : m.req # l.req
    /\ ~IsBooked(days, l.req)

FirstIsOldest ==
    /\ BeginOldest(log, days)
    /\ \A f \in LogFile : \A l \in Being(f) : Repeats(f, l) \/ Begins(f, l)
    /\ \A r \in Req : r > requests => ~IsBooked(days, r)

Ordered(lines) == \A i, j \in 1 .. Len(lines) : i <= j => lines[i].req <= lines[j].req

(* A rollout has its requests for itself, one after the other.             *)
Owned ==
    /\ \A f, g \in LogFile : f # g =>
          \A l \in Whole(f) \cup Being(f), m \in Whole(g) \cup Being(g) : l.req # m.req
    /\ \A f \in LogFile : Ordered(log[f])
    /\ \A f \in LogFile : \A l \in Whole(f), m \in Being(f) : l.req <= m.req

(* What prev tells of the lines still ahead, and of the one read last.     *)
Follows(counted, latest, l) == latest <= l.req /\ (IsBooked(counted, l.req) => latest = l.req)
FileTells(lines, half, counted, e) ==
    /\ \A i \in 1 .. Len(lines) : i > e.off \/ i = Len(lines) => Follows(counted, e.prev, lines[i])
    /\ \A l \in Range(half) : Follows(counted, e.prev, l)
    /\ Len(lines) + Len(half) < e.off => \A l \in Range(lines) \cup Range(half) : ~IsBooked(counted, l.req)
PrevTells ==
    /\ \A f \in LogFile : FileTells(log[f], partial[f], days, logFiles[<<f, 0>>])
    /\ \A f \in LogFile \ cut :
          logFiles[<<f, 0>>].prev = IF logFiles[<<f, 0>>].off > 0 THEN log[f][logFiles[<<f, 0>>].off].req ELSE 0

(* A line that has been read is booked, or its request began too long ago. *)
SettledBy(counted, lines, i, since) ==
    IsBooked(counted, lines[i].req) \/ \E j \in 1 .. i : lines[j].req = lines[i].req /\ lines[j].day < since
AllSettled ==
    \A f \in LogFile \ cut, p \in {0, 1, 2} :
        /\ logFiles[<<f, p>>].off <= Len(log[f])
        /\ \A i \in 1 .. logFiles[<<f, p>>].off : SettledBy(days, log[f], i, scan.since)

SeenIs(counted, on) == \A r \in Req, d \in Day : counted[d][r] = IF on[r] = d THEN 1 ELSE 0
OnceIn(counted) ==
    \A r \in Req : /\ \A d \in Day : counted[d][r] <= 1
                   /\ \A d, e \in Day : counted[d][r] > 0 /\ counted[e][r] > 0 => d = e

Seen(f) == place[f] # 0 /\ (scan.on => place[f] <= scan.root /\ ~(place[f] = scan.root /\ f \in scan.left))
SeenToTheEnd ==
    /\ ~scan.on => scan.left = {}
    /\ scan.on => scan.root \in {1, 2}
    /\ scan.calm => \A f \in LogFile \ cut : Seen(f) =>
                       logFiles[Key(f, place[f])].off = Len(log[f]) \/ touched[f] < scan.since
    /\ scan.calm => \A f \in scan.left : place[f] = scan.root

UsageInv ==
    /\ UsageTypes /\ LinesKnown /\ FirstIsOldest /\ AllSettled /\ SeenToTheEnd
    /\ codex => Owned /\ PrevTells /\ OnceIn(days)
    /\ ~codex => SeenIs(days, bookedOn)

-----------------------------------------------------------------------------
(* Reading, line by line.                                                  *)
Fold == [days : Counts, seen : [Req -> 0 .. MaxDay], prev : 0 .. MaxAsked]

(* read is the last of a chain of states, one for each line.               *)
Chain(at, s, lines, off, since) ==
    /\ at[off] = s
    /\ \A i \in (off + 1) .. Len(lines) : at[i] = lineOf(at[i - 1], lines[i], since)

LEMMA ReadSteps ==
    ASSUME NEW s, NEW lines \in Seq(Lines), NEW off \in 0 .. Len(lines), NEW since
    PROVE  \E at : Chain(at, s, lines, off, since) /\ read(s, lines, off, since) = at[Len(lines)]
<1> DEFINE grow(f, i) == IF i = off THEN s ELSE lineOf(f[i - 1], lines[i], since)
           IsUpTo(f, n) == f = [i \in off .. n |-> grow(f, i)]
<1>0. Len(lines) \in Nat /\ off \in Nat /\ off <= Len(lines)
  OBVIOUS
<1>1. \A n \in Nat : n >= off => \E f : IsUpTo(f, n)
  <2> DEFINE P == {n \in Nat : n >= off /\ ~ \E f : IsUpTo(f, n)}
  <2> SUFFICES ASSUME P # {} PROVE FALSE
    <3> HIDE DEF IsUpTo
    <3> QED OBVIOUS
  <2>1. PICK m \in P : \A n \in P : m <= n
    <3> HIDE DEF IsUpTo
    <3> QED BY Smallest
  <2>2. IsUpTo([i \in off .. off |-> s], off)
    BY <1>0
  <2>3. m \in Nat /\ m > off
    <3> HIDE DEF IsUpTo
    <3> QED BY <1>0, <2>1, <2>2
  <2>4. m - 1 \in Nat /\ m - 1 >= off /\ m - 1 \notin P
    <3> HIDE DEF P
    <3> QED BY <1>0, <2>1, <2>3
  <2>5. PICK f : IsUpTo(f, m - 1)
    <3> HIDE DEF IsUpTo
    <3> QED BY <2>4
  <2> DEFINE g == [i \in off .. m |-> IF i < m THEN f[i] ELSE grow(f, m)]
  <2>6. \A i \in off .. m : g[i] = grow(g, i)
    <3> SUFFICES ASSUME NEW i \in off .. m PROVE g[i] = grow(g, i)
      OBVIOUS
    <3>1. i # off => g[i - 1] = f[i - 1]
      BY <1>0, <2>3
    <3>2. grow(g, i) = grow(f, i)
      <4> HIDE DEF g
      <4> QED BY <3>1
    <3>3. i < m => f[i] = grow(f, i)
      <4> HIDE DEF grow
      <4> QED BY <1>0, <2>3, <2>5
    <3>4. g[i] = IF i < m THEN f[i] ELSE grow(f, m)
      BY DEF g
    <3>5. i < m \/ i = m
      BY <1>0, <2>3
    <3> HIDE DEF g, grow
    <3> QED BY <3>2, <3>3, <3>4, <3>5
  <2>7. IsUpTo(g, m)
    <3> HIDE DEF grow
    <3>1. g = [i \in off .. m |-> g[i]]
      OBVIOUS
    <3> HIDE DEF g
    <3> QED BY <3>1, <2>6
  <2> QED BY <2>1, <2>7
<1>2. PICK f : IsUpTo(f, Len(lines)) /\ read(s, lines, off, since) = f[Len(lines)]
  <2> DEFINE f == CHOOSE f : IsUpTo(f, Len(lines))
  <2>1. IsUpTo(f, Len(lines))
    <3> HIDE DEF IsUpTo
    <3> QED BY <1>0, <1>1
  <2>2. read(s, lines, off, since) = f[Len(lines)]
    BY DEF read
  <2> HIDE DEF f, IsUpTo
  <2> QED BY <2>1, <2>2
<1>3. \A i \in off .. Len(lines) : f[i] = grow(f, i)
  <2> HIDE DEF grow
  <2> QED BY <1>2
<1>4. f[off] = s
  BY <1>0, <1>3
<1>5. \A i \in (off + 1) .. Len(lines) : f[i] = lineOf(f[i - 1], lines[i], since)
  BY <1>0, <1>3
<1> HIDE DEF grow, IsUpTo
<1>6. Chain(f, s, lines, off, since)
  BY <1>4, <1>5 DEF Chain
<1> QED BY <1>2, <1>6

(* What one booking does.                                                  *)
LEMMA BookedIs ==
    ASSUME NEW s \in Fold, NEW l \in Lines
    PROVE  /\ Booked(s, l) \in Fold /\ Booked(s, l).seen = s.seen /\ Booked(s, l).prev = s.prev
           /\ \A d \in Day, r \in Req : Booked(s, l).days[d][r] =
                 IF d = l.day /\ r = l.req THEN s.days[d][r] + 1 ELSE s.days[d][r]
<1> DEFINE row == [s.days[l.day] EXCEPT ![l.req] = s.days[l.day][l.req] + 1]
           new == [s.days EXCEPT ![l.day] = row]
<1>1. l.day \in Day /\ l.req \in Req /\ s.days \in [Day -> [Req -> Nat]]
  BY DEF Fold, Counts, Lines
<1>2. row \in [Req -> Nat] /\ \A r \in Req : row[r] = IF r = l.req THEN s.days[l.day][r] + 1 ELSE s.days[l.day][r]
  <2>1. s.days[l.day] \in [Req -> Nat] /\ s.days[l.day][l.req] \in Nat
    BY <1>1
  <2> QED BY <1>1, <2>1
<1>3. Booked(s, l) = [s EXCEPT !.days = new]
  BY DEF Booked
<1> HIDE DEF row
<1>4. new \in [Day -> [Req -> Nat]] /\ \A d \in Day : new[d] = IF d = l.day THEN row ELSE s.days[d]
  BY <1>1, <1>2
<1> HIDE DEF new
<1>5. \A d \in Day, r \in Req : new[d][r] = IF d = l.day /\ r = l.req THEN s.days[d][r] + 1 ELSE s.days[d][r]
  BY <1>2, <1>4
<1> QED BY <1>3, <1>4, <1>5 DEF Fold, Counts

(* What one line does to the counts.                                       *)
LEMMA LineDoes ==
    ASSUME UsageAssumption, codex \in BOOLEAN, NEW s \in Fold, NEW l \in Lines, NEW since,
           NEW to, to = lineOf(s, l, since)
    PROVE  /\ to \in Fold
           /\ \/ to.days = s.days
              \/ \A d \in Day, r \in Req :
                    to.days[d][r] = IF d = l.day /\ r = l.req THEN s.days[d][r] + 1 ELSE s.days[d][r]
<1>1. l.day \in Day /\ l.req \in Req /\ l.req \in 0 .. MaxAsked /\ l.day \in 0 .. MaxDay
  BY DEF Lines, UsageAssumption, Day, Req
<1>2. [Booked(s, l) EXCEPT !.seen[l.req] = l.day] \in Fold
      /\ [Booked(s, l) EXCEPT !.seen[l.req] = l.day].days = Booked(s, l).days
  BY <1>1, BookedIs DEF Fold
<1> DEFINE moved == [s EXCEPT !.prev = l.req]
<1>3. moved \in Fold /\ moved.days = s.days
  BY <1>1 DEF Fold
<1> HIDE DEF moved
<1>4. codexLine(s, l, since) = IF s.prev # l.req /\ l.day >= since THEN Booked(moved, l) ELSE moved
  BY DEF codexLine, moved
<1>5. CASE codex
  <2>1. to = codexLine(s, l, since)
    BY <1>5 DEF lineOf
  <2>2. CASE s.prev # l.req /\ l.day >= since
    BY <2>1, <2>2, <1>3, <1>4, BookedIs
  <2>3. CASE ~(s.prev # l.req /\ l.day >= since)
    BY <2>1, <2>3, <1>3, <1>4
  <2> QED BY <2>2, <2>3
<1>6. CASE ~codex
  <2>1. to = claudeLine(s, l, since)
    BY <1>6 DEF lineOf
  <2>2. CASE s.seen[l.req] = 0 /\ l.day >= since
    <3>1. to = [Booked(s, l) EXCEPT !.seen[l.req] = l.day]
      BY <2>1, <2>2 DEF claudeLine
    <3> QED BY <3>1, <1>2, BookedIs
  <2>3. CASE ~(s.seen[l.req] = 0 /\ l.day >= since)
    BY <2>1, <2>3 DEF claudeLine
  <2> QED BY <2>2, <2>3
<1> QED BY <1>5, <1>6

(* What one step keeps holds all along.                                    *)
LEMMA StepByStep ==
    ASSUME NEW lo \in Nat, NEW hi \in Nat, lo <= hi, NEW S, lo \in S,
           \A i \in (lo + 1) .. hi : i - 1 \in S => i \in S
    PROVE  \A i \in lo .. hi : i \in S
<1> DEFINE B == {i \in lo .. hi : i \notin S}
<1>1. B \subseteq Nat
  OBVIOUS
<1>2. ASSUME B # {} PROVE FALSE
  <2>1. PICK m \in B : \A n \in B : m <= n
    BY <1>1, <1>2, Smallest
  <2> QED BY <2>1
<1> QED BY <1>2

Increased(old, new, lines, from) ==
    /\ \A d \in Day, r \in Req : old[d][r] <= new[d][r]
    /\ \A d \in Day, r \in Req : old[d][r] # new[d][r] =>
          \E k \in (from + 1) .. Len(lines) : lines[k].day = d /\ lines[k].req = r

(* What a read does to the counts: nothing is taken, and what is new is a line read. *)
LEMMA ReadGrows ==
    ASSUME UsageAssumption, codex \in BOOLEAN, NEW s \in Fold, NEW lines \in Seq(Lines), NEW off \in 0 .. Len(lines),
           NEW since, NEW at, at[off] = s,
           \A i \in (off + 1) .. Len(lines) : at[i] = lineOf(at[i - 1], lines[i], since)
    PROVE  \A i \in off .. Len(lines) : at[i] \in Fold /\ Increased(s.days, at[i].days, lines, off)
<1>0. Len(lines) \in Nat /\ off \in Nat /\ off <= Len(lines)
  OBVIOUS
<1>a. s.days \in [Day -> [Req -> Nat]]
  BY DEF Fold, Counts
<1> DEFINE S == {i \in off .. Len(lines) : at[i] \in Fold /\ Increased(s.days, at[i].days, lines, off)}
<1>1. off \in S
  <2>1. Increased(s.days, s.days, lines, off)
    BY <1>a DEF Increased
  <2> QED BY <1>0, <2>1
<1>2. ASSUME NEW i \in (off + 1) .. Len(lines), i - 1 \in S PROVE i \in S
  <2>1. at[i - 1] \in Fold /\ Increased(s.days, at[i - 1].days, lines, off) /\ lines[i] \in Lines
    BY <1>0, <1>2
  <2>2. at[i] = lineOf(at[i - 1], lines[i], since)
    OBVIOUS
  <2> DEFINE was == at[i - 1].days
             is == at[i].days
  <2>3. /\ at[i] \in Fold
        /\ \/ is = was
           \/ \A d \in Day, r \in Req :
                 is[d][r] = IF d = lines[i].day /\ r = lines[i].req THEN was[d][r] + 1 ELSE was[d][r]
    <3> DEFINE p == at[i - 1]
               l == lines[i]
               to == at[i]
    <3>1. p \in Fold /\ l \in Lines /\ to = lineOf(p, l, since)
      BY <2>1, <2>2
    <3> HIDE DEF p, l, to
    <3>2. /\ to \in Fold
          /\ \/ to.days = p.days
             \/ \A d \in Day, r \in Req : to.days[d][r] = IF d = l.day /\ r = l.req THEN p.days[d][r] + 1 ELSE p.days[d][r]
      BY <3>1, LineDoes
    <3> QED BY <3>2 DEF p, l, to
  <2>4. \A d \in Day, r \in Req : was[d][r] \in Nat /\ s.days[d][r] \in Nat
    BY <2>1, <1>a DEF Fold, Counts
  <2> HIDE DEF was, is
  <2>5. Increased(s.days, is, lines, off)
    <3>0. Increased(s.days, was, lines, off)
      BY <2>1 DEF was
    <3>1. \A d \in Day, r \in Req : s.days[d][r] <= is[d][r]
      BY <3>0, <2>3, <2>4 DEF Increased
    <3>2. ASSUME NEW d \in Day, NEW r \in Req, s.days[d][r] # is[d][r]
          PROVE  \E k \in (off + 1) .. Len(lines) : lines[k].day = d /\ lines[k].req = r
      <4>1. CASE is[d][r] = was[d][r]
        BY <3>0, <3>2, <4>1 DEF Increased
      <4>2. CASE is[d][r] # was[d][r]
        BY <4>2, <2>3
      <4> QED BY <4>1, <4>2
    <3> QED BY <3>1, <3>2 DEF Increased
  <2> QED BY <2>3, <2>5, <1>0 DEF is
<1> HIDE DEF S
<1>3. \A i \in off .. Len(lines) : i \in S
  BY <1>0, <1>1, <1>2, StepByStep
<1> QED BY <1>3 DEF S

(* A transcript read: what is counted is what is seen, and every line is settled. *)
LEMMA ReadClaude ==
    ASSUME UsageAssumption, codex \in BOOLEAN, ~codex, NEW s \in Fold, NEW lines \in Seq(Lines), NEW off \in 0 .. Len(lines),
           NEW since \in Nat, NEW at, at[off] = s,
           \A i \in (off + 1) .. Len(lines) : at[i] = lineOf(at[i - 1], lines[i], since),
           SeenIs(s.days, s.seen)
    PROVE  \A i \in off .. Len(lines) :
              SeenIs(at[i].days, at[i].seen) /\ \A k \in (off + 1) .. i : SettledBy(at[i].days, lines, k, since)
<1>0. Len(lines) \in Nat /\ off \in Nat /\ off <= Len(lines)
  OBVIOUS
<1>a. \A i \in off .. Len(lines) : at[i] \in Fold
  BY ReadGrows
<1> DEFINE Good(i) == SeenIs(at[i].days, at[i].seen) /\ \A k \in (off + 1) .. i : SettledBy(at[i].days, lines, k, since)
           S == {i \in off .. Len(lines) : Good(i)}
<1>1. off \in S
  BY <1>0
<1>2. ASSUME NEW i \in (off + 1) .. Len(lines), i - 1 \in S PROVE i \in S
  <2>0. i \in Nat /\ i - 1 \in off .. Len(lines) /\ i \in off .. Len(lines) /\ i >= 1
    BY <1>0
  <2> DEFINE l == lines[i]
             p == at[i - 1]
             to == at[i]
  <2>1. p \in Fold /\ to \in Fold /\ l \in Lines /\ Good(i - 1)
    BY <1>0, <1>2, <1>a, <2>0
  <2>2. to = IF p.seen[l.req] = 0 /\ l.day >= since THEN [Booked(p, l) EXCEPT !.seen[l.req] = l.day] ELSE p
    BY DEF lineOf, claudeLine
  <2>3. \A k \in (off + 1) .. i : k = i \/ k \in (off + 1) .. (i - 1)
    BY <2>0, <1>0
  <2>4. l.req \in Req /\ l.day \in Day /\ l.day # 0 /\ l.day \in Nat
    BY <2>1 DEF Lines, Day
  <2> HIDE DEF l, p, to, Good
  <2>5. CASE p.seen[l.req] = 0 /\ l.day >= since
    <3>1. /\ to.days = Booked(p, l).days
          /\ to.seen = [p.seen EXCEPT ![l.req] = l.day]
      <4> DEFINE b == Booked(p, l)
      <4>1. b \in Fold /\ b.seen = p.seen
        BY <2>1, BookedIs
      <4>2. to = [b EXCEPT !.seen[l.req] = l.day]
        BY <2>2, <2>5
      <4> HIDE DEF b
      <4>3. to.days = b.days /\ to.seen = [p.seen EXCEPT ![l.req] = l.day]
        BY <4>1, <4>2 DEF Fold
      <4> QED BY <4>3 DEF b
    <3>2. \A d \in Day, r \in Req : to.days[d][r] =
             IF d = l.day /\ r = l.req THEN p.days[d][r] + 1 ELSE p.days[d][r]
      BY <2>1, <3>1, BookedIs
    <3>3. \A r \in Req : to.seen[r] = IF r = l.req THEN l.day ELSE p.seen[r]
      BY <2>1, <3>1 DEF Fold
    <3>4. SeenIs(p.days, p.seen)
      BY <2>1 DEF Good, p
    <3>5. SeenIs(to.days, to.seen)
      <4> SUFFICES ASSUME NEW r \in Req, NEW d \in Day PROVE to.days[d][r] = IF to.seen[r] = d THEN 1 ELSE 0
        BY DEF SeenIs
      <4>1. p.days[d][r] = IF p.seen[r] = d THEN 1 ELSE 0
        BY <3>4 DEF SeenIs
      <4>2. d # 0
        BY DEF Day
      <4>3. CASE r = l.req
        <5>1. p.days[d][r] = 0 /\ to.seen[r] = l.day
          BY <4>1, <4>2, <4>3, <3>3, <2>5
        <5>2. to.days[d][r] = IF d = l.day THEN 0 + 1 ELSE 0
          BY <5>1, <4>3, <3>2
        <5> QED BY <5>1, <5>2
      <4>4. CASE r # l.req
        BY <4>1, <4>4, <3>2, <3>3
      <4> QED BY <4>3, <4>4
    <3>6. \A r \in Req : IsBooked(p.days, r) => IsBooked(to.days, r)
      <4> SUFFICES ASSUME NEW r \in Req, NEW d \in Day, p.days[d][r] > 0 PROVE IsBooked(to.days, r)
        BY Zenon DEF IsBooked
      <4>1. p.days[d][r] \in Nat
        BY <2>1 DEF Fold, Counts
      <4>2. to.days[d][r] = p.days[d][r] \/ to.days[d][r] = p.days[d][r] + 1
        BY <3>2
      <4>3. to.days[d][r] > 0
        BY <4>1, <4>2
      <4> QED BY <4>3 DEF IsBooked
    <3>7. IsBooked(to.days, l.req)
      <4>1. to.seen[l.req] = l.day
        BY <3>3, <2>4
      <4>2. to.days[l.day][l.req] = 1
        BY <4>1, <3>5, <2>4 DEF SeenIs
      <4> QED BY <4>2, <2>4 DEF IsBooked
    <3>8. \A k \in (off + 1) .. (i - 1) : SettledBy(to.days, lines, k, since)
      <4>1. \A k \in (off + 1) .. (i - 1) : SettledBy(p.days, lines, k, since)
        BY <2>1 DEF Good, p
      <4>2. \A k \in (off + 1) .. (i - 1) : lines[k].req \in Req
        <5>1. \A k \in 1 .. Len(lines) : lines[k] \in Lines
          OBVIOUS
        <5>2. \A k \in (off + 1) .. (i - 1) : k \in 1 .. Len(lines)
          BY <1>0, <2>0
        <5> QED BY <5>1, <5>2 DEF Lines
      <4> QED BY <3>6, <4>1, <4>2 DEF SettledBy
    <3>9. SettledBy(to.days, lines, i, since)
      BY <3>7 DEF SettledBy, l
    <3> QED BY <3>5, <3>8, <3>9, <2>0, <2>3 DEF Good, to
  <2>6. CASE ~(p.seen[l.req] = 0 /\ l.day >= since)
    <3>1. to = p
      BY <2>2, <2>6
    <3>2. SettledBy(p.days, lines, i, since)
      <4>1. CASE p.seen[l.req] # 0
        <5>1. p.seen[l.req] \in Day
          BY <2>1, <2>4, <4>1 DEF Fold, Day, UsageAssumption
        <5>2. p.days[p.seen[l.req]][l.req] = 1
          BY <5>1, <2>1, <2>4 DEF Good, SeenIs, p
        <5> QED BY <5>1, <5>2 DEF SettledBy, IsBooked, l
      <4>2. CASE ~(l.day >= since)
        <5>1. i \in 1 .. i /\ l.day < since
          BY <2>0, <2>4, <4>2
        <5> QED BY <5>1 DEF SettledBy, l
      <4> QED BY <4>1, <4>2, <2>6
    <3>3. \A k \in (off + 1) .. (i - 1) : SettledBy(p.days, lines, k, since)
      BY <2>1 DEF Good, p
    <3>4. SeenIs(p.days, p.seen)
      BY <2>1 DEF Good, p
    <3> QED BY <3>1, <3>2, <3>3, <3>4, <2>0, <2>3 DEF Good, to
  <2> QED BY <2>5, <2>6
<1> HIDE DEF S
<1>3. \A i \in off .. Len(lines) : i \in S
  BY <1>0, <1>1, <1>2, StepByStep
<1> QED BY <1>3 DEF S

(* What prev, of a reader that has read i lines, says of the lines ahead.  *)
Tells(counted, latest, lines, i) ==
    \A j \in (i + 1) .. Len(lines) :
        latest <= lines[j].req /\ (IsBooked(counted, lines[j].req) => latest = lines[j].req)

RolloutRead(at, s, lines, off, since, i) ==
    /\ OnceIn(at[i].days) /\ at[i].seen = s.seen
    /\ at[i].prev = IF i = off THEN s.prev ELSE lines[i].req
    /\ \A k \in (off + 1) .. i :
          \/ SettledBy(at[i].days, lines, k, since)
          \/ s.prev = lines[k].req

(* A rollout read: a request is booked once, and prev is the last line's.  *)
LEMMA ReadCodex ==
    ASSUME UsageAssumption, codex \in BOOLEAN, codex, NEW s \in Fold, NEW lines \in Seq(Lines), NEW off \in 0 .. Len(lines),
           NEW since \in Nat, NEW at, at[off] = s,
           \A i \in (off + 1) .. Len(lines) : at[i] = lineOf(at[i - 1], lines[i], since),
           OnceIn(s.days), Ordered(lines), Tells(s.days, s.prev, lines, off)
    PROVE  \A i \in off .. Len(lines) : RolloutRead(at, s, lines, off, since, i)
<1>0. Len(lines) \in Nat /\ off \in Nat /\ off <= Len(lines)
  OBVIOUS
<1>a. \A i \in off .. Len(lines) : at[i] \in Fold
  BY ReadGrows
<1>b. \A k \in 1 .. Len(lines) : lines[k] \in Lines /\ lines[k].req \in Req /\ lines[k].day \in Day
      /\ lines[k].req \in Nat /\ lines[k].day \in Nat
  <2>1. \A k \in 1 .. Len(lines) : lines[k] \in Lines
    OBVIOUS
  <2>2. \A m \in Lines : m.req \in Req /\ m.day \in Day
    BY DEF Lines
  <2>3. \A m \in Req : m \in Nat
    BY DEF Req
  <2>4. \A m \in Day : m \in Nat
    BY DEF Day
  <2> QED BY <2>1, <2>2, <2>3, <2>4, Zenon
<1> DEFINE SetBy(i, k) == SettledBy(at[i].days, lines, k, since) \/ s.prev = lines[k].req
           Good(i) == /\ OnceIn(at[i].days) /\ at[i].seen = s.seen
                      /\ at[i].prev = IF i = off THEN s.prev ELSE lines[i].req
                      /\ Tells(at[i].days, at[i].prev, lines, i)
                      /\ \A k \in (off + 1) .. i : SetBy(i, k)
           S == {i \in off .. Len(lines) : Good(i)}
<1>1. off \in S
  BY <1>0
<1>2. ASSUME NEW i \in (off + 1) .. Len(lines), i - 1 \in S PROVE i \in S
  <2>0. i \in Nat /\ i - 1 \in off .. Len(lines) /\ i \in off .. Len(lines) /\ i \in 1 .. Len(lines) /\ i # off
    BY <1>0
  <2> DEFINE l == lines[i]
             p == at[i - 1]
             to == at[i]
  <2>1. p \in Fold /\ to \in Fold /\ l \in Lines /\ Good(i - 1)
    BY <1>0, <1>2, <1>a, <2>0
  <2> DEFINE moved == [p EXCEPT !.prev = l.req]
             adds == p.prev # l.req /\ l.day >= since
  <2>2. to = IF adds THEN Booked(moved, l) ELSE moved
    BY DEF lineOf, codexLine
  <2>3. \A k \in (off + 1) .. i : k = i \/ k \in (off + 1) .. (i - 1)
    BY <2>0, <1>0
  <2>4. l.req \in Req /\ l.day \in Day /\ l.req \in Nat /\ l.day \in Nat
    BY <1>b, <2>0
  <2>5. /\ OnceIn(p.days) /\ p.seen = s.seen /\ Tells(p.days, p.prev, lines, i - 1)
        /\ \A k \in (off + 1) .. (i - 1) : SetBy(i - 1, k)
        /\ p.prev = IF i - 1 = off THEN s.prev ELSE lines[i - 1].req
    BY <2>1
  <2>6. /\ p.prev <= l.req /\ (IsBooked(p.days, l.req) => p.prev = l.req) /\ p.prev \in Nat
        /\ \A j \in (i + 1) .. Len(lines) : IsBooked(p.days, lines[j].req) => p.prev = lines[j].req
    <3>1. i \in (i - 1 + 1) .. Len(lines) /\ \A j \in (i + 1) .. Len(lines) : j \in (i - 1 + 1) .. Len(lines)
      BY <2>0, <1>0
    <3>2. p.prev \in Nat
      BY <2>1 DEF Fold, UsageAssumption
    <3> QED BY <3>1, <3>2, <2>5 DEF Tells
  <2> HIDE DEF l, p, to, Good, SetBy
  <2>7. moved \in Fold /\ moved.days = p.days /\ moved.seen = p.seen /\ moved.prev = l.req
    <3>1. l.req \in 0 .. MaxAsked
      BY <2>4 DEF Req, UsageAssumption
    <3> QED BY <3>1, <2>1 DEF Fold
  <2> HIDE DEF moved
  <2>8. /\ to.seen = s.seen /\ to.prev = l.req
        /\ \A d \in Day, r \in Req : to.days[d][r] =
              IF adds /\ d = l.day /\ r = l.req THEN p.days[d][r] + 1 ELSE p.days[d][r]
    <3>1. CASE adds
      <4> DEFINE b == Booked(moved, l)
      <4>1. /\ b.seen = moved.seen /\ b.prev = moved.prev
            /\ \A d \in Day, r \in Req : b.days[d][r] =
                  IF d = l.day /\ r = l.req THEN moved.days[d][r] + 1 ELSE moved.days[d][r]
        BY <2>1, <2>7, BookedIs
      <4>2. to = b
        BY <3>1, <2>2
      <4> HIDE DEF b
      <4> QED BY <3>1, <4>1, <4>2, <2>5, <2>7
    <3>2. CASE ~adds
      BY <3>2, <2>2, <2>5, <2>7
    <3> QED BY <3>1, <3>2
  <2>9. \A d \in Day, r \in Req : p.days[d][r] \in Nat
    BY <2>1 DEF Fold, Counts
  <2>a. \A d \in Day, r \in Req : ~(adds /\ d = l.day /\ r = l.req) => to.days[d][r] = p.days[d][r]
    <3> HIDE DEF adds
    <3> QED BY <2>8
  <2>b. adds => to.days[l.day][l.req] = p.days[l.day][l.req] + 1
    <3> HIDE DEF adds
    <3> QED BY <2>4, <2>8
  <2>10. adds => p.prev # l.req /\ ~IsBooked(p.days, l.req)
    BY <2>6
  <2>11. OnceIn(to.days)
    <3>1. \A d \in Day : adds => p.days[d][l.req] = 0
      BY <2>10, <2>9, <2>4 DEF IsBooked
    <3> HIDE DEF adds
    <3>2. ASSUME NEW r \in Req, NEW d \in Day PROVE to.days[d][r] <= 1
      <4>1. CASE adds /\ d = l.day /\ r = l.req
        <5>1. to.days[d][r] = 0 + 1
          BY <4>1, <3>1, <2>b
        <5> QED BY <5>1
      <4>2. CASE ~(adds /\ d = l.day /\ r = l.req)
        <5>1. p.days[d][r] <= 1
          BY <2>5 DEF OnceIn
        <5> QED BY <4>2, <5>1, <2>a
      <4> QED BY <4>1, <4>2
    <3>3. ASSUME NEW r \in Req, NEW d \in Day, NEW e \in Day, to.days[d][r] > 0, to.days[e][r] > 0 PROVE d = e
      <4>1. CASE adds /\ r = l.req
        <5>1. p.days[d][r] = 0 /\ p.days[e][r] = 0
          BY <4>1, <3>1
        <5>2. d # l.day => to.days[d][r] = 0
          BY <4>1, <5>1, <2>a
        <5>3. e # l.day => to.days[e][r] = 0
          BY <4>1, <5>1, <2>a
        <5> QED BY <5>2, <5>3, <3>3
      <4>2. CASE ~(adds /\ r = l.req)
        <5>1. to.days[d][r] = p.days[d][r] /\ to.days[e][r] = p.days[e][r]
          BY <4>2, <2>a
        <5> QED BY <5>1, <3>3, <2>5 DEF OnceIn
      <4> QED BY <4>1, <4>2
    <3> QED BY <3>2, <3>3 DEF OnceIn
  <2>12. \A r \in Req : IsBooked(p.days, r) => IsBooked(to.days, r)
    <3>1. \A d \in Day, r \in Req : p.days[d][r] > 0 => to.days[d][r] > 0
      <4> SUFFICES ASSUME NEW d \in Day, NEW r \in Req, p.days[d][r] > 0 PROVE to.days[d][r] > 0
        OBVIOUS
      <4> HIDE DEF adds
      <4>1. to.days[d][r] = p.days[d][r] \/ to.days[d][r] = p.days[d][r] + 1
        BY <2>8
      <4> QED BY <4>1, <2>9
    <3> QED BY <3>1 DEF IsBooked
  <2>13. \A r \in Req : IsBooked(to.days, r) => IsBooked(p.days, r) \/ r = l.req
    BY <2>8 DEF IsBooked
  <2>14. Tells(to.days, to.prev, lines, i)
    <3> SUFFICES ASSUME NEW j \in (i + 1) .. Len(lines)
                 PROVE  l.req <= lines[j].req /\ (IsBooked(to.days, lines[j].req) => l.req = lines[j].req)
      BY <2>8 DEF Tells
    <3>1. j \in 1 .. Len(lines) /\ i <= j
      BY <2>0, <1>0
    <3>2. l.req <= lines[j].req /\ lines[j].req \in Req /\ lines[j].req \in Nat
      BY <3>1, <1>b, <2>0 DEF Ordered, l
    <3>3. ASSUME IsBooked(to.days, lines[j].req) PROVE l.req = lines[j].req
      <4>1. CASE IsBooked(p.days, lines[j].req)
        BY <4>1, <2>6, <3>2, <2>4
      <4>2. CASE ~IsBooked(p.days, lines[j].req)
        BY <4>2, <3>2, <3>3, <2>13
      <4> QED BY <4>1, <4>2
    <3> QED BY <3>2, <3>3
  <2>15. \A k \in (off + 1) .. (i - 1) : SetBy(i, k)
    <3> SUFFICES ASSUME NEW k \in (off + 1) .. (i - 1) PROVE SetBy(i, k)
      OBVIOUS
    <3>1. lines[k].req \in Req
      BY <1>b, <1>0, <2>0
    <3>2. SettledBy(p.days, lines, k, since) \/ s.prev = lines[k].req
      BY <2>5 DEF SetBy, p
    <3> QED BY <3>1, <3>2, <2>12 DEF SetBy, SettledBy, to
  <2>16. SetBy(i, i)
    <3>1. CASE adds
      <4>1. to.days[l.day][l.req] > 0
        <5>1. to.days[l.day][l.req] = p.days[l.day][l.req] + 1
          <6> HIDE DEF adds
          <6> QED BY <3>1, <2>b
        <5>2. p.days[l.day][l.req] \in Nat
          BY <2>9, <2>4
        <5> QED BY <5>1, <5>2
      <4> QED BY <4>1, <2>4 DEF SetBy, SettledBy, IsBooked, l, to
    <3>2. CASE ~(l.day >= since)
      <4>1. i \in 1 .. i /\ l.day < since
        BY <2>0, <2>4, <3>2
      <4> QED BY <4>1 DEF SetBy, SettledBy, l
    <3>3. CASE p.prev = l.req
      <4>1. CASE i - 1 = off
        BY <4>1, <3>3, <2>5 DEF SetBy, l
      <4>2. CASE i - 1 # off
        <5>1. lines[i - 1].req = lines[i].req /\ i - 1 \in (off + 1) .. (i - 1)
          BY <4>2, <3>3, <2>5, <2>0, <1>0 DEF l
        <5>2. SetBy(i, i - 1)
          BY <5>1, <2>15
        <5>3. \A j \in 1 .. (i - 1) : j \in 1 .. i
          BY <2>0
        <5> QED BY <5>1, <5>2, <5>3 DEF SetBy, SettledBy
      <4> QED BY <4>1, <4>2
    <3> QED BY <3>1, <3>2, <3>3
  <2>17. Good(i)
    BY <2>0, <2>3, <2>8, <2>11, <2>14, <2>15, <2>16 DEF Good, to, l
  <2> QED BY <2>0, <2>17
<1> HIDE DEF S
<1>3. \A i \in off .. Len(lines) : i \in S
  BY <1>0, <1>1, <1>2, StepByStep
<1> QED BY <1>3 DEF S, RolloutRead

(* The keys of logFiles, for either tool.                                  *)
LEMMA KeysAre ==
    ASSUME codex \in BOOLEAN
    PROVE  /\ \A f \in LogFile, p \in {0, 1, 2} : <<f, p>> \in Keys /\ Key(f, p) \in Keys
           /\ \A f \in LogFile, p \in {0, 1, 2} : Key(f, p) = IF codex THEN <<f, 0>> ELSE <<f, p>>
           /\ \A k \in Keys : \E f \in LogFile, p \in {0, 1, 2} : k = <<f, p>>
BY DEF Keys, Key, Root

(* The lines of a log, by their place or as a set.                         *)
LEMMA LinesAre ==
    ASSUME UsageTypes, NEW f \in LogFile
    PROVE  /\ Len(log[f]) \in Nat /\ Len(partial[f]) \in Nat /\ log[f] \in Seq(Lines) /\ partial[f] \in Seq(Lines)
           /\ \A i \in 1 .. Len(log[f]) : log[f][i] \in Whole(f) /\ log[f][i] \in Lines
           /\ \A m \in Whole(f) : \E i \in 1 .. Len(log[f]) : m = log[f][i]
           /\ \A m \in Whole(f) \cup Being(f) : m \in Lines /\ m.req \in Req /\ m.day \in Day /\ m.req \in Nat /\ m.day \in Nat
           /\ \A m \in Being(f) : \E i \in 1 .. Len(partial[f]) : m = partial[f][i]
           /\ \A i \in 1 .. Len(partial[f]) : partial[f][i] \in Being(f)
           /\ partial[f] = <<>> => Being(f) = {}
           /\ log[f] = <<>> => Whole(f) = {} /\ Len(log[f]) = 0
           /\ log[f] # <<>> => Len(log[f]) > 0
<1>1. log[f] \in Seq(Lines) /\ partial[f] \in Seq(Lines)
  BY DEF UsageTypes
<1>2. \A l \in Lines : l.req \in Req /\ l.day \in Day /\ l.req \in Nat /\ l.day \in Nat
  BY DEF Lines, Req, Day
<1> DEFINE a == log[f]
           b == partial[f]
<1> HIDE DEF a, b
<1>3. a \in Seq(Lines) /\ b \in Seq(Lines)
  BY <1>1 DEF a, b
<1>4. DOMAIN a = 1 .. Len(a) /\ DOMAIN b = 1 .. Len(b) /\ Len(a) \in Nat /\ Len(b) \in Nat
  BY <1>3
<1>5. (\A i \in 1 .. Len(a) : a[i] \in Lines) /\ (\A i \in 1 .. Len(b) : b[i] \in Lines)
  BY <1>3
<1>6. Whole(f) = {a[i] : i \in 1 .. Len(a)} /\ Being(f) = {b[i] : i \in 1 .. Len(b)}
  BY <1>4 DEF Whole, Being, Range, a, b
<1>7. (a = <<>> => Len(a) = 0) /\ (b = <<>> => Len(b) = 0) /\ (a # <<>> => Len(a) > 0)
  BY <1>3
<1>8. Len(a) = 0 => 1 .. Len(a) = {}
  OBVIOUS
<1>9. Len(b) = 0 => 1 .. Len(b) = {}
  OBVIOUS
<1> QED BY <1>1, <1>2, <1>3, <1>4, <1>5, <1>6, <1>7, <1>8, <1>9 DEF a, b

(* Where a visit starts to read.                                           *)
LEMMA FromIs ==
    ASSUME UsageAssumption, UsageTypes, NEW f \in LogFile
    PROVE  LET k == Key(f, scan.root) IN
           /\ k \in Keys /\ From(f) \in LogRecord /\ Size(f) \in Nat /\ Size(f) = Len(log[f]) + Len(partial[f])
           /\ Size(f) < logFiles[k].off => From(f).off = Size(f) /\ From(f).prev = 0
           /\ ~(Size(f) < logFiles[k].off) => From(f).off = logFiles[k].off /\ From(f).prev = logFiles[k].prev
<1> DEFINE k == Key(f, scan.root)
           old == logFiles[k]
<1>1. k \in Keys /\ old \in LogRecord
  BY KeysAre DEF UsageTypes, Scans
<1>2. Size(f) \in Nat /\ Size(f) = Len(log[f]) + Len(partial[f])
  <2> DEFINE a == Len(log[f])
             b == Len(partial[f])
  <2>1. a \in Nat /\ b \in Nat
    BY LinesAre
  <2>2. Size(f) = a + b
    BY DEF Size
  <2> HIDE DEF a, b
  <2>3. a + b \in Nat
    BY <2>1
  <2> QED BY <2>2, <2>3 DEF a, b
<1>3. From(f) = IF Size(f) < old.off THEN [old EXCEPT !.off = Size(f), !.prev = 0] ELSE [old EXCEPT !.known = TRUE]
  BY DEF From
<1>4. 0 \in 0 .. MaxAsked
  BY DEF UsageAssumption
<1> HIDE DEF old
<1>5. /\ From(f) \in LogRecord
      /\ Size(f) < old.off => From(f).off = Size(f) /\ From(f).prev = 0
      /\ ~(Size(f) < old.off) => From(f).off = old.off /\ From(f).prev = old.prev
  BY <1>1, <1>2, <1>3, <1>4 DEF LogRecord
<1> QED BY <1>1, <1>2, <1>5 DEF old

(* What a visit that reads the log leaves behind.                          *)
LEMMA GotIs ==
    ASSUME UsageAssumption, UsageTypes, NEW f \in LogFile, From(f).off <= Len(log[f])
    PROVE  /\ Got(f) \in Fold
           /\ Increased(days, Got(f).days, log[f], From(f).off)
           /\ ~codex /\ SeenIs(days, bookedOn) =>
                 /\ SeenIs(Got(f).days, Got(f).seen)
                 /\ \A i \in (From(f).off + 1) .. Len(log[f]) : SettledBy(Got(f).days, log[f], i, scan.since)
           /\ codex /\ OnceIn(days) /\ Ordered(log[f]) /\ Tells(days, From(f).prev, log[f], From(f).off) =>
                 /\ OnceIn(Got(f).days)
                 /\ Got(f).prev = IF From(f).off = Len(log[f]) THEN From(f).prev ELSE log[f][Len(log[f])].req
                 /\ \A i \in (From(f).off + 1) .. Len(log[f]) :
                       SettledBy(Got(f).days, log[f], i, scan.since) \/ From(f).prev = log[f][i].req
<1> DEFINE s == [days |-> days, seen |-> bookedOn, prev |-> From(f).prev]
           lines == log[f]
           off == From(f).off
           since == scan.since
<1>1. s \in Fold /\ s.days = days /\ s.seen = bookedOn /\ s.prev = From(f).prev
  BY FromIs DEF Fold, UsageTypes, LogRecord
<1>2. lines \in Seq(Lines) /\ Len(lines) \in Nat
  BY LinesAre
<1>3. off \in 0 .. Len(lines) /\ off \in Nat
  <2>1. From(f) \in LogRecord
    BY FromIs
  <2> QED BY <1>2, <2>1 DEF LogRecord
<1>4. since \in Nat
  BY DEF UsageTypes, Scans, Day
<1>5. Got(f) = read(s, lines, off, since)
  BY DEF Got
<1> HIDE DEF s, lines, off, since
<1>c. PICK at : Chain(at, s, lines, off, since) /\ read(s, lines, off, since) = at[Len(lines)]
  BY <1>2, <1>3, ReadSteps
<1>6. /\ at[off] = s
      /\ \A i \in (off + 1) .. Len(lines) : at[i] = lineOf(at[i - 1], lines[i], since)
      /\ read(s, lines, off, since) = at[Len(lines)]
  BY <1>c DEF Chain
<1>7. codex \in BOOLEAN
  BY DEF UsageTypes
<1>8. Len(lines) \in off .. Len(lines)
  BY <1>2, <1>3
<1>9. Got(f) \in Fold /\ Increased(days, Got(f).days, lines, off)
  BY <1>1, <1>2, <1>3, <1>5, <1>6, <1>7, <1>8, ReadGrows
<1>10. ASSUME ~codex, SeenIs(days, bookedOn)
       PROVE  /\ SeenIs(Got(f).days, Got(f).seen)
              /\ \A i \in (off + 1) .. Len(lines) : SettledBy(Got(f).days, lines, i, since)
  <2>1. SeenIs(s.days, s.seen)
    BY <1>1, <1>10
  <2>2. \A i \in off .. Len(lines) :
              SeenIs(at[i].days, at[i].seen) /\ \A k \in (off + 1) .. i : SettledBy(at[i].days, lines, k, since)
    BY <1>1, <1>2, <1>3, <1>4, <1>6, <1>7, <1>10, <2>1, ReadClaude, Zenon
  <2> QED BY <1>5, <1>6, <1>8, <2>2
<1>11. ASSUME codex, OnceIn(days), Ordered(lines), Tells(days, From(f).prev, lines, off)
       PROVE  /\ OnceIn(Got(f).days)
              /\ Got(f).prev = IF off = Len(lines) THEN From(f).prev ELSE lines[Len(lines)].req
              /\ \A i \in (off + 1) .. Len(lines) :
                    SettledBy(Got(f).days, lines, i, since) \/ From(f).prev = lines[i].req
  <2>1. OnceIn(s.days) /\ Tells(s.days, s.prev, lines, off)
    BY <1>1, <1>11
  <2>2. \A i \in off .. Len(lines) : RolloutRead(at, s, lines, off, since, i)
    BY <1>1, <1>2, <1>3, <1>4, <1>6, <1>7, <1>11, <2>1, ReadCodex, ZenonT(60)
  <2> QED BY <1>1, <1>5, <1>6, <1>8, <2>2 DEF RolloutRead
<1> QED BY <1>9, <1>10, <1>11 DEF lines, off, since

(* What a visit may do to the counts: a line of the log is booked.         *)
LEMMA VisitBooks ==
    ASSUME UsageAssumption, UsageTypes, NEW f \in LogFile, Visit(f)
    PROVE  /\ days' \in Counts /\ bookedOn' \in [Req -> 0 .. MaxDay] /\ logFiles' \in [Keys -> LogRecord]
           /\ \A d \in Day, r \in Req : days[d][r] <= days'[d][r]
           /\ \A d \in Day, r \in Req : days[d][r] # days'[d][r] => \E m \in Whole(f) : m.day = d /\ m.req = r
           /\ \A k \in Keys : k # Key(f, scan.root) => logFiles'[k] = logFiles[k]
           /\ UNCHANGED tools
           /\ scan' \in Scans /\ scan' = [scan EXCEPT !.left = @ \ {f}]
<1>0. \A d \in Day, r \in Req : days[d][r] \in Nat
  BY DEF UsageTypes, Counts
<1>a. UNCHANGED tools /\ scan' \in Scans /\ scan' = [scan EXCEPT !.left = @ \ {f}]
  BY DEF Visit, UsageTypes, Scans
<1>1. CASE PassedBy(f)
  <2>1. UNCHANGED counts
    BY <1>1 DEF Visit
  <2> QED BY <1>0, <1>a, <2>1 DEF counts, UsageTypes
<1>2. CASE ~PassedBy(f) /\ From(f).off <= Len(log[f])
  <2> DEFINE k == Key(f, scan.root)
             e == [off |-> Len(log[f]), prev |-> Got(f).prev, known |-> TRUE]
  <2>1. logFiles' = [logFiles EXCEPT ![k] = e] /\ days' = Got(f).days /\ bookedOn' = Got(f).seen
    BY <1>2 DEF Visit
  <2>2. Got(f) \in Fold /\ Increased(days, Got(f).days, log[f], From(f).off)
    BY <1>2, GotIs
  <2>3. e \in LogRecord
    BY <2>2, LinesAre DEF LogRecord, Fold
  <2> HIDE DEF e, k
  <2>4. logFiles' \in [Keys -> LogRecord] /\ \A q \in Keys : q # k => logFiles'[q] = logFiles[q]
    BY <2>1, <2>3 DEF UsageTypes
  <2>5. days' \in Counts /\ bookedOn' \in [Req -> 0 .. MaxDay]
    BY <2>1, <2>2 DEF Fold
  <2>6. ASSUME NEW d \in Day, NEW r \in Req, days[d][r] # days'[d][r]
        PROVE  \E m \in Whole(f) : m.day = d /\ m.req = r
    <3>1. PICK i \in (From(f).off + 1) .. Len(log[f]) : log[f][i].day = d /\ log[f][i].req = r
      BY <2>1, <2>2, <2>6 DEF Increased
    <3>2. i \in 1 .. Len(log[f])
      <4>1. Len(log[f]) \in Nat
        BY LinesAre
      <4>2. From(f) \in LogRecord
        BY FromIs
      <4> QED BY <3>1, <4>1, <4>2 DEF LogRecord
    <3> QED BY <3>1, <3>2, LinesAre
  <2>7. \A d \in Day, r \in Req : days[d][r] <= days'[d][r]
    BY <2>1, <2>2 DEF Increased
  <2> QED BY <1>a, <2>4, <2>5, <2>6, <2>7 DEF k
<1>3. CASE ~PassedBy(f) /\ ~(From(f).off <= Len(log[f]))
  <2> DEFINE k == Key(f, scan.root)
  <2>1. logFiles' = [logFiles EXCEPT ![k] = From(f)] /\ UNCHANGED <<days, bookedOn>>
    BY <1>3 DEF Visit
  <2>2. From(f) \in LogRecord
    BY FromIs
  <2> HIDE DEF k
  <2>3. logFiles' \in [Keys -> LogRecord] /\ \A q \in Keys : q # k => logFiles'[q] = logFiles[q]
    BY <2>1, <2>2 DEF UsageTypes
  <2> QED BY <1>0, <1>a, <2>1, <2>3 DEF k, UsageTypes
<1> QED BY <1>1, <1>2, <1>3

(* A tool's step leaves the counts alone and disturbs the scan.            *)
ToolStep(f, g) ==
    Midnight \/ NewRequest(f) \/ SameRequest(f) \/ LineEnds(f) \/ MoveFile(f) \/ CutShort(f) \/ Resume(f, g)

(* Every step is a tool's, the clock's or the scan's.                      *)
LEMMA StepIs ==
    ASSUME UsageNext
    PROVE  \/ \E f, g \in LogFile : ToolStep(f, g)
           \/ Midnight \/ handleAgentUsage \/ NextRoot \/ ScanEnds
           \/ \E f \in LogFile : Visit(f)
BY Zenon DEF UsageNext, ToolStep

LEMMA ToolsLeave ==
    ASSUME UsageTypes, NEW f, NEW g, ToolStep(f, g)
    PROVE  /\ UNCHANGED counts /\ codex' = codex /\ scan' \in Scans /\ scan'.calm = FALSE
           /\ scan'.on = scan.on /\ scan'.since = scan.since /\ scan'.root = scan.root /\ scan'.left = scan.left
<1>1. UNCHANGED counts /\ codex' = codex /\ Stir
  BY Zenon DEF ToolStep, Midnight, NewRequest, SameRequest, LineEnds, MoveFile, CutShort, Resume, Writes
<1> QED BY <1>1 DEF Stir, UsageTypes, Scans

(* What is written, and what becomes of it: one lemma for each tool.       *)
LEMMA WriteDoes ==
    ASSUME UsageTypes, NEW f \in LogFile, NEW l \in Lines, Writes(f, l)
    PROVE  /\ partial[f] = <<>> /\ partial' \in [LogFile -> Seq(Lines)] /\ touched' \in [LogFile -> Day]
           /\ place' \in [LogFile -> {0, 1, 2}] /\ UNCHANGED <<day, log, logMoves, cut>>
           /\ \A g \in LogFile : partial'[g] = IF g = f THEN <<l>> ELSE partial[g]
           /\ \A g \in LogFile : Being(g)' = IF g = f THEN {l} ELSE Being(g)
           /\ \A g \in LogFile : Whole(g)' = Whole(g)
           /\ \A g \in LogFile : touched'[g] = IF g = f THEN day ELSE touched[g]
           /\ \A g \in LogFile : place'[g] = IF g = f /\ place[g] = 0 THEN 1 ELSE place[g]
<1>1. /\ partial[f] = <<>> /\ partial' = [partial EXCEPT ![f] = <<l>>] /\ touched' = [touched EXCEPT ![f] = day]
      /\ place' = [place EXCEPT ![f] = IF @ = 0 THEN 1 ELSE @] /\ UNCHANGED <<day, log, logMoves, cut>>
  BY DEF Writes
<1>2. <<l>> \in Seq(Lines) /\ Range(<<l>>) = {l}
  BY DEF Range
<1> DEFINE one == <<l>>
<1> HIDE DEF one
<1>3. /\ partial' \in [LogFile -> Seq(Lines)]
      /\ \A g \in LogFile : partial'[g] = IF g = f THEN one ELSE partial[g]
  <2>1. partial' = [partial EXCEPT ![f] = one] /\ one \in Seq(Lines)
    BY <1>1, <1>2 DEF one
  <2> QED BY <2>1 DEF UsageTypes
<1>4. /\ touched' \in [LogFile -> Day] /\ place' \in [LogFile -> {0, 1, 2}]
      /\ \A g \in LogFile : touched'[g] = IF g = f THEN day ELSE touched[g]
      /\ \A g \in LogFile : place'[g] = IF g = f /\ place[g] = 0 THEN 1 ELSE place[g]
  BY <1>1 DEF UsageTypes
<1>5. \A g \in LogFile : Being(g)' = IF g = f THEN {l} ELSE Being(g)
  BY <1>2, <1>3 DEF Being, one
<1>6. \A g \in LogFile : Whole(g)' = Whole(g)
  BY <1>1 DEF Whole
<1> QED BY <1>1, <1>3, <1>4, <1>5, <1>6 DEF one

(* The line that was being written is whole now.                           *)
LEMMA EndDoes ==
    ASSUME UsageTypes, NEW f \in LogFile, LineEnds(f), Len(partial[f]) <= 1
    PROVE  /\ log' \in [LogFile -> Seq(Lines)] /\ partial' \in [LogFile -> Seq(Lines)]
           /\ touched' \in [LogFile -> Day] /\ UNCHANGED <<day, place, requests, logMoves, cut>>
           /\ \A g \in LogFile : g # f => log'[g] = log[g] /\ partial'[g] = partial[g] /\ touched'[g] = touched[g]
           /\ \A g \in LogFile : g # f => Whole(g)' = Whole(g) /\ Being(g)' = Being(g)
           /\ touched'[f] = day /\ partial'[f] = <<>> /\ Being(f)' = {} /\ partial[f] # <<>> /\ Len(partial[f]) = 1
           /\ Being(f) = {partial[f][1]} /\ Whole(f)' = Whole(f) \cup Being(f)
           /\ Len(log'[f]) = Len(log[f]) + 1 /\ log'[f][Len(log[f]) + 1] = partial[f][1]
           /\ \A i \in 1 .. Len(log[f]) : log'[f][i] = log[f][i]
<1> DEFINE a == log[f]
           b == partial[f]
           c == log'[f]
<1>0. /\ log' = [log EXCEPT ![f] = @ \o b] /\ partial' = [partial EXCEPT ![f] = <<>>] /\ b # <<>>
      /\ touched' = [touched EXCEPT ![f] = day] /\ UNCHANGED <<day, place, requests, logMoves, cut>>
  BY DEF LineEnds
<1>1. a \in Seq(Lines) /\ b \in Seq(Lines) /\ f \in DOMAIN log
  BY DEF UsageTypes
<1>2. Len(b) = 1
  <2> DEFINE n == Len(b)
  <2>1. n <= 1
    OBVIOUS
  <2>2. n # 0 /\ n \in Nat
    <3> HIDE DEF a, b
    <3> QED BY <1>0, <1>1
  <2> HIDE DEF n
  <2>3. n = 1
    BY <2>1, <2>2
  <2> QED BY <2>3 DEF n
<1>3. /\ a \o b \in Seq(Lines) /\ Len(a \o b) = Len(a) + Len(b)
      /\ \A i \in 1 .. Len(a) : (a \o b)[i] = a[i]
      /\ \A i \in 1 .. Len(b) : (a \o b)[Len(a) + i] = b[i]
  <2> HIDE DEF a, b
  <2> QED BY <1>1, Joined
<1>4. c = a \o b
  BY <1>0, <1>1
<1>5. /\ log' \in [LogFile -> Seq(Lines)] /\ partial' \in [LogFile -> Seq(Lines)] /\ touched' \in [LogFile -> Day]
      /\ \A g \in LogFile : g # f => log'[g] = log[g] /\ partial'[g] = partial[g] /\ touched'[g] = touched[g]
      /\ touched'[f] = day /\ partial'[f] = <<>>
  <2> DEFINE ab == a \o b
  <2>1. log' = [log EXCEPT ![f] = ab] /\ ab \in Seq(Lines)
    BY <1>0, <1>3
  <2> HIDE DEF ab
  <2>2. <<>> \in Seq(Lines)
    OBVIOUS
  <2> QED BY <1>0, <2>1, <2>2 DEF UsageTypes
<1>6. \A g \in LogFile : g # f => Whole(g)' = Whole(g) /\ Being(g)' = Being(g)
  BY <1>5 DEF Whole, Being
<1>7. Being(f)' = {}
  <2>1. Range(<<>>) = {}
    BY DEF Range
  <2> QED BY <1>5, <2>1 DEF Being
<1> HIDE DEF a, b, c
<1>8. /\ Len(c) = Len(a) + 1 /\ c[Len(a) + 1] = b[1] /\ c \in Seq(Lines) /\ Len(a) \in Nat
      /\ \A i \in 1 .. Len(a) : c[i] = a[i]
  <2>1. Len(a) \in Nat /\ 1 \in 1 .. Len(b)
    BY <1>1, <1>2
  <2>2. c \in Seq(Lines) /\ Len(c) = Len(a) + 1
    BY <1>2, <1>3, <1>4
  <2>3. c[Len(a) + 1] = b[1]
    BY <1>3, <1>4, <2>1
  <2>4. \A i \in 1 .. Len(a) : c[i] = a[i]
    BY <1>3, <1>4
  <2> QED BY <2>1, <2>2, <2>3, <2>4
<1>9. Range(b) = {b[1]}
  <2>1. DOMAIN b = {1}
    BY <1>1, <1>2
  <2> QED BY <2>1 DEF Range
<1>10. Range(c) = Range(a) \cup {b[1]}
  <2>1. DOMAIN c = 1 .. (Len(a) + 1) /\ DOMAIN a = 1 .. Len(a)
    BY <1>1, <1>8
  <2>2. 1 .. (Len(a) + 1) = (1 .. Len(a)) \cup {Len(a) + 1}
    BY <1>8
  <2> QED BY <1>8, <2>1, <2>2 DEF Range
<1>11. Whole(f)' = Range(c) /\ Whole(f) = Range(a) /\ Being(f) = Range(b)
  BY DEF Whole, Being, a, b, c
<1> QED BY <1>0, <1>2, <1>5, <1>6, <1>7, <1>8, <1>9, <1>10, <1>11 DEF a, b, c

(* A log takes the lines of another.                                       *)
LEMMA ResumeDoes ==
    ASSUME UsageTypes, NEW f \in LogFile, NEW g \in LogFile, Resume(f, g)
    PROVE  /\ log' \in [LogFile -> Seq(Lines)] /\ touched' \in [LogFile -> Day] /\ place' \in [LogFile -> {0, 1, 2}]
           /\ logMoves' \in Nat /\ ~codex /\ f # g /\ place[g] = 0 /\ UNCHANGED <<day, partial, requests, cut>>
           /\ \A h \in LogFile : log'[h] = log[IF h = g THEN f ELSE h]
           /\ \A h \in LogFile : Whole(h)' = Whole(IF h = g THEN f ELSE h) /\ Being(h)' = Being(h)
           /\ \A h \in LogFile : touched'[h] = IF h = g THEN day ELSE touched[h]
           /\ \A h \in LogFile : place'[h] = IF h = g THEN 1 ELSE place[h]
<1>1. /\ log' = [log EXCEPT ![g] = log[f]] /\ place' = [place EXCEPT ![g] = 1] /\ touched' = [touched EXCEPT ![g] = day]
      /\ ~codex /\ f # g /\ place[g] = 0 /\ logMoves' = logMoves + 1 /\ UNCHANGED <<day, partial, requests, cut>>
  BY DEF Resume
<1>2. log' \in [LogFile -> Seq(Lines)] /\ \A h \in LogFile : log'[h] = log[IF h = g THEN f ELSE h]
  BY <1>1 DEF UsageTypes
<1>3. /\ touched' \in [LogFile -> Day] /\ place' \in [LogFile -> {0, 1, 2}] /\ logMoves' \in Nat
      /\ \A h \in LogFile : touched'[h] = IF h = g THEN day ELSE touched[h]
      /\ \A h \in LogFile : place'[h] = IF h = g THEN 1 ELSE place[h]
  BY <1>1 DEF UsageTypes
<1>4. \A h \in LogFile : Whole(h)' = Whole(IF h = g THEN f ELSE h) /\ Being(h)' = Being(h)
  BY <1>1, <1>2 DEF Whole, Being
<1> QED BY <1>1, <1>2, <1>3, <1>4

(* A log is empty again.                                                   *)
LEMMA CutDoes ==
    ASSUME UsageTypes, NEW f \in LogFile, CutShort(f)
    PROVE  /\ log' \in [LogFile -> Seq(Lines)] /\ partial' \in [LogFile -> Seq(Lines)]
           /\ touched' \in [LogFile -> Day] /\ cut' = cut \cup {f} /\ logMoves' \in Nat
           /\ UNCHANGED <<day, place, requests>>
           /\ \A g \in LogFile : g # f => log'[g] = log[g] /\ partial'[g] = partial[g] /\ touched'[g] = touched[g]
           /\ \A g \in LogFile : g # f => Whole(g)' = Whole(g) /\ Being(g)' = Being(g)
           /\ touched'[f] = day /\ partial'[f] = <<>> /\ log'[f] = <<>> /\ Being(f)' = {} /\ Whole(f)' = {}
<1>1. /\ log' = [log EXCEPT ![f] = <<>>] /\ partial' = [partial EXCEPT ![f] = <<>>]
      /\ touched' = [touched EXCEPT ![f] = day] /\ cut' = cut \cup {f} /\ logMoves' = logMoves + 1
      /\ UNCHANGED <<day, place, requests>>
  BY DEF CutShort
<1>2. <<>> \in Seq(Lines) /\ Range(<<>>) = {}
  BY DEF Range
<1>3. /\ log' \in [LogFile -> Seq(Lines)] /\ partial' \in [LogFile -> Seq(Lines)] /\ touched' \in [LogFile -> Day]
      /\ \A g \in LogFile : g # f => log'[g] = log[g] /\ partial'[g] = partial[g] /\ touched'[g] = touched[g]
      /\ touched'[f] = day /\ partial'[f] = <<>> /\ log'[f] = <<>> /\ logMoves' \in Nat
  BY <1>1, <1>2 DEF UsageTypes
<1>4. \A g \in LogFile : g # f => Whole(g)' = Whole(g) /\ Being(g)' = Being(g)
  BY <1>3 DEF Whole, Being
<1>5. Being(f)' = {} /\ Whole(f)' = {}
  BY <1>2, <1>3 DEF Being, Whole
<1> QED BY <1>1, <1>3, <1>4, <1>5

(* What may be written: a new request, or the one of the last line again.  *)
LEMMA RequestIs ==
    ASSUME UsageAssumption, UsageTypes, LinesKnown, NEW f \in LogFile
    PROVE  /\ NewRequest(f) => /\ Writes(f, Line(requests + 1, day)) /\ requests' = requests + 1
                               /\ requests' \in 0 .. MaxAsked /\ Line(requests + 1, day) \in Lines
           /\ SameRequest(f) =>
                 /\ requests' = requests /\ log[f] # <<>>
                 /\ \E l \in Lines : /\ Writes(f, l) /\ l.req = log[f][Len(log[f])].req
                                     /\ log[f][Len(log[f])].day <= l.day /\ l.day <= day
                                     /\ codex => l = log[f][Len(log[f])]
<1>1. ASSUME NewRequest(f)
      PROVE  /\ Writes(f, Line(requests + 1, day)) /\ requests' = requests + 1
             /\ requests' \in 0 .. MaxAsked /\ Line(requests + 1, day) \in Lines
  <2>1. Writes(f, Line(requests + 1, day)) /\ requests' = requests + 1 /\ requests < IF codex THEN MaxAsked ELSE MaxClaude
    BY <1>1 DEF NewRequest
  <2>2. MaxAsked \in Nat /\ MaxClaude \in Nat /\ MaxClaude <= MaxAsked /\ requests \in Nat
    BY DEF UsageAssumption, UsageTypes
  <2>3. requests < MaxAsked
    <3>1. CASE codex
      BY <2>1, <3>1
    <3>2. CASE ~codex
      BY <2>1, <2>2, <3>2
    <3> QED BY <3>1, <3>2
  <2>4. requests + 1 \in Req /\ requests + 1 \in 0 .. MaxAsked /\ day \in Day
    BY <2>2, <2>3 DEF Req, UsageTypes
  <2> QED BY <2>1, <2>4 DEF Line, Lines
<1>2. ASSUME SameRequest(f)
      PROVE  /\ requests' = requests /\ log[f] # <<>>
             /\ \E l \in Lines : /\ Writes(f, l) /\ l.req = log[f][Len(log[f])].req
                                 /\ log[f][Len(log[f])].day <= l.day /\ l.day <= day
                                 /\ codex => l = log[f][Len(log[f])]
  <2> DEFINE latest == log[f][Len(log[f])]
  <2>1. /\ requests' = requests /\ log[f] # <<>>
        /\ Writes(f, IF codex THEN latest ELSE Line(latest.req, day))
    BY <1>2 DEF SameRequest
  <2>2. latest \in Whole(f) /\ latest \in Lines /\ latest.day \in Nat
    <3>1. Len(log[f]) \in 1 .. Len(log[f])
      BY <2>1, LinesAre
    <3> QED BY <3>1, LinesAre
  <2> HIDE DEF latest
  <2>3. latest.day <= day /\ day \in Nat /\ day \in Day
    <3>1. latest.day <= touched[f] /\ touched[f] <= day
      BY <2>2 DEF LinesKnown
    <3>2. touched[f] \in Nat /\ day \in Nat /\ day \in Day
      BY DEF UsageTypes, Day
    <3> QED BY <2>2, <3>1, <3>2
  <2>4. Line(latest.req, day) \in Lines /\ Line(latest.req, day).req = latest.req /\ Line(latest.req, day).day = day
    BY <2>2, <2>3 DEF Line, Lines
  <2>5. CASE codex
    <3>1. Writes(f, latest)
      BY <2>1, <2>5
    <3> QED BY <2>1, <2>2, <2>3, <3>1 DEF latest
  <2>6. CASE ~codex
    <3>1. Writes(f, Line(latest.req, day))
      BY <2>1, <2>6
    <3>2. day <= day
      BY <2>3
    <3> QED BY <2>1, <2>3, <2>4, <2>6, <3>1, <3>2 DEF latest
  <2> QED BY <2>5, <2>6
<1> QED BY <1>1, <1>2

(* Each part of the invariant, over one step; the types first.             *)
LEMMA TypesKept ==
    ASSUME UsageAssumption, UsageTypes, LinesKnown, UsageNext
    PROVE  UsageTypes'
<1>1. ASSUME NEW f \in LogFile, NEW g \in LogFile, ToolStep(f, g) PROVE UsageTypes'
  <2>1. UNCHANGED counts /\ codex' = codex /\ scan' \in Scans
    BY <1>1, ToolsLeave
  <2> SUFFICES /\ day' \in Day /\ requests' \in 0 .. MaxAsked /\ logMoves' \in Nat /\ cut' \subseteq LogFile
               /\ log' \in [LogFile -> Seq(Lines)] /\ partial' \in [LogFile -> Seq(Lines)]
               /\ place' \in [LogFile -> {0, 1, 2}] /\ touched' \in [LogFile -> Day]
    BY <2>1 DEF UsageTypes, counts
  <2>2. CASE Midnight
    BY <2>2 DEF Midnight, UsageTypes, Day, UsageAssumption
  <2>3. CASE NewRequest(f)
    BY <2>3, RequestIs, WriteDoes DEF UsageTypes
  <2>4. CASE SameRequest(f)
    BY <2>4, RequestIs, WriteDoes DEF UsageTypes
  <2>5. CASE LineEnds(f)
    <3>1. Len(partial[f]) <= 1
      BY DEF LinesKnown
    <3>2. /\ log' \in [LogFile -> Seq(Lines)] /\ partial' \in [LogFile -> Seq(Lines)]
          /\ touched' \in [LogFile -> Day] /\ UNCHANGED <<day, place, requests, logMoves, cut>>
      BY <2>5, <3>1, EndDoes
    <3> QED BY <3>2 DEF UsageTypes
  <2>6. CASE MoveFile(f)
    <3>1. /\ place' = [place EXCEPT ![f] = 3 - @] /\ place[f] # 0 /\ logMoves' = logMoves + 1
          /\ UNCHANGED <<day, log, partial, touched, requests, cut>>
      BY <2>6 DEF MoveFile
    <3>2. 3 - place[f] \in {0, 1, 2}
      <4>1. place[f] = 1 \/ place[f] = 2
        BY <3>1 DEF UsageTypes
      <4> QED BY <4>1
    <3> QED BY <3>1, <3>2 DEF UsageTypes
  <2>7. CASE CutShort(f)
    BY <2>7, CutDoes DEF UsageTypes
  <2>8. CASE Resume(f, g)
    BY <2>8, ResumeDoes DEF UsageTypes
  <2> QED BY <1>1, <2>2, <2>3, <2>4, <2>5, <2>6, <2>7, <2>8 DEF ToolStep
<1>2. CASE handleAgentUsage
  <2>1. /\ UNCHANGED <<tools, counts>>
        /\ scan' = [on |-> TRUE, since |-> usageSince, root |-> 1, calm |-> TRUE,
                    left |-> {f \in LogFile : place[f] = 1}]
    BY <1>2 DEF handleAgentUsage
  <2>2. usageSince \in Day
    BY DEF usageSince, UsageTypes, Day, UsageAssumption
  <2> QED BY <2>1, <2>2 DEF UsageTypes, Scans, tools, counts
<1>3. CASE NextRoot
  BY <1>3 DEF NextRoot, UsageTypes, Scans, tools, counts
<1>4. CASE ScanEnds
  <2>1. /\ UNCHANGED <<tools, logFiles>> /\ scan' = [scan EXCEPT !.on = FALSE, !.root = 0]
        /\ days' = [d \in Day |-> IF d < scan.since THEN [r \in Req |-> 0] ELSE days[d]]
        /\ bookedOn' = [r \in Req |-> IF bookedOn[r] < scan.since THEN 0 ELSE bookedOn[r]]
    BY <1>4 DEF ScanEnds
  <2>2. scan' \in Scans
    BY <2>1 DEF UsageTypes, Scans
  <2>3. days' \in Counts
    BY <2>1 DEF UsageTypes, Counts
  <2>4. bookedOn' \in [Req -> 0 .. MaxDay]
    BY <2>1 DEF UsageTypes, UsageAssumption
  <2> QED BY <2>1, <2>2, <2>3, <2>4 DEF UsageTypes, tools
<1>5. ASSUME NEW f \in LogFile, Visit(f) PROVE UsageTypes'
  BY <1>5, VisitBooks DEF UsageTypes, tools
<1>6. CASE Midnight
  <2>1. UNCHANGED counts /\ codex' = codex /\ scan' \in Scans
    BY <1>6 DEF Midnight, Stir, UsageTypes, Scans
  <2> QED BY <1>6, <2>1 DEF Midnight, UsageTypes, Day, UsageAssumption, counts
<1> QED BY <1>1, <1>2, <1>3, <1>4, <1>5, <1>6, StepIs

(* prev is the request read last, for a rollout only.                      *)
LEMMA PrevAfter ==
    ASSUME UsageAssumption, NEW s \in Fold, NEW l \in Lines, NEW since
    PROVE  lineOf(s, l, since).prev = IF codex THEN l.req ELSE s.prev
<1>1. l.day \in Day /\ l.req \in Req /\ l.req \in 0 .. MaxAsked
  BY DEF Lines, UsageAssumption, Day, Req
<1> DEFINE moved == [s EXCEPT !.prev = l.req]
<1>2. moved \in Fold /\ moved.prev = l.req
  BY <1>1 DEF Fold
<1> HIDE DEF moved
<1>3. codexLine(s, l, since) = (IF s.prev # l.req /\ l.day >= since THEN Booked(moved, l) ELSE moved)
  BY DEF codexLine, moved
<1>4. codexLine(s, l, since).prev = l.req
  <2>1. Booked(moved, l).prev = l.req
    BY <1>2, BookedIs
  <2> QED BY <1>2, <1>3, <2>1
<1>5. claudeLine(s, l, since).prev = s.prev
  <2>1. [Booked(s, l) EXCEPT !.seen[l.req] = l.day].prev = Booked(s, l).prev
    BY BookedIs DEF Fold
  <2> QED BY <2>1, BookedIs DEF claudeLine
<1> QED BY <1>4, <1>5 DEF lineOf

(* So a read leaves prev among the requests of its lines, or as it was.   *)
LEMMA ReadPrev ==
    ASSUME UsageAssumption, codex \in BOOLEAN, NEW s \in Fold, NEW lines \in Seq(Lines), NEW off \in 0 .. Len(lines),
           NEW since, NEW most \in Nat, s.prev <= most, \A i \in 1 .. Len(lines) : lines[i].req <= most
    PROVE  read(s, lines, off, since).prev <= most
<1>0. Len(lines) \in Nat /\ off \in Nat /\ off <= Len(lines)
  OBVIOUS
<1>a. PICK at : Chain(at, s, lines, off, since) /\ read(s, lines, off, since) = at[Len(lines)]
  BY ReadSteps
<1>1. /\ at[off] = s
      /\ \A i \in (off + 1) .. Len(lines) : at[i] = lineOf(at[i - 1], lines[i], since)
      /\ read(s, lines, off, since) = at[Len(lines)]
  BY <1>a DEF Chain
<1>2. \A i \in off .. Len(lines) : at[i] \in Fold
  BY <1>1, ReadGrows, Zenon
<1> DEFINE S == {i \in off .. Len(lines) : at[i].prev <= most}
<1>3. off \in S
  BY <1>0, <1>1
<1>4. ASSUME NEW i \in (off + 1) .. Len(lines), i - 1 \in S PROVE i \in S
  <2>1. i - 1 \in off .. Len(lines) /\ i \in 1 .. Len(lines) /\ i \in off .. Len(lines)
    BY <1>0
  <2>2. at[i - 1] \in Fold /\ at[i - 1].prev <= most /\ lines[i] \in Lines
    BY <1>2, <1>4, <2>1
  <2>3. lineOf(at[i - 1], lines[i], since).prev = (IF codex THEN lines[i].req ELSE at[i - 1].prev)
    BY <2>2, PrevAfter
  <2>4. at[i].prev <= most
    BY <1>1, <2>1, <2>2, <2>3
  <2> QED BY <2>1, <2>4
<1> HIDE DEF S
<1>5. \A i \in off .. Len(lines) : i \in S
  BY <1>0, <1>3, <1>4, StepByStep
<1>6. Len(lines) \in off .. Len(lines)
  BY <1>0
<1> QED BY <1>1, <1>5, <1>6 DEF S

(* Nothing is written before its day.                                      *)
LEMMA KnownKept ==
    ASSUME UsageAssumption, UsageTypes, LinesKnown, codex => PrevTells, UsageNext
    PROVE  LinesKnown'
<1>0. UsageTypes'
  BY TypesKept
<1>a. day \in Nat /\ Week \in Nat /\ requests \in Nat /\ scan.since \in Nat /\ usageSince \in Nat
      /\ \A f \in LogFile : touched[f] \in Nat
  BY DEF UsageTypes, Day, UsageAssumption, Scans, usageSince
<1>b. \A f \in LogFile : \A m \in Whole(f) \cup Being(f) : m.req \in Nat /\ m.day \in Nat
  BY LinesAre
<1>c. \A k \in Keys : logFiles[k].prev \in Nat
  BY DEF UsageTypes, LogRecord, UsageAssumption
<1>1. ASSUME NEW f \in LogFile, NEW g \in LogFile, ToolStep(f, g) PROVE LinesKnown'
  <2>1. logFiles' = logFiles /\ scan'.since = scan.since
    BY <1>1, ToolsLeave DEF counts
  <2>2. CASE Midnight
    <3>1. day' = day + 1 /\ UNCHANGED <<log, partial, place, touched, requests>>
      BY <2>2 DEF Midnight
    <3>2. usageSince <= usageSince'
      BY <3>1, <1>a DEF usageSince, UsageAssumption
    <3>3. usageSince' \in Nat
      BY <3>1, <1>a DEF usageSince
    <3> QED BY <3>1, <3>2, <3>3, <2>1, <1>a DEF LinesKnown, Whole, Being
  <2>3. ASSUME NEW l \in Lines, Writes(f, l), l.req <= requests', requests <= requests', requests' \in Nat, l.day <= day
        PROVE  LinesKnown'
    <3>1. /\ partial[f] = <<>> /\ UNCHANGED <<day, log, logMoves, cut>>
          /\ \A h \in LogFile : partial'[h] = IF h = f THEN <<l>> ELSE partial[h]
      BY <2>3, WriteDoes, Zenon
    <3>b. /\ \A h \in LogFile : Being(h)' = IF h = f THEN {l} ELSE Being(h)
          /\ \A h \in LogFile : Whole(h)' = Whole(h)
      BY <2>3, WriteDoes, Zenon
    <3>t. /\ \A h \in LogFile : touched'[h] = IF h = f THEN day ELSE touched[h]
          /\ \A h \in LogFile : place'[h] = IF h = f /\ place[h] = 0 THEN 1 ELSE place[h]
      BY <2>3, WriteDoes, Zenon
    <3>d. day' = day /\ log' = log
      BY <3>1
    <3>2. \A h \in LogFile : \A m \in Whole(h)' \cup Being(h)' : m.req <= requests' /\ m.day <= touched'[h]
      <4> SUFFICES ASSUME NEW h \in LogFile, NEW m \in Whole(h)' \cup Being(h)'
                   PROVE  m.req <= requests' /\ m.day <= touched'[h]
        OBVIOUS
      <4>1. CASE m \in Whole(h) \cup Being(h)
        <5>1. m.req <= requests /\ m.day <= touched[h] /\ touched[h] <= day
          BY <4>1 DEF LinesKnown
        <5>2. touched[h] <= touched'[h]
          BY <3>t, <5>1, <1>a
        <5>3. m.req \in Nat /\ m.day \in Nat
          BY <4>1, <1>b
        <5>4. touched'[h] \in Nat /\ touched[h] \in Nat
          BY <3>t, <1>a
        <5> QED BY <5>1, <5>2, <5>3, <5>4, <2>3, <1>a
      <4>2. CASE m \notin Whole(h) \cup Being(h)
        <5>1. m = l /\ h = f
          BY <3>b, <4>2
        <5> QED BY <5>1, <3>t, <2>3
      <4> QED BY <4>1, <4>2
    <3>3. \A h \in LogFile : touched'[h] <= day' /\ Len(partial'[h]) <= 1
      <4>1. Len(<<l>>) = 1
        OBVIOUS
      <4>2. \A h \in LogFile : touched[h] <= day /\ Len(partial[h]) <= 1
        BY DEF LinesKnown
      <4>3. \A h \in LogFile : touched'[h] <= day'
        BY <3>t, <3>d, <4>2, <1>a
      <4>4. \A h \in LogFile : Len(partial'[h]) <= 1
        <5> SUFFICES ASSUME NEW h \in LogFile PROVE Len(partial'[h]) <= 1
          OBVIOUS
        <5>1. CASE h = f
          <6>1. partial'[h] = <<l>>
            BY <3>1, <5>1
          <6> QED BY <6>1, <4>1
        <5>2. CASE h # f
          <6>1. partial'[h] = partial[h]
            BY <3>1, <5>2
          <6> QED BY <6>1, <4>2
        <5> QED BY <5>1, <5>2
      <4> QED BY <4>3, <4>4
    <3>4. \A h \in LogFile : place'[h] = 0 => log'[h] = <<>> /\ partial'[h] = <<>>
      <4>1. \A h \in LogFile : place'[h] = 0 => h # f /\ place[h] = 0
        BY <3>t
      <4>2. \A h \in LogFile : h # f => partial'[h] = partial[h]
        BY <3>1
      <4> QED BY <4>1, <4>2, <3>d DEF LinesKnown
    <3>5. \A k \in Keys : logFiles'[k].prev <= requests'
      BY <2>1, <2>3, <1>a, <1>c DEF LinesKnown
    <3>6. scan'.since <= usageSince'
      BY <2>1, <3>d DEF LinesKnown, usageSince
    <3> QED BY <3>2, <3>3, <3>4, <3>5, <3>6 DEF LinesKnown
  <2>4. CASE NewRequest(f)
    <3>1. /\ Writes(f, Line(requests + 1, day)) /\ requests' = requests + 1 /\ Line(requests + 1, day) \in Lines
      BY <2>4, RequestIs
    <3>2. Line(requests + 1, day).req = requests + 1 /\ Line(requests + 1, day).day = day
      BY DEF Line
    <3>3. requests + 1 <= requests' /\ requests <= requests' /\ requests' \in Nat /\ day <= day
      BY <3>1, <1>a
    <3> QED BY <3>1, <3>2, <3>3, <2>3
  <2>5. CASE SameRequest(f)
    <3>1. requests' = requests /\ log[f] # <<>>
      BY <2>5, RequestIs
    <3>2. PICK l \in Lines : Writes(f, l) /\ l.req = log[f][Len(log[f])].req /\ l.day <= day
      BY <2>5, RequestIs
    <3>3. log[f][Len(log[f])] \in Whole(f)
      <4>1. Len(log[f]) \in 1 .. Len(log[f])
        BY <3>1, LinesAre
      <4> QED BY <4>1, LinesAre
    <3>4. l.req <= requests' /\ requests <= requests' /\ requests' \in Nat
      BY <3>1, <3>2, <3>3, <1>a DEF LinesKnown
    <3> QED BY <3>2, <3>4, <2>3
  <2>6. CASE LineEnds(f)
    <3>0. Len(partial[f]) <= 1
      BY DEF LinesKnown
    <3>1. /\ UNCHANGED <<day, place, requests, logMoves, cut>>
          /\ \A h \in LogFile : h # f => log'[h] = log[h] /\ partial'[h] = partial[h] /\ touched'[h] = touched[h]
          /\ \A h \in LogFile : h # f => Whole(h)' = Whole(h) /\ Being(h)' = Being(h)
          /\ touched'[f] = day /\ partial'[f] = <<>> /\ Being(f)' = {} /\ Whole(f)' = Whole(f) \cup Being(f)
          /\ partial[f] # <<>>
      BY <2>6, <3>0, EndDoes
    <3>2. \A h \in LogFile : Whole(h)' \cup Being(h)' = Whole(h) \cup Being(h)
      BY <3>1
    <3>3. \A h \in LogFile : touched[h] <= touched'[h] /\ touched'[h] <= day' /\ touched'[h] \in Nat
      BY <3>1, <1>a DEF LinesKnown
    <3>4. \A h \in LogFile : \A m \in Whole(h)' \cup Being(h)' : m.req <= requests' /\ m.day <= touched'[h]
      <4> SUFFICES ASSUME NEW h \in LogFile, NEW m \in Whole(h) \cup Being(h)
                   PROVE  m.req <= requests' /\ m.day <= touched'[h]
        BY <3>2
      <4>1. m.req <= requests /\ m.day <= touched[h]
        BY DEF LinesKnown
      <4> QED BY <4>1, <3>1, <3>3, <1>a, <1>b
    <3>5. \A h \in LogFile : Len(partial'[h]) <= 1
      <4>1. Len(<<>>) <= 1
        OBVIOUS
      <4>2. \A h \in LogFile : partial'[h] = <<>> \/ partial'[h] = partial[h]
        BY <3>1
      <4> QED BY <4>1, <4>2 DEF LinesKnown
    <3>6. \A h \in LogFile : place'[h] = 0 => log'[h] = <<>> /\ partial'[h] = <<>>
      <4>1. \A h \in LogFile : place'[h] = 0 => h # f
        BY <3>1 DEF LinesKnown
      <4> QED BY <4>1, <3>1 DEF LinesKnown
    <3>7. \A k \in Keys : logFiles'[k].prev <= requests'
      BY <2>1, <3>1 DEF LinesKnown
    <3>8. scan'.since <= usageSince'
      BY <2>1, <3>1 DEF LinesKnown, usageSince
    <3> QED BY <3>3, <3>4, <3>5, <3>6, <3>7, <3>8 DEF LinesKnown
  <2>7. CASE MoveFile(f)
    <3>1. /\ place' = [place EXCEPT ![f] = 3 - @] /\ place[f] # 0
          /\ UNCHANGED <<day, log, partial, touched, requests, cut>>
      BY <2>7 DEF MoveFile
    <3>2. \A h \in LogFile : place'[h] = 0 => place[h] = 0
      <4>1. place[f] = 1 \/ place[f] = 2
        BY <3>1 DEF UsageTypes
      <4>2. place'[f] # 0
        BY <3>1, <4>1 DEF UsageTypes
      <4> QED BY <3>1, <4>2 DEF UsageTypes
    <3> QED BY <2>1, <3>1, <3>2 DEF LinesKnown, Whole, Being, usageSince
  <2>8. CASE CutShort(f)
    <3>1. /\ UNCHANGED <<day, place, requests>>
          /\ \A h \in LogFile : h # f => log'[h] = log[h] /\ partial'[h] = partial[h] /\ touched'[h] = touched[h]
          /\ \A h \in LogFile : h # f => Whole(h)' = Whole(h) /\ Being(h)' = Being(h)
          /\ touched'[f] = day /\ partial'[f] = <<>> /\ log'[f] = <<>> /\ Being(f)' = {} /\ Whole(f)' = {}
      BY <2>8, CutDoes
    <3>2. \A h \in LogFile : touched'[h] <= day'
      BY <3>1, <1>a DEF LinesKnown
    <3>3. \A h \in LogFile : \A m \in Whole(h)' \cup Being(h)' : m.req <= requests' /\ m.day <= touched'[h]
      <4> SUFFICES ASSUME NEW h \in LogFile, h # f, NEW m \in Whole(h) \cup Being(h)
                   PROVE  m.req <= requests' /\ m.day <= touched'[h]
        BY <3>1
      <4> QED BY <3>1 DEF LinesKnown
    <3>4. \A h \in LogFile : Len(partial'[h]) <= 1
      <4>1. Len(<<>>) <= 1
        OBVIOUS
      <4>2. \A h \in LogFile : partial'[h] = <<>> \/ partial'[h] = partial[h]
        BY <3>1
      <4> QED BY <4>1, <4>2 DEF LinesKnown
    <3>5. \A h \in LogFile : place'[h] = 0 => log'[h] = <<>> /\ partial'[h] = <<>>
      BY <3>1 DEF LinesKnown
    <3>6. \A k \in Keys : logFiles'[k].prev <= requests'
      BY <2>1, <3>1 DEF LinesKnown
    <3>7. scan'.since <= usageSince'
      BY <2>1, <3>1 DEF LinesKnown, usageSince
    <3> QED BY <3>2, <3>3, <3>4, <3>5, <3>6, <3>7 DEF LinesKnown
  <2>9. CASE Resume(f, g)
    <3>1. /\ UNCHANGED <<day, partial, requests, cut>> /\ place[g] = 0
          /\ \A h \in LogFile : log'[h] = log[IF h = g THEN f ELSE h]
          /\ \A h \in LogFile : Whole(h)' = Whole(IF h = g THEN f ELSE h) /\ Being(h)' = Being(h)
          /\ \A h \in LogFile : touched'[h] = IF h = g THEN day ELSE touched[h]
          /\ \A h \in LogFile : place'[h] = IF h = g THEN 1 ELSE place[h]
      BY <2>9, ResumeDoes
    <3>2. \A h \in LogFile : touched'[h] <= day' /\ touched'[h] \in Nat
      BY <3>1, <1>a DEF LinesKnown
    <3>3. Being(g) = {}
      BY <3>1, LinesAre DEF LinesKnown
    <3>4. \A h \in LogFile : \A m \in Whole(h)' \cup Being(h)' : m.req <= requests' /\ m.day <= touched'[h]
      <4> SUFFICES ASSUME NEW h \in LogFile, NEW m \in Whole(h)' \cup Being(h)'
                   PROVE  m.req <= requests' /\ m.day <= touched'[h]
        OBVIOUS
      <4>1. CASE h = g
        <5>1. m \in Whole(f)
          BY <3>1, <3>3, <4>1
        <5>2. m.req <= requests /\ m.day <= touched[f] /\ touched[f] <= day
          BY <5>1 DEF LinesKnown
        <5>3. m.day \in Nat /\ touched[f] \in Nat
          BY <5>1, <1>a, <1>b
        <5>4. touched'[h] = day /\ requests' = requests
          BY <3>1, <4>1
        <5> QED BY <5>2, <5>3, <5>4, <1>a
      <4>2. CASE h # g
        BY <3>1, <4>2 DEF LinesKnown
      <4> QED BY <4>1, <4>2
    <3>5. \A h \in LogFile : Len(partial'[h]) <= 1
      BY <3>1 DEF LinesKnown
    <3>6. \A h \in LogFile : place'[h] = 0 => log'[h] = <<>> /\ partial'[h] = <<>>
      BY <3>1 DEF LinesKnown
    <3>7. \A k \in Keys : logFiles'[k].prev <= requests'
      BY <2>1, <3>1 DEF LinesKnown
    <3>8. scan'.since <= usageSince'
      BY <2>1, <3>1 DEF LinesKnown, usageSince
    <3> QED BY <3>2, <3>4, <3>5, <3>6, <3>7, <3>8 DEF LinesKnown
  <2> QED BY <1>1, <2>2, <2>4, <2>5, <2>6, <2>7, <2>8, <2>9 DEF ToolStep
<1>2. ASSUME /\ UNCHANGED tools /\ \A k \in Keys : logFiles'[k].prev <= requests'
             /\ scan'.since = scan.since \/ scan'.since = usageSince
      PROVE  LinesKnown'
  <2>1. scan'.since <= usageSince'
    BY <1>2, <1>a DEF tools, LinesKnown, usageSince
  <2> QED BY <1>2, <2>1 DEF LinesKnown, Whole, Being, tools
<1>3. CASE handleAgentUsage
  BY <1>2, <1>3 DEF handleAgentUsage, LinesKnown, counts, tools
<1>4. CASE NextRoot
  <2>1. UNCHANGED <<tools, counts>> /\ scan'.since = scan.since
    BY <1>4 DEF NextRoot, UsageTypes, Scans
  <2> QED BY <1>2, <2>1 DEF LinesKnown, counts, tools
<1>5. CASE ScanEnds
  <2>1. UNCHANGED <<tools, logFiles>> /\ scan'.since = scan.since
    BY <1>5 DEF ScanEnds, UsageTypes, Scans
  <2> QED BY <1>2, <2>1 DEF LinesKnown, tools
<1>6. ASSUME NEW f \in LogFile, Visit(f) PROVE LinesKnown'
  <2> DEFINE k == Key(f, scan.root)
  <2>1. /\ \A q \in Keys : q # k => logFiles'[q] = logFiles[q]
        /\ UNCHANGED tools /\ scan'.since = scan.since
    BY <1>6, VisitBooks DEF UsageTypes, Scans
  <2>2. k \in Keys /\ From(f) \in LogRecord /\ (From(f).prev = logFiles[k].prev \/ From(f).prev = 0)
    BY FromIs
  <2>3. From(f).prev <= requests
    BY <2>2, <1>a DEF LinesKnown
  <2> HIDE DEF k
  <2>4. logFiles'[k].prev <= requests
    <3>1. CASE PassedBy(f)
      BY <1>6, <3>1, <2>2 DEF Visit, LinesKnown, counts
    <3>2. CASE ~PassedBy(f) /\ From(f).off <= Len(log[f])
      <4>1. logFiles'[k].prev = Got(f).prev
        BY <1>6, <2>2, <3>2 DEF Visit, UsageTypes, k
      <4>2. log[f] \in Seq(Lines) /\ Len(log[f]) \in Nat /\ \A i \in 1 .. Len(log[f]) : log[f][i].req <= requests
        BY LinesAre DEF LinesKnown
      <4>3. From(f).off \in 0 .. Len(log[f])
        BY <2>2, <3>2, <4>2 DEF LogRecord
      <4>4. codex \in BOOLEAN /\ requests \in Nat
        BY DEF UsageTypes
      <4> DEFINE lines == log[f]
                 off == From(f).off
                 since == scan.since
                 s == [days |-> days, seen |-> bookedOn, prev |-> From(f).prev]
                 most == requests
      <4>5. s.prev <= most /\ s \in Fold
        BY <2>2, <2>3 DEF Fold, UsageTypes, LogRecord
      <4>6. Got(f) = read(s, lines, off, since)
        BY DEF Got
      <4> HIDE DEF s, lines, off, since, most
      <4>7. /\ lines \in Seq(Lines) /\ off \in 0 .. Len(lines) /\ most \in Nat
            /\ \A i \in 1 .. Len(lines) : lines[i].req <= most
        BY <4>2, <4>3, <4>4 DEF lines, off, most
      <4>8. read(s, lines, off, since).prev <= most
        BY <4>4, <4>5, <4>7, ReadPrev
      <4> QED BY <4>1, <4>6, <4>8 DEF most
    <3>3. CASE ~PassedBy(f) /\ ~(From(f).off <= Len(log[f]))
      <4>1. logFiles'[k] = From(f)
        BY <1>6, <2>2, <3>3 DEF Visit, UsageTypes, k
      <4> QED BY <4>1, <2>3
    <3> QED BY <3>1, <3>2, <3>3
  <2>5. \A q \in Keys : logFiles'[q].prev <= requests'
    BY <2>1, <2>4 DEF LinesKnown, tools
  <2> QED BY <1>2, <2>1, <2>5
<1>7. CASE Midnight
  <2>1. ToolStep(1, 1)
    BY <1>7 DEF ToolStep
  <2>2. logFiles' = logFiles /\ scan'.since = scan.since
    BY <2>1, ToolsLeave DEF counts
  <2>3. day' = day + 1 /\ UNCHANGED <<log, partial, place, touched, requests>>
    BY <1>7 DEF Midnight
  <2>4. usageSince <= usageSince' /\ usageSince' \in Nat
    BY <2>3, <1>a DEF usageSince, UsageAssumption
  <2> QED BY <2>2, <2>3, <2>4, <1>a DEF LinesKnown, Whole, Being
<1> QED BY <1>1, <1>3, <1>4, <1>5, <1>6, <1>7, StepIs

(* A line stays the oldest when no older one is written or booked.         *)
LEMMA OldestStays ==
    ASSUME NEW lines, NEW more, NEW c, NEW e, NEW l, Oldest(l, lines, c),
           \A g \in LogFile : \A m \in Range(more[g]) : m.req = l.req =>
              (\E h \in LogFile : m \in Range(lines[h])) \/ l.day <= m.day,
           \A d \in Day : e[d][l.req] > 0 => c[d][l.req] > 0 \/ l.day <= d
    PROVE  Oldest(l, more, e)
BY DEF Oldest

(* The lines are kept or dropped, and what is new in the counts is a line's. *)
LinesKeep(lines, more, c, e) ==
    /\ \A f \in LogFile : lines[f] \in Seq(Lines) /\ \E h \in LogFile : more[f] = lines[h] \/ more[f] = <<>>
    /\ \A f \in LogFile : \A l \in Range(lines[f]) : \A d \in Day :
          e[d][l.req] > 0 => c[d][l.req] > 0 \/ \E h \in LogFile : \E m \in Range(lines[h]) : m.req = l.req /\ m.day = d

LEMMA OldestKept ==
    ASSUME NEW lines, NEW more, NEW c, NEW e, BeginOldest(lines, c), LinesKeep(lines, more, c, e)
    PROVE  BeginOldest(more, e)
<1> USE DEF LinesKeep
<1>1. ASSUME NEW f \in LogFile, NEW i \in 1 .. Len(more[f])
      PROVE  \E j \in 1 .. i : more[f][j].req = more[f][i].req /\ Oldest(more[f][j], more, e)
  <2>1. more[f] # <<>>
    <3>1. Len(<<>>) = 0
      OBVIOUS
    <3>2. 1 .. 0 = {}
      OBVIOUS
    <3> QED BY <1>1, <3>1, <3>2
  <2>2. PICK h \in LogFile : more[f] = lines[h]
    BY <2>1
  <2>3. PICK j \in 1 .. i : lines[h][j].req = lines[h][i].req /\ Oldest(lines[h][j], lines, c)
    BY <1>1, <2>2 DEF BeginOldest
  <2> DEFINE l == lines[h][j]
  <2>4. l \in Range(lines[h])
    <3>1. lines[h] \in Seq(Lines) /\ i \in 1 .. Len(lines[h])
      BY <1>1, <2>2
    <3>2. j \in 1 .. Len(lines[h]) /\ DOMAIN lines[h] = 1 .. Len(lines[h])
      BY <3>1
    <3> QED BY <3>2 DEF Range
  <2> HIDE DEF l
  <2>5. Oldest(l, lines, c)
    BY <2>3 DEF l
  <2>6. \A g \in LogFile : \A m \in Range(more[g]) : \E k \in LogFile : m \in Range(lines[k])
    <3>1. Range(<<>>) = {}
      BY DEF Range
    <3> QED BY <3>1
  <2>7. \A d \in Day : e[d][l.req] > 0 => c[d][l.req] > 0 \/ l.day <= d
    BY <2>4, <2>5 DEF Oldest
  <2>8. Oldest(l, more, e)
    BY <2>5, <2>6, <2>7, OldestStays
  <2> QED BY <2>2, <2>3, <2>8 DEF l
<1> QED BY <1>1 DEF BeginOldest

(* A request's first line in a log is its oldest.                          *)
LEMMA FirstKept ==
    ASSUME UsageAssumption, UsageTypes, LinesKnown, FirstIsOldest, UsageNext
    PROVE  FirstIsOldest'
<1>0. UsageTypes'
  BY TypesKept
<1>a. day \in Nat /\ requests \in Nat /\ \A f \in LogFile : log[f] \in Seq(Lines) /\ log'[f] \in Seq(Lines)
  BY <1>0 DEF UsageTypes, Day
<1>b. \A f \in LogFile : \A m \in Whole(f) \cup Being(f) : m.req \in Req /\ m.req \in Nat /\ m.day \in Nat /\ m.day \in Day
  BY LinesAre
<1>c. \A f \in LogFile : Whole(f) = Range(log[f]) /\ Whole(f)' = Range(log'[f])
  BY DEF Whole
<1>d. \A d \in Day, r \in Req : days[d][r] \in Nat /\ days'[d][r] \in Nat
  BY <1>0 DEF UsageTypes, Counts
<1>e. \A f \in LogFile : log[f] # <<>> => log[f][Len(log[f])] \in Whole(f) /\ Len(log[f]) \in 1 .. Len(log[f])
  <2> SUFFICES ASSUME NEW f \in LogFile, log[f] # <<>>
               PROVE  log[f][Len(log[f])] \in Whole(f) /\ Len(log[f]) \in 1 .. Len(log[f])
    OBVIOUS
  <2>1. Len(log[f]) \in 1 .. Len(log[f])
    BY LinesAre
  <2> QED BY <2>1, LinesAre
<1>1. ASSUME NEW f \in LogFile, NEW g \in LogFile, ToolStep(f, g) PROVE FirstIsOldest'
  <2>1. days' = days
    BY <1>1, ToolsLeave DEF counts
  <2>2. CASE Midnight \/ MoveFile(f)
    <3>1. UNCHANGED <<log, partial, requests>>
      BY <2>2 DEF Midnight, MoveFile
    <3> QED BY <2>1, <3>1 DEF FirstIsOldest, Being, Whole, Repeats, Begins
  <2>3. ASSUME NEW l \in Lines, Writes(f, l), requests <= requests', requests' \in Nat,
               Repeats(f, l) \/ (l.req > requests /\ l.req \in Req)
        PROVE  FirstIsOldest'
    <3>1. /\ \A h \in LogFile : Being(h)' = IF h = f THEN {l} ELSE Being(h)
          /\ \A h \in LogFile : Whole(h)' = Whole(h)
          /\ log' = log
      BY <2>3, WriteDoes, Zenon
    <3>2. \A r \in Req : r > requests' => ~IsBooked(days, r)
      BY <2>3, <1>a DEF FirstIsOldest, Req
    <3>3. ASSUME NEW h \in LogFile, NEW m \in Being(h)' PROVE Repeats(h, m)' \/ Begins(h, m)'
      <4>1. CASE h = f
        <5>1. m = l
          BY <3>1, <3>3, <4>1
        <5>2. CASE Repeats(f, l)
          BY <3>1, <4>1, <5>1, <5>2 DEF Repeats
        <5>3. CASE l.req > requests /\ l.req \in Req
          <6>1. \A k \in LogFile : \A x \in Whole(k) \cup Being(k) : x.req # l.req
            BY <5>3, <1>a, <1>b DEF LinesKnown
          <6>2. ~IsBooked(days, l.req)
            BY <5>3 DEF FirstIsOldest
          <6>3. \A k \in LogFile \ {f} : Being(k)' = Being(k)
            BY <3>1
          <6> QED BY <2>1, <3>1, <4>1, <5>1, <6>1, <6>2, <6>3 DEF Begins
        <5> QED BY <2>3, <5>2, <5>3
      <4>2. CASE h # f
        <5>1. m \in Being(h)
          BY <3>1, <3>3, <4>2
        <5>2. CASE Repeats(h, m)
          BY <3>1, <5>2 DEF Repeats
        <5>3. CASE Begins(h, m)
          <6>1. l.req # m.req
            <7>1. CASE Repeats(f, l)
              <8>1. log[f][Len(log[f])] \in Whole(f) /\ log[f][Len(log[f])].req = l.req
                BY <7>1, <1>e DEF Repeats
              <8> QED BY <8>1, <5>3 DEF Begins
            <7>2. CASE l.req > requests /\ l.req \in Req
              <8>1. m.req <= requests /\ m.req \in Nat
                BY <5>1, <1>b DEF LinesKnown
              <8> QED BY <7>2, <8>1, <1>a
            <7> QED BY <2>3, <7>1, <7>2
          <6>2. \A k \in LogFile \ {h} : \A x \in Being(k)' : x.req # m.req
            BY <3>1, <5>3, <6>1 DEF Begins
          <6> QED BY <2>1, <3>1, <5>3, <6>2 DEF Begins
        <5> QED BY <5>1, <5>2, <5>3 DEF FirstIsOldest
      <4> QED BY <4>1, <4>2
    <3>4. BeginOldest(log', days')
      BY <2>1, <3>1 DEF FirstIsOldest
    <3> QED BY <2>1, <3>2, <3>3, <3>4 DEF FirstIsOldest
  <2>4. CASE NewRequest(f)
    <3>1. /\ Writes(f, Line(requests + 1, day)) /\ requests' = requests + 1 /\ Line(requests + 1, day) \in Lines
      BY <2>4, RequestIs
    <3>2. Line(requests + 1, day).req = requests + 1
      BY DEF Line
    <3>3. requests <= requests' /\ requests' \in Nat /\ requests + 1 > requests /\ requests + 1 \in Req
      BY <3>1, <3>2, <1>a DEF Lines
    <3> QED BY <3>1, <3>2, <3>3, <2>3
  <2>5. CASE SameRequest(f)
    <3>1. requests' = requests /\ log[f] # <<>>
      BY <2>5, RequestIs
    <3>2. PICK l \in Lines : Writes(f, l) /\ l.req = log[f][Len(log[f])].req /\ log[f][Len(log[f])].day <= l.day
      BY <2>5, RequestIs
    <3>3. Repeats(f, l) /\ requests <= requests' /\ requests' \in Nat
      BY <3>1, <3>2, <1>a DEF Repeats
    <3> QED BY <3>2, <3>3, <2>3
  <2>6. CASE LineEnds(f)
    <3>0. Len(partial[f]) <= 1
      BY DEF LinesKnown
    <3>1. /\ requests' = requests
          /\ \A h \in LogFile : h # f => log'[h] = log[h]
          /\ \A h \in LogFile : h # f => Whole(h)' = Whole(h) /\ Being(h)' = Being(h)
      BY <2>6, <3>0, EndDoes
    <3>2. /\ Being(f)' = {} /\ Whole(f)' = Whole(f) \cup Being(f) /\ Being(f) = {partial[f][1]}
          /\ Len(log'[f]) = Len(log[f]) + 1 /\ log'[f][Len(log[f]) + 1] = partial[f][1]
          /\ \A i \in 1 .. Len(log[f]) : log'[f][i] = log[f][i]
      BY <2>6, <3>0, EndDoes
    <3>3. PICK l : l = partial[f][1]
      OBVIOUS
    <3>4. PICK n \in Nat : n = Len(log[f])
      <4>1. Len(log[f]) \in Nat
        BY LinesAre
      <4> QED BY <4>1
    <3>5. l \in Being(f) /\ l.req \in Req /\ l.day \in Nat
      BY <3>2, <3>3, <1>b
    <3>6. \A h \in LogFile : \A m \in Whole(h)' : m \in Whole(h) \/ m = l
      BY <3>1, <3>2, <3>3
    <3>7. Repeats(f, l) \/ Begins(f, l)
      BY <3>5 DEF FirstIsOldest
    <3>8. ASSUME NEW w, NEW h \in LogFile, w \in Whole(h), Oldest(w, log, days) PROVE Oldest(w, log', days')
      <4>1. w.req = l.req => w.day <= l.day
        <5>1. CASE Repeats(f, l)
          <6> DEFINE latest == log[f][Len(log[f])]
          <6>1. latest \in Whole(f) /\ latest.req = l.req /\ latest.day <= l.day
            BY <5>1, <1>e DEF Repeats
          <6> HIDE DEF latest
          <6>2. w.req = l.req => w.day <= latest.day
            BY <3>8, <6>1, <1>c DEF Oldest
          <6> QED BY <6>1, <6>2, <3>5, <3>8, <1>b
        <5>2. CASE Begins(f, l)
          BY <3>8, <5>2 DEF Begins
        <5> QED BY <3>7, <5>1, <5>2
      <4>2. \A k \in LogFile : \A m \in Range(log'[k]) : m.req = w.req =>
               (\E q \in LogFile : m \in Range(log[q])) \/ w.day <= m.day
        BY <3>6, <4>1, <1>c
      <4>3. \A d \in Day : days'[d][w.req] > 0 => days[d][w.req] > 0 \/ w.day <= d
        BY <2>1
      <4> QED BY <3>8, <4>2, <4>3, OldestStays
    <3>9. ASSUME NEW h \in LogFile, NEW i \in 1 .. Len(log[h])
          PROVE  \E j \in 1 .. i : log[h][j].req = log[h][i].req /\ Oldest(log[h][j], log', days')
      <4>1. PICK j \in 1 .. i : log[h][j].req = log[h][i].req /\ Oldest(log[h][j], log, days)
        BY DEF FirstIsOldest, BeginOldest
      <4>2. PICK w : w = log[h][j]
        OBVIOUS
      <4>3. j \in 1 .. Len(log[h])
        BY <1>a, <3>9
      <4>4. w \in Whole(h)
        BY <4>2, <4>3, LinesAre
      <4>5. Oldest(w, log', days')
        BY <4>1, <4>2, <4>4, <3>8
      <4> QED BY <4>1, <4>2, <4>5
    <3>10. ASSUME NEW h \in LogFile, NEW i \in 1 .. Len(log'[h])
           PROVE  \E j \in 1 .. i : log'[h][j].req = log'[h][i].req /\ Oldest(log'[h][j], log', days')
      <4>1. CASE h # f
        BY <3>1, <3>9, <3>10, <4>1
      <4>2. CASE h = f /\ i <= n
        <5>1. i \in 1 .. Len(log[f])
          BY <3>4, <4>2
        <5>2. PICK j \in 1 .. i : log[f][j].req = log[f][i].req /\ Oldest(log[f][j], log', days')
          BY <3>9, <5>1
        <5>3. j \in 1 .. Len(log[f])
          BY <5>1, <3>4
        <5>4. log'[f][i] = log[f][i] /\ log'[f][j] = log[f][j]
          BY <3>2, <5>1, <5>3
        <5> QED BY <4>2, <5>2, <5>4
      <4>3. CASE h = f /\ ~(i <= n)
        <5>1. i = n + 1 /\ log'[f][i] = l
          <6>1. Len(log'[f]) = n + 1
            BY <3>2, <3>4
          <6>2. i \in 1 .. (n + 1)
            BY <3>10, <4>3, <6>1
          <6> QED BY <6>2, <4>3, <3>2, <3>3, <3>4
        <5>2. CASE Repeats(f, l)
          <6>1. n \in 1 .. Len(log[f]) /\ log[f][n].req = l.req
            BY <5>2, <3>4, <1>e DEF Repeats
          <6>2. PICK j \in 1 .. n : log[f][j].req = log[f][n].req /\ Oldest(log[f][j], log', days')
            BY <3>9, <6>1
          <6>3. j \in 1 .. Len(log[f]) /\ j \in 1 .. i
            BY <3>4, <5>1
          <6>4. log'[f][j] = log[f][j]
            BY <3>2, <6>3
          <6> QED BY <4>3, <5>1, <6>1, <6>2, <6>3, <6>4
        <5>3. CASE Begins(f, l)
          <6>1. \A k \in LogFile : \A m \in Range(log'[k]) : m.req = l.req => l.day <= m.day
            <7>1. \A k \in LogFile : \A m \in Range(log'[k]) : m.req = l.req => m = l
              BY <5>3, <3>6, <1>c DEF Begins
            <7>2. l.day <= l.day
              BY <3>5
            <7> QED BY <7>1, <7>2
          <6>2. \A d \in Day : ~(days'[d][l.req] > 0)
            BY <2>1, <5>3 DEF Begins, IsBooked
          <6>3. Oldest(l, log', days')
            BY <6>1, <6>2 DEF Oldest
          <6>4. i \in 1 .. i
            BY <5>1, <3>4
          <6> QED BY <4>3, <5>1, <6>3, <6>4
        <5> QED BY <3>7, <5>2, <5>3
      <4> QED BY <4>1, <4>2, <4>3
    <3>11. BeginOldest(log', days')
      BY <3>10 DEF BeginOldest
    <3>12. ASSUME NEW h \in LogFile, NEW m \in Being(h)' PROVE Repeats(h, m)' \/ Begins(h, m)'
      <4>1. h # f /\ m \in Being(h) /\ log'[h] = log[h]
        BY <3>1, <3>2, <3>12
      <4>2. CASE Repeats(h, m)
        BY <4>1, <4>2 DEF Repeats
      <4>3. CASE Begins(h, m)
        <5>1. l.req # m.req
          BY <3>5, <4>1, <4>3 DEF Begins
        <5>2. \A k \in LogFile : \A x \in Whole(k)' : x.req # m.req
          BY <3>6, <5>1, <4>3 DEF Begins
        <5>3. \A k \in LogFile \ {h} : \A x \in Being(k)' : x.req # m.req
          BY <3>1, <3>2, <4>3 DEF Begins
        <5> QED BY <2>1, <4>3, <5>2, <5>3 DEF Begins
      <4> QED BY <4>1, <4>2, <4>3 DEF FirstIsOldest
    <3> QED BY <2>1, <3>1, <3>11, <3>12 DEF FirstIsOldest
  <2>7. ASSUME requests' = requests, \A h \in LogFile : \E k \in LogFile : log'[h] = log[k] \/ log'[h] = <<>>,
               \A h \in LogFile : Being(h)' = {} \/ (log'[h] = log[h] /\ Being(h)' = Being(h))
        PROVE  FirstIsOldest'
    <3>1. BeginOldest(log', days')
      <4>1. BeginOldest(log, days)
        BY DEF FirstIsOldest
      <4>2. \A k \in LogFile : \A l \in Range(log[k]) : \A d \in Day :
              days'[d][l.req] > 0 => days[d][l.req] > 0 \/ \E h \in LogFile : \E m \in Range(log[h]) : m.req = l.req /\ m.day = d
        BY <2>1
      <4>3. \A h \in LogFile : \E k \in LogFile : log'[h] = log[k] \/ log'[h] = <<>>
        BY <2>7
      <4>4. LinesKeep(log, log', days, days')
        BY <4>2, <4>3, <1>a DEF LinesKeep
      <4> QED BY <4>1, <4>4, OldestKept
    <3>2. \A h \in LogFile : \A m \in Whole(h)' : \E k \in LogFile : m \in Whole(k)
      <4>1. Range(<<>>) = {}
        BY DEF Range
      <4> QED BY <2>7, <4>1, <1>c
    <3>3. ASSUME NEW h \in LogFile, NEW m \in Being(h)' PROVE Repeats(h, m)' \/ Begins(h, m)'
      <4>1. m \in Being(h) /\ log'[h] = log[h]
        BY <2>7, <3>3
      <4>2. CASE Repeats(h, m)
        BY <4>1, <4>2 DEF Repeats
      <4>3. CASE Begins(h, m)
        BY <2>1, <2>7, <3>2, <4>3 DEF Begins
      <4> QED BY <4>1, <4>2, <4>3 DEF FirstIsOldest
    <3> QED BY <2>1, <2>7, <3>1, <3>3 DEF FirstIsOldest
  <2>8. CASE CutShort(f)
    <3>1. /\ requests' = requests /\ \A h \in LogFile : h # f => log'[h] = log[h] /\ Being(h)' = Being(h)
          /\ log'[f] = <<>> /\ Being(f)' = {}
      BY <2>8, CutDoes
    <3> QED BY <2>7, <3>1
  <2>9. CASE Resume(f, g)
    <3>1. /\ requests' = requests /\ place[g] = 0
          /\ \A h \in LogFile : log'[h] = log[IF h = g THEN f ELSE h]
          /\ \A h \in LogFile : Being(h)' = Being(h)
      BY <2>9, ResumeDoes
    <3>2. Being(g) = {}
      BY <3>1, LinesAre DEF LinesKnown
    <3> QED BY <2>7, <3>1, <3>2
  <2> QED BY <1>1, <2>2, <2>4, <2>5, <2>6, <2>8, <2>9 DEF ToolStep
<1>2. ASSUME UNCHANGED tools,
             \A d \in Day, r \in Req : days'[d][r] > 0 => days[d][r] > 0 \/ \E h \in LogFile : \E m \in Whole(h) : m.req = r /\ m.day = d
      PROVE  FirstIsOldest'
  <2>1. UNCHANGED <<log, partial, requests>>
    BY <1>2 DEF tools
  <2>2. BeginOldest(log', days')
    <3>1. BeginOldest(log, days)
      BY DEF FirstIsOldest
    <3>2. \A k \in LogFile : \A l \in Range(log[k]) : \A d \in Day :
              days'[d][l.req] > 0 => days[d][l.req] > 0 \/ \E h \in LogFile : \E m \in Range(log[h]) : m.req = l.req /\ m.day = d
      BY <1>2, <1>b, <1>c
    <3>3. \A h \in LogFile : \E k \in LogFile : log'[h] = log[k] \/ log'[h] = <<>>
      BY <2>1
    <3>4. LinesKeep(log, log', days, days')
      BY <3>2, <3>3, <1>a DEF LinesKeep
    <3> QED BY <3>1, <3>4, OldestKept
  <2>3. \A r \in Req : (\A h \in LogFile : \A m \in Whole(h) : m.req # r) /\ ~IsBooked(days, r) => ~IsBooked(days', r)
    BY <1>2 DEF IsBooked
  <2>4. \A h \in LogFile : \A m \in Being(h) : Repeats(h, m)' \/ Begins(h, m)'
    <3> SUFFICES ASSUME NEW h \in LogFile, NEW m \in Being(h) PROVE Repeats(h, m)' \/ Begins(h, m)'
      OBVIOUS
    <3>1. CASE Repeats(h, m)
      BY <2>1, <3>1 DEF Repeats
    <3>2. CASE Begins(h, m)
      <4>1. m.req \in Req
        BY <1>b
      <4> QED BY <2>1, <2>3, <3>2, <4>1 DEF Begins, Whole, Being
    <3> QED BY <3>1, <3>2 DEF FirstIsOldest
  <2>5. \A r \in Req : r > requests => ~IsBooked(days', r)
    <3>1. \A r \in Req : r > requests => \A h \in LogFile : \A m \in Whole(h) : m.req # r
      BY <1>a, <1>b DEF LinesKnown, Req
    <3> QED BY <2>3, <3>1 DEF FirstIsOldest
  <2> QED BY <2>1, <2>2, <2>4, <2>5 DEF FirstIsOldest, Being
<1>3. CASE handleAgentUsage \/ NextRoot
  <2>1. UNCHANGED <<tools, counts>>
    BY <1>3 DEF handleAgentUsage, NextRoot
  <2> QED BY <1>2, <2>1 DEF counts
<1>4. CASE ScanEnds
  <2>1. UNCHANGED tools /\ days' = [d \in Day |-> IF d < scan.since THEN [r \in Req |-> 0] ELSE days[d]]
    BY <1>4 DEF ScanEnds
  <2>2. \A d \in Day, r \in Req : days'[d][r] > 0 => days[d][r] > 0
    BY <2>1
  <2> QED BY <1>2, <2>1, <2>2
<1>5. ASSUME NEW f \in LogFile, Visit(f) PROVE FirstIsOldest'
  <2>1. /\ \A d \in Day, r \in Req : days[d][r] # days'[d][r] => \E m \in Whole(f) : m.day = d /\ m.req = r
        /\ UNCHANGED tools
    BY <1>5, VisitBooks
  <2> QED BY <1>2, <2>1
<1>6. CASE Midnight
  <2>1. days' = days /\ UNCHANGED <<log, partial, requests>>
    BY <1>6 DEF Midnight, counts
  <2> QED BY <2>1 DEF FirstIsOldest, Being, Whole, Repeats, Begins
<1> QED BY <1>1, <1>3, <1>4, <1>5, <1>6, StepIs

(* A rollout keeps its requests for itself.                                *)
LEMMA OwnedKept ==
    ASSUME UsageAssumption, UsageTypes, LinesKnown, codex, Owned, UsageNext
    PROVE  Owned'
<1>0. UsageTypes'
  BY TypesKept
<1>a. requests \in Nat /\ \A f \in LogFile : Len(log[f]) \in Nat
  BY LinesAre DEF UsageTypes
<1>b. \A f \in LogFile : \A m \in Whole(f) \cup Being(f) : m.req \in Nat /\ m.req <= requests
  BY LinesAre DEF LinesKnown
<1>1. ASSUME UNCHANGED tools PROVE Owned'
  BY <1>1 DEF Owned, tools, Whole, Being
<1>2. CASE handleAgentUsage \/ NextRoot \/ ScanEnds
  BY <1>1, <1>2 DEF handleAgentUsage, NextRoot, ScanEnds
<1>3. ASSUME NEW f \in LogFile, Visit(f) PROVE Owned'
  BY <1>1, <1>3 DEF Visit
<1>4. ASSUME UNCHANGED <<log, partial>> PROVE Owned'
  BY <1>4 DEF Owned, Whole, Being
<1>5. CASE Midnight
  BY <1>4, <1>5 DEF Midnight
<1>6. ASSUME NEW f \in LogFile, NEW g \in LogFile, ToolStep(f, g) PROVE Owned'
  <2>1. CASE Midnight \/ MoveFile(f)
    BY <1>4, <2>1 DEF Midnight, MoveFile
  <2>2. ASSUME NEW l \in Lines, Writes(f, l), (log[f] # <<>> /\ l = log[f][Len(log[f])]) \/ l.req = requests + 1
        PROVE  Owned'
    <3>1. /\ \A h \in LogFile : Being(h)' = IF h = f THEN {l} ELSE Being(h)
          /\ \A h \in LogFile : Whole(h)' = Whole(h)
          /\ log' = log
      BY <2>2, WriteDoes, Zenon
    <3>2. CASE log[f] # <<>> /\ l = log[f][Len(log[f])]
      <4>1. l \in Whole(f) /\ Len(log[f]) \in 1 .. Len(log[f])
        <5>1. Len(log[f]) \in 1 .. Len(log[f])
          BY <3>2, LinesAre
        <5> QED BY <3>2, <5>1, LinesAre
      <4>2. \A h \in LogFile : Whole(h)' \cup Being(h)' \subseteq Whole(h) \cup Being(h)
        BY <3>1, <4>1
      <4>3. \A h \in LogFile : \A x \in Whole(h)', y \in Being(h)' : x.req <= y.req
        <5> SUFFICES ASSUME NEW x \in Whole(f) PROVE x.req <= l.req
          BY <3>1 DEF Owned
        <5>1. PICK i \in 1 .. Len(log[f]) : x = log[f][i]
          BY LinesAre
        <5>2. i <= Len(log[f])
          BY <1>a, <5>1
        <5> QED BY <3>2, <4>1, <5>1, <5>2 DEF Owned, Ordered
      <4>4. \A h, k \in LogFile : h # k => \A x \in Whole(h)' \cup Being(h)', y \in Whole(k)' \cup Being(k)' : x.req # y.req
        BY <4>2 DEF Owned
      <4> QED BY <3>1, <4>3, <4>4 DEF Owned
    <3>3. CASE l.req = requests + 1
      <4>1. \A h \in LogFile : \A x \in Whole(h) \cup Being(h) : x.req <= l.req /\ x.req # l.req
        BY <3>3, <1>a, <1>b
      <4>2. \A h, k \in LogFile : h # k => \A x \in Whole(h)' \cup Being(h)', y \in Whole(k)' \cup Being(k)' : x.req # y.req
        <5> SUFFICES ASSUME NEW h \in LogFile, NEW k \in LogFile, h # k,
                            NEW x \in Whole(h)' \cup Being(h)', NEW y \in Whole(k)' \cup Being(k)'
                     PROVE  x.req # y.req
          OBVIOUS
        <5>1. (x \in Whole(h) \cup Being(h) \/ (x = l /\ h = f)) /\ (y \in Whole(k) \cup Being(k) \/ (y = l /\ k = f))
          BY <3>1
        <5>2. CASE x \in Whole(h) \cup Being(h) /\ y \in Whole(k) \cup Being(k)
          BY <5>2 DEF Owned
        <5> QED BY <4>1, <5>1, <5>2
      <4>3. \A h \in LogFile : \A x \in Whole(h)', y \in Being(h)' : x.req <= y.req
        BY <3>1, <4>1 DEF Owned
      <4> QED BY <3>1, <4>2, <4>3 DEF Owned
    <3> QED BY <2>2, <3>2, <3>3
  <2>3. CASE NewRequest(f)
    <3>1. Writes(f, Line(requests + 1, day)) /\ Line(requests + 1, day) \in Lines
      BY <2>3, RequestIs
    <3>2. Line(requests + 1, day).req = requests + 1
      BY DEF Line
    <3> QED BY <2>2, <3>1, <3>2
  <2>4. CASE SameRequest(f)
    <3>1. log[f] # <<>> /\ \E l \in Lines : Writes(f, l) /\ l = log[f][Len(log[f])]
      BY <2>4, RequestIs
    <3> QED BY <2>2, <3>1
  <2>5. CASE LineEnds(f)
    <3>0. Len(partial[f]) <= 1
      BY DEF LinesKnown
    <3>1. /\ \A h \in LogFile : h # f => log'[h] = log[h]
          /\ \A h \in LogFile : h # f => Whole(h)' = Whole(h) /\ Being(h)' = Being(h)
      BY <2>5, <3>0, EndDoes
    <3>2. /\ Being(f)' = {} /\ Whole(f)' = Whole(f) \cup Being(f) /\ Being(f) = {partial[f][1]}
          /\ Len(log'[f]) = Len(log[f]) + 1 /\ log'[f][Len(log[f]) + 1] = partial[f][1]
          /\ \A i \in 1 .. Len(log[f]) : log'[f][i] = log[f][i]
      BY <2>5, <3>0, EndDoes
    <3>3. \A h, k \in LogFile : h # k => \A x \in Whole(h)' \cup Being(h)', y \in Whole(k)' \cup Being(k)' : x.req # y.req
      <4>1. \A h \in LogFile : Whole(h)' \cup Being(h)' = Whole(h) \cup Being(h)
        BY <3>1, <3>2
      <4> QED BY <4>1 DEF Owned
    <3>4. \A h \in LogFile : \A x \in Whole(h)', y \in Being(h)' : x.req <= y.req
      BY <3>1, <3>2 DEF Owned
    <3>5. PICK n \in Nat : n = Len(log[f])
      BY <1>a
    <3>6. Ordered(log'[f])
      <4> SUFFICES ASSUME NEW i \in 1 .. (n + 1), NEW j \in 1 .. (n + 1), i <= j
                   PROVE  log'[f][i].req <= log'[f][j].req
        BY <3>2, <3>5 DEF Ordered
      <4>1. CASE j <= n
        <5>1. i \in 1 .. Len(log[f]) /\ j \in 1 .. Len(log[f])
          BY <3>5, <4>1
        <5> QED BY <3>2, <5>1 DEF Owned, Ordered
      <4>2. CASE j = n + 1 /\ i <= n
        <5>1. i \in 1 .. Len(log[f])
          BY <3>5, <4>2
        <5>2. log[f][i] \in Whole(f)
          BY <5>1, LinesAre
        <5> QED BY <3>2, <3>5, <4>2, <5>1, <5>2 DEF Owned
      <4>3. CASE j = n + 1 /\ i = n + 1
        <5>1. log'[f][j].req \in Nat
          BY <1>b, <3>2, <3>5, <4>3
        <5> QED BY <4>3, <5>1
      <4> QED BY <4>1, <4>2, <4>3
    <3>7. \A h \in LogFile : Ordered(log'[h])
      BY <3>1, <3>6 DEF Owned
    <3> QED BY <3>3, <3>4, <3>7 DEF Owned
  <2>6. CASE CutShort(f)
    <3>1. /\ \A h \in LogFile : h # f => log'[h] = log[h]
          /\ \A h \in LogFile : h # f => Whole(h)' = Whole(h) /\ Being(h)' = Being(h)
          /\ log'[f] = <<>> /\ Being(f)' = {} /\ Whole(f)' = {}
      BY <2>6, CutDoes
    <3>2. Ordered(<<>>)
      BY DEF Ordered
    <3> QED BY <3>1, <3>2 DEF Owned
  <2>7. CASE Resume(f, g)
    BY <2>7 DEF Resume
  <2> QED BY <1>6, <2>1, <2>3, <2>4, <2>5, <2>6, <2>7 DEF ToolStep
<1> QED BY <1>2, <1>3, <1>5, <1>6, StepIs

(* What prev tells is enough to read on.                                   *)
LEMMA RolloutAhead ==
    ASSUME UsageAssumption, UsageTypes, codex, PrevTells, NEW f \in LogFile, From(f).off <= Len(log[f])
    PROVE  Tells(days, From(f).prev, log[f], From(f).off)
<1> DEFINE k == <<f, 0>>
<1>1. k \in Keys /\ k = Key(f, scan.root)
  BY KeysAre DEF UsageTypes, Scans
<1>2. FileTells(log[f], partial[f], days, logFiles[k])
  BY DEF PrevTells
<1> HIDE DEF k
<1>3. PICK n \in Nat : n = Len(log[f])
  BY LinesAre
<1>4. From(f).off \in Nat
  BY FromIs DEF LogRecord
<1>5. CASE Size(f) < logFiles[k].off
  <2>1. From(f).off = Size(f) /\ Size(f) = Len(log[f]) + Len(partial[f]) /\ Len(partial[f]) \in Nat
    BY <1>1, <1>5, FromIs, LinesAre
  <2>2. PICK q \in Nat : q = Len(partial[f])
    BY <2>1
  <2>3. From(f).off = n + q
    BY <1>3, <2>1, <2>2
  <2>4. \A j \in (From(f).off + 1) .. n : FALSE
    BY <2>2, <2>3
  <2> QED BY <1>3, <2>4 DEF Tells
<1>6. CASE ~(Size(f) < logFiles[k].off)
  <2>1. From(f).off = logFiles[k].off /\ From(f).prev = logFiles[k].prev
    BY <1>1, <1>6, FromIs
  <2>2. \A j \in (From(f).off + 1) .. n : j \in 1 .. n /\ j > From(f).off
    BY <1>4
  <2> QED BY <1>2, <1>3, <2>1, <2>2 DEF FileTells, Follows, Tells
<1> QED BY <1>5, <1>6

(* A visit only adds bookings, and only of lines in its log.               *)
LEMMA BookedStays ==
    ASSUME UsageAssumption, UsageTypes, NEW f \in LogFile, Visit(f)
    PROVE  /\ \A r \in Req : IsBooked(days, r) => IsBooked(days', r)
           /\ \A r \in Req : IsBooked(days', r) => IsBooked(days, r) \/ \E m \in Whole(f) : m.req = r
<1>1. \A d \in Day, r \in Req : days[d][r] <= days'[d][r] /\ days[d][r] \in Nat /\ days'[d][r] \in Nat
  <2>1. days \in Counts /\ days' \in Counts
    BY VisitBooks DEF UsageTypes
  <2>2. \A c \in Counts : \A d \in Day, r \in Req : c[d][r] \in Nat
    BY DEF Counts
  <2>3. \A d \in Day, r \in Req : days[d][r] <= days'[d][r]
    BY VisitBooks
  <2> QED BY <2>1, <2>2, <2>3
<1>2. \A d \in Day, r \in Req : days[d][r] # days'[d][r] => \E m \in Whole(f) : m.day = d /\ m.req = r
  BY VisitBooks
<1> QED BY <1>1, <1>2 DEF IsBooked

(* A visit to a rollout leaves prev at the log's last line.                *)
LEMMA VisitTells ==
    ASSUME UsageAssumption, UsageTypes, LinesKnown, codex, Owned, PrevTells, OnceIn(days), AllSettled,
           NEW f \in LogFile, Visit(f), ~PassedBy(f), From(f).off <= Len(log[f])
    PROVE  /\ FileTells(log'[f], partial'[f], days', logFiles'[<<f, 0>>])
           /\ f \notin cut' => logFiles'[<<f, 0>>].prev =
                 IF logFiles'[<<f, 0>>].off > 0 THEN log'[f][logFiles'[<<f, 0>>].off].req ELSE 0
<1> DEFINE k == <<f, 0>>
           old == logFiles[k]
           new == logFiles'[k]
           off == From(f).off
           latest == log[f][Len(log[f])]
<1>1. k \in Keys /\ k = Key(f, scan.root)
  BY KeysAre DEF UsageTypes, Scans
<1>2. new = [off |-> Len(log[f]), prev |-> Got(f).prev, known |-> TRUE] /\ days' = Got(f).days
  BY <1>1 DEF Visit, UsageTypes
<1>3. /\ FileTells(log[f], partial[f], days, old)
      /\ f \notin cut => old.prev = IF old.off > 0 THEN log[f][old.off].req ELSE 0
  BY DEF PrevTells
<1>4. Got(f).prev = IF off = Len(log[f]) THEN From(f).prev ELSE latest.req
  <2>1. Tells(days, From(f).prev, log[f], From(f).off)
    BY RolloutAhead
  <2>2. Ordered(log[f])
    BY DEF Owned
  <2> QED BY <2>1, <2>2, GotIs
<1>5. UNCHANGED <<log, partial, cut>>
  BY DEF Visit, tools
<1>6. /\ Size(f) < old.off => off = Size(f) /\ From(f).prev = 0
      /\ ~(Size(f) < old.off) => off = old.off /\ From(f).prev = old.prev
      /\ Size(f) = Len(log[f]) + Len(partial[f])
  BY <1>1, FromIs
<1>7. PICK n \in Nat, q \in Nat : n = Len(log[f]) /\ q = Len(partial[f])
  BY LinesAre
<1>8. off \in Nat /\ old.off \in Nat /\ old.prev \in Nat /\ off <= n
  <2>1. From(f) \in LogRecord /\ old \in LogRecord
    BY <1>1, FromIs DEF UsageTypes
  <2>2. \A e \in LogRecord : e.off \in Nat /\ e.prev \in 0 .. MaxAsked
    BY DEF LogRecord
  <2> HIDE DEF old
  <2>3. off \in Nat /\ old.off \in Nat /\ old.prev \in 0 .. MaxAsked
    BY <2>1, <2>2
  <2> QED BY <2>3, <1>7
<1>9. \A m \in Whole(f) \cup Being(f) : m.req \in Req /\ m.req \in Nat
  BY LinesAre
<1>10. n > 0 => n \in 1 .. n /\ latest \in Whole(f) /\ latest = log[f][n]
  <2>1. n > 0 => n \in 1 .. n
    OBVIOUS
  <2> QED BY <2>1, <1>7, LinesAre
<1> HIDE DEF k, old, new, off, latest
<1>11. /\ \A r \in Req : IsBooked(days, r) => IsBooked(days', r)
       /\ \A r \in Req : IsBooked(days', r) => IsBooked(days, r) \/ \E m \in Whole(f) : m.req = r
  BY BookedStays
<1>w. Whole(f) = Range(log[f]) /\ Being(f) = Range(partial[f])
  BY DEF Whole, Being
<1>a. new.off = n /\ new.prev = Got(f).prev
  BY <1>2, <1>7
<1>b. ~(n + q < n)
  OBVIOUS
<1>g. ASSUME \A i \in 1 .. n : i = n => Follows(days', new.prev, log[f][i]),
             \A l \in Being(f) : Follows(days', new.prev, l),
             f \notin cut => new.prev = IF n > 0 THEN log[f][n].req ELSE 0
      PROVE  /\ FileTells(log'[f], partial'[f], days', logFiles'[<<f, 0>>])
             /\ f \notin cut' => logFiles'[<<f, 0>>].prev =
                   IF logFiles'[<<f, 0>>].off > 0 THEN log'[f][logFiles'[<<f, 0>>].off].req ELSE 0
  <2>1. log'[f] = log[f] /\ partial'[f] = partial[f] /\ cut' = cut /\ logFiles'[<<f, 0>>] = new
    BY <1>5 DEF new, k
  <2>2. \A i \in 1 .. n : ~(i > n)
    OBVIOUS
  <2>3. FileTells(log[f], partial[f], days', new)
    BY <1>7, <1>a, <1>b, <1>w, <1>g, <2>2 DEF FileTells
  <2> QED BY <1>a, <1>g, <2>1, <2>3
<1>12. CASE Size(f) < old.off
  <2>1. off = n + q /\ q = 0 /\ off = n
    BY <1>6, <1>7, <1>8, <1>12
  <2>2. new.prev = 0
    BY <1>4, <1>6, <1>7, <1>a, <1>12, <2>1
  <2>3. \A l \in Whole(f) \cup Being(f) : ~IsBooked(days, l.req)
    BY <1>3, <1>6, <1>12, <1>w DEF FileTells
  <2>4. days' = days
    <3>1. Got(f).days = days
      <4>1. Increased(days, Got(f).days, log[f], off) /\ Got(f) \in Fold
        BY <1>7, <1>8, GotIs DEF off
      <4>2. \A d \in Day, r \in Req : days[d][r] = Got(f).days[d][r]
        <5>1. (n + 1) .. n = {}
          OBVIOUS
        <5> QED BY <2>1, <4>1, <1>7, <5>1 DEF Increased
      <4>3. Got(f).days \in [Day -> [Req -> Nat]] /\ days \in [Day -> [Req -> Nat]]
        BY <4>1 DEF Fold, UsageTypes, Counts
      <4>4. \A d \in Day : days[d] = Got(f).days[d]
        BY <4>2, <4>3
      <4> QED BY <4>3, <4>4
    <3> QED BY <1>2, <3>1
  <2>5. \A l \in Whole(f) \cup Being(f) : Follows(days', new.prev, l)
    BY <1>9, <2>2, <2>3, <2>4 DEF Follows
  <2>6. f \notin cut => FALSE
    <3>1. f \notin cut => old.off <= Len(log[f])
      BY DEF AllSettled, old, k
    <3>2. n + q < old.off
      BY <1>6, <1>7, <1>12
    <3>3. f \notin cut => old.off <= n
      BY <1>7, <3>1
    <3>4. n + q < old.off /\ old.off <= n => FALSE
      BY <1>8
    <3> QED BY <3>2, <3>3, <3>4
  <2>7. \A i \in 1 .. n : log[f][i] \in Whole(f)
    BY <1>7, LinesAre
  <2> QED BY <1>g, <2>5, <2>6, <2>7
<1>13. CASE ~(Size(f) < old.off)
  <2>1. off = old.off /\ From(f).prev = old.prev
    BY <1>6, <1>13
  <2>2. new.prev = IF off = n THEN old.prev ELSE latest.req
    BY <1>4, <1>7, <1>a, <2>1
  <2>3. \A l \in Being(f) : Follows(days, old.prev, l)
    BY <1>3, <1>w DEF FileTells
  <2>4. n > 0 => Follows(days, old.prev, latest)
    BY <1>3, <1>7, <1>10 DEF FileTells
  <2>5. \A m \in Whole(f) : n > 0 /\ m.req <= latest.req
    <3> SUFFICES ASSUME NEW m \in Whole(f) PROVE n > 0 /\ m.req <= latest.req
      OBVIOUS
    <3>1. PICK i \in 1 .. n : m = log[f][i]
      BY <1>7, LinesAre
    <3>2. n > 0 /\ i <= n /\ n \in 1 .. n
      OBVIOUS
    <3> QED BY <1>7, <1>10, <3>1, <3>2 DEF Owned, Ordered
  <2>6. \A l \in Being(f) : n > 0 => latest.req <= l.req
    BY <1>10 DEF Owned
  <2>7. CASE off = n
    <3>1. new.prev = old.prev
      BY <2>2, <2>7
    <3>2. days' = days
      <4>1. Increased(days, Got(f).days, log[f], off) /\ Got(f) \in Fold
        BY <1>7, <1>8, GotIs DEF off
      <4>2. \A d \in Day, r \in Req : days[d][r] = Got(f).days[d][r]
        <5>1. (n + 1) .. n = {}
          OBVIOUS
        <5> QED BY <2>7, <4>1, <1>7, <5>1 DEF Increased
      <4>3. Got(f).days \in [Day -> [Req -> Nat]] /\ days \in [Day -> [Req -> Nat]]
        BY <4>1 DEF Fold, UsageTypes, Counts
      <4>4. \A d \in Day : days[d] = Got(f).days[d]
        BY <4>2, <4>3
      <4>5. Got(f).days = days
        BY <4>3, <4>4
      <4> QED BY <1>2, <4>5
    <3>3. new.off = old.off
      BY <1>a, <2>1, <2>7
    <3>4. f \notin cut => new.prev = IF n > 0 THEN log[f][n].req ELSE 0
      BY <1>3, <2>1, <2>7, <3>1
    <3>5. \A i \in 1 .. n : i = n => Follows(days', new.prev, log[f][i])
      BY <1>7, <1>10, <2>4, <3>1, <3>2
    <3> QED BY <1>g, <2>3, <3>1, <3>2, <3>4, <3>5
  <2>8. CASE off # n
    <3>1. new.prev = latest.req /\ n > 0 /\ latest.req \in Nat
      BY <1>8, <1>9, <1>10, <2>2, <2>8
    <3>2. \A l \in Being(f) : Follows(days', new.prev, l)
      <4> SUFFICES ASSUME NEW l \in Being(f) PROVE latest.req <= l.req /\ (IsBooked(days', l.req) => latest.req = l.req)
        BY <3>1 DEF Follows
      <4>1. latest.req <= l.req /\ l.req \in Req /\ l.req \in Nat
        BY <1>9, <2>6, <3>1
      <4>2. ASSUME IsBooked(days', l.req), latest.req # l.req PROVE FALSE
        <5>1. CASE IsBooked(days, l.req)
          <6>1. old.prev = l.req /\ old.prev <= latest.req
            BY <2>3, <2>4, <3>1, <5>1 DEF Follows
          <6> QED BY <6>1, <4>1, <4>2, <3>1
        <5>2. CASE \E m \in Whole(f) : m.req = l.req
          BY <5>2, <2>5, <4>1, <4>2, <3>1
        <5> QED BY <5>1, <5>2, <4>1, <4>2, <1>11
      <4> QED BY <4>1, <4>2
    <3>3. Follows(days', new.prev, latest)
      <4>1. latest.req <= latest.req
        BY <3>1
      <4> QED BY <3>1, <4>1 DEF Follows
    <3> QED BY <1>g, <1>10, <3>1, <3>2, <3>3
  <2> QED BY <2>7, <2>8
<1> QED BY <1>12, <1>13

(* prev goes on telling of the lines ahead.                                *)
LEMMA PrevKept ==
    ASSUME UsageAssumption, UsageTypes, LinesKnown, FirstIsOldest, AllSettled, codex, Owned, PrevTells, OnceIn(days), UsageNext
    PROVE  PrevTells'
<1>0. UsageTypes'
  BY TypesKept
<1>k. \A f \in LogFile : <<f, 0>> \in Keys /\ logFiles[<<f, 0>>] \in LogRecord
  BY KeysAre DEF UsageTypes
<1>a. requests \in Nat /\ \A f \in LogFile : logFiles[<<f, 0>>].off \in Nat /\ logFiles[<<f, 0>>].prev \in Nat
         /\ logFiles[<<f, 0>>].prev <= requests
  BY <1>k DEF UsageTypes, LogRecord, LinesKnown, UsageAssumption
<1>b. \A f \in LogFile : \A m \in Whole(f) \cup Being(f) : m.req \in Req /\ m.req \in Nat /\ m.req <= requests
  BY LinesAre DEF LinesKnown
<1>w. \A f \in LogFile : Whole(f) = Range(log[f]) /\ Being(f) = Range(partial[f])
         /\ Whole(f)' = Range(log'[f]) /\ Being(f)' = Range(partial'[f])
  BY DEF Whole, Being
<1>1. ASSUME UNCHANGED <<log, partial, logFiles, cut>>,
             \A r \in Req : IsBooked(days', r) => IsBooked(days, r)
      PROVE  PrevTells'
  <2>1. ASSUME NEW f \in LogFile PROVE FileTells(log[f], partial[f], days', logFiles[<<f, 0>>])
    <3>1. FileTells(log[f], partial[f], days, logFiles[<<f, 0>>])
      BY DEF PrevTells
    <3>2. \A i \in 1 .. Len(log[f]) : log[f][i].req \in Req
      BY LinesAre
    <3>3. \A l \in Range(log[f]) \cup Range(partial[f]) : l.req \in Req
      BY <1>b, <1>w
    <3> QED BY <1>1, <3>1, <3>2, <3>3 DEF FileTells, Follows
  <2> QED BY <1>1, <2>1 DEF PrevTells
<1>2. CASE handleAgentUsage \/ NextRoot \/ Midnight
  <2>1. UNCHANGED <<log, partial, logFiles, cut, days>>
    BY <1>2 DEF handleAgentUsage, NextRoot, Midnight, tools, counts
  <2> QED BY <1>1, <2>1
<1>3. CASE ScanEnds
  <2>1. UNCHANGED <<log, partial, logFiles, cut>>
        /\ days' = [d \in Day |-> IF d < scan.since THEN [r \in Req |-> 0] ELSE days[d]]
    BY <1>3 DEF ScanEnds, tools
  <2>2. \A d \in Day, r \in Req : days'[d][r] > 0 => days[d][r] > 0
    BY <2>1
  <2> QED BY <1>1, <2>1, <2>2 DEF IsBooked
<1>4. ASSUME NEW f \in LogFile, Visit(f) PROVE PrevTells'
  <2>1. /\ \A r \in Req : IsBooked(days, r) => IsBooked(days', r)
        /\ \A r \in Req : IsBooked(days', r) => IsBooked(days, r) \/ \E m \in Whole(f) : m.req = r
    BY <1>4, BookedStays
  <2>2. UNCHANGED <<log, partial, cut>> /\ \A q \in Keys : q # <<f, 0>> => logFiles'[q] = logFiles[q]
    <3>1. Key(f, scan.root) = <<f, 0>>
      BY KeysAre DEF UsageTypes, Scans
    <3> QED BY <1>4, <3>1, VisitBooks DEF tools
  <2>3. ASSUME NEW h \in LogFile, h # f
        PROVE  /\ FileTells(log[h], partial[h], days', logFiles'[<<h, 0>>])
               /\ logFiles'[<<h, 0>>] = logFiles[<<h, 0>>]
    <3>1. FileTells(log[h], partial[h], days, logFiles[<<h, 0>>])
      BY DEF PrevTells
    <3>2. logFiles'[<<h, 0>>] = logFiles[<<h, 0>>]
      BY <2>2, <2>3, <1>k
    <3>3. \A l \in Whole(h) \cup Being(h) : IsBooked(days', l.req) => IsBooked(days, l.req)
      BY <2>1, <2>3, <1>b DEF Owned
    <3>4. \A i \in 1 .. Len(log[h]) : log[h][i] \in Whole(h)
      BY LinesAre
    <3> QED BY <1>w, <3>1, <3>2, <3>3, <3>4 DEF FileTells, Follows
  <2>4. /\ FileTells(log'[f], partial'[f], days', logFiles'[<<f, 0>>])
        /\ f \notin cut' => logFiles'[<<f, 0>>].prev =
              IF logFiles'[<<f, 0>>].off > 0 THEN log'[f][logFiles'[<<f, 0>>].off].req ELSE 0
    <3>1. CASE PassedBy(f)
      <4>1. UNCHANGED <<days, logFiles>>
        BY <1>4, <3>1 DEF Visit, counts
      <4> QED BY <2>2, <4>1 DEF PrevTells
    <3>2. CASE ~PassedBy(f) /\ From(f).off <= Len(log[f])
      BY <1>4, <3>2, VisitTells
    <3>3. CASE ~PassedBy(f) /\ ~(From(f).off <= Len(log[f]))
      <4> DEFINE k == <<f, 0>>
                 e == logFiles'[k]
                 old == logFiles[k]
      <4>1. k \in Keys /\ k = Key(f, scan.root)
        BY KeysAre DEF UsageTypes, Scans
      <4>2. e = From(f) /\ days' = days
        BY <1>4, <3>3, <4>1 DEF Visit, UsageTypes
      <4>3. /\ Size(f) < old.off => e.off = Size(f) /\ e.prev = 0
            /\ ~(Size(f) < old.off) => e.off = old.off /\ e.prev = old.prev
            /\ Size(f) = Len(log[f]) + Len(partial[f]) /\ Size(f) \in Nat
        BY <4>1, <4>2, FromIs
      <4>4. FileTells(log[f], partial[f], days, old) /\ (f \notin cut => old.prev = IF old.off > 0 THEN log[f][old.off].req ELSE 0)
        BY DEF PrevTells
      <4>5. \A i \in 1 .. Len(log[f]) : log[f][i] \in Whole(f)
        BY LinesAre
      <4>6. f \notin cut => old.off <= Len(log[f])
        BY DEF AllSettled
      <4> HIDE DEF e, old, k
      <4>7. CASE Size(f) < old.off
        <5>1. f \in cut
          <6>1. PICK n \in Nat, q \in Nat : n = Len(log[f]) /\ q = Len(partial[f])
            BY LinesAre
          <6>2. f \notin cut => old.off <= n
            BY <4>6, <6>1
          <6>3. n + q < old.off
            BY <4>3, <4>7, <6>1
          <6>4. old.off \in Nat
            BY <1>a DEF old, k
          <6> QED BY <6>2, <6>3, <6>4
        <5>2. \A l \in Whole(f) \cup Being(f) : ~IsBooked(days, l.req)
          BY <4>3, <4>4, <4>7, <1>w DEF FileTells
        <5>3. \A l \in Whole(f) \cup Being(f) : Follows(days, e.prev, l)
          BY <4>3, <4>7, <5>2, <1>b DEF Follows
        <5>4. FileTells(log[f], partial[f], days, e)
          BY <4>5, <5>2, <5>3, <1>w DEF FileTells
        <5> QED BY <2>2, <4>2, <5>1, <5>4 DEF e, k
      <4>8. CASE ~(Size(f) < old.off)
        <5>1. e.off = old.off /\ e.prev = old.prev
          BY <4>3, <4>8
        <5>2. FileTells(log[f], partial[f], days, e)
          BY <4>4, <5>1 DEF FileTells
        <5> QED BY <2>2, <4>2, <4>4, <5>1, <5>2 DEF e, k
      <4> QED BY <4>7, <4>8
    <3> QED BY <3>1, <3>2, <3>3
  <2>5. \A h \in LogFile : FileTells(log'[h], partial'[h], days', logFiles'[<<h, 0>>])
    BY <2>2, <2>3, <2>4
  <2>6. \A h \in LogFile \ cut' : logFiles'[<<h, 0>>].prev =
           IF logFiles'[<<h, 0>>].off > 0 THEN log'[h][logFiles'[<<h, 0>>].off].req ELSE 0
    <3> SUFFICES ASSUME NEW h \in LogFile \ cut'
                 PROVE  logFiles'[<<h, 0>>].prev = IF logFiles'[<<h, 0>>].off > 0 THEN log'[h][logFiles'[<<h, 0>>].off].req ELSE 0
      OBVIOUS
    <3>1. CASE h = f
      BY <2>4, <3>1
    <3>2. CASE h # f
      <4>1. logFiles'[<<h, 0>>] = logFiles[<<h, 0>>] /\ log' = log /\ h \in LogFile \ cut
        BY <2>2, <2>3, <3>2
      <4> QED BY <4>1 DEF PrevTells
    <3> QED BY <3>1, <3>2
  <2> QED BY <2>5, <2>6 DEF PrevTells
<1>5. ASSUME NEW f \in LogFile, NEW g \in LogFile, ToolStep(f, g) PROVE PrevTells'
  <2>1. days' = days /\ logFiles' = logFiles
    BY <1>5, ToolsLeave DEF counts
  <2>2. CASE Midnight \/ MoveFile(f)
    <3>1. UNCHANGED <<log, partial, cut>>
      BY <2>2 DEF Midnight, MoveFile
    <3> QED BY <1>1, <2>1, <3>1
  <2>c. ASSUME NEW h \in LogFile, log'[h] = log[h], partial'[h] = partial[h]
        PROVE  FileTells(log'[h], partial'[h], days', logFiles'[<<h, 0>>])
    BY <2>1, <2>c DEF PrevTells
  <2>3. ASSUME NEW l \in Lines, Writes(f, l), (log[f] # <<>> /\ l = log[f][Len(log[f])]) \/ (l.req = requests + 1 /\ l.req \in Req)
        PROVE  PrevTells'
    <3>1. /\ \A h \in LogFile : partial'[h] = IF h = f THEN <<l>> ELSE partial[h]
          /\ log' = log /\ partial[f] = <<>> /\ cut' = cut
      BY <2>3, WriteDoes, Zenon
    <3> DEFINE e == logFiles[<<f, 0>>]
    <3>2. FileTells(log[f], <<>>, days, e)
      BY <3>1 DEF PrevTells
    <3>3. e.off \in Nat /\ e.prev \in Nat /\ e.prev <= requests
      BY <1>a
    <3>w. Whole(f) = Range(log[f]) /\ \A i \in 1 .. Len(log[f]) : log[f][i] \in Whole(f)
      BY <1>w, LinesAre
    <3>4. PICK n \in Nat : n = Len(log[f])
      BY LinesAre
    <3> HIDE DEF e
    <3>5. Len(<<>>) = 0 /\ Range(<<>>) = {} /\ Len(<<l>>) = 1 /\ Range(<<l>>) = {l}
      BY DEF Range
    <3>6. Follows(days, e.prev, l) /\ (n < e.off => ~IsBooked(days, l.req))
      <4>1. CASE log[f] # <<>> /\ l = log[f][Len(log[f])]
        <5>1. n \in 1 .. Len(log[f]) /\ l = log[f][n]
          BY <3>4, <4>1, LinesAre
        <5>2. Follows(days, e.prev, l)
          BY <3>2, <3>4, <5>1 DEF FileTells
        <5>3. n < e.off => ~IsBooked(days, l.req)
          <6>1. l \in Range(log[f])
            BY <3>w, <5>1
          <6>2. n + 0 < e.off => ~IsBooked(days, l.req)
            BY <3>2, <3>4, <3>5, <6>1 DEF FileTells
          <6> QED BY <6>2
        <5> QED BY <5>2, <5>3
      <4>2. CASE l.req = requests + 1 /\ l.req \in Req
        <5>1. ~IsBooked(days, l.req)
          BY <1>a, <4>2 DEF FirstIsOldest
        <5> QED BY <1>a, <3>3, <4>2, <5>1 DEF Follows
      <4> QED BY <2>3, <4>1, <4>2
    <3>7. FileTells(log[f], <<l>>, days, e)
      <4>1. \A i \in 1 .. Len(log[f]) : i > e.off \/ i = Len(log[f]) => Follows(days, e.prev, log[f][i])
        BY <3>2 DEF FileTells
      <4>2. n + 0 < e.off => \A m \in Range(log[f]) : ~IsBooked(days, m.req)
        BY <3>2, <3>4, <3>5 DEF FileTells
      <4>3. n + 1 < e.off => n < e.off /\ n + 0 < e.off
        BY <3>3
      <4>4. n + 1 < e.off => \A m \in Range(log[f]) \cup {l} : ~IsBooked(days, m.req)
        BY <3>6, <4>2, <4>3
      <4> QED BY <3>4, <3>5, <3>6, <4>1, <4>4 DEF FileTells
    <3>8. \A h \in LogFile : FileTells(log'[h], partial'[h], days', logFiles'[<<h, 0>>])
      <4> SUFFICES ASSUME NEW h \in LogFile PROVE FileTells(log'[h], partial'[h], days', logFiles'[<<h, 0>>])
        OBVIOUS
      <4>1. CASE h = f
        <5>1. partial'[h] = <<l>> /\ log'[h] = log[f]
          BY <3>1, <4>1
        <5> QED BY <2>1, <3>7, <4>1, <5>1 DEF e
      <4>2. CASE h # f
        <5>1. partial'[h] = partial[h] /\ log'[h] = log[h]
          BY <3>1, <4>2
        <5> QED BY <2>c, <5>1
      <4> QED BY <4>1, <4>2
    <3> QED BY <2>1, <3>1, <3>8 DEF PrevTells
  <2>4. CASE NewRequest(f)
    <3>1. Writes(f, Line(requests + 1, day)) /\ Line(requests + 1, day) \in Lines
      BY <2>4, RequestIs
    <3>2. Line(requests + 1, day).req = requests + 1 /\ Line(requests + 1, day).req \in Req
      BY <3>1 DEF Line, Lines
    <3> QED BY <2>3, <3>1, <3>2
  <2>5. CASE SameRequest(f)
    <3>1. log[f] # <<>> /\ \E l \in Lines : Writes(f, l) /\ l = log[f][Len(log[f])]
      BY <2>5, RequestIs
    <3> QED BY <2>3, <3>1
  <2>6. CASE LineEnds(f)
    <3>0. Len(partial[f]) <= 1
      BY DEF LinesKnown
    <3>1. /\ \A h \in LogFile : h # f => log'[h] = log[h] /\ partial'[h] = partial[h]
          /\ cut' = cut
      BY <2>6, <3>0, EndDoes
    <3>2. /\ partial'[f] = <<>> /\ Whole(f)' = Whole(f) \cup Being(f) /\ Being(f) = {partial[f][1]}
          /\ Len(log'[f]) = Len(log[f]) + 1 /\ log'[f][Len(log[f]) + 1] = partial[f][1] /\ Len(partial[f]) = 1
      BY <2>6, <3>0, EndDoes
    <3>i. \A i \in 1 .. Len(log[f]) : log'[f][i] = log[f][i]
      BY <2>6, <3>0, EndDoes
    <3> DEFINE e == logFiles[<<f, 0>>]
    <3>3. FileTells(log[f], partial[f], days, e)
      BY DEF PrevTells
    <3>4. e.off \in Nat /\ e.prev \in Nat
      BY <1>a
    <3>5. PICK n \in Nat : n = Len(log[f])
      BY LinesAre
    <3>o. f \notin cut => e.off <= Len(log[f])
      BY DEF AllSettled
    <3> HIDE DEF e
    <3>6. Len(<<>>) = 0 /\ Range(<<>>) = {}
      BY DEF Range
    <3>7. FileTells(log'[f], <<>>, days, e)
      <4>1. ASSUME NEW i \in 1 .. (n + 1), i > e.off \/ i = n + 1 PROVE Follows(days, e.prev, log'[f][i])
        <5>1. CASE i \in 1 .. n
          <6>1. i > e.off /\ log'[f][i] = log[f][i]
            BY <3>5, <3>i, <4>1, <5>1
          <6> QED BY <3>3, <3>5, <5>1, <6>1 DEF FileTells
        <5>2. CASE i \notin 1 .. n
          <6>1. i = n + 1
            BY <4>1, <5>2
          <6>2. log'[f][i] \in Being(f)
            BY <3>2, <3>5, <6>1
          <6> QED BY <3>3, <6>2, <1>w DEF FileTells
        <5> QED BY <5>1, <5>2
      <4>2. n + 1 < e.off => \A m \in Range(log'[f]) : ~IsBooked(days, m.req)
        <5>1. n + 1 < e.off => \A m \in Whole(f) \cup Being(f) : ~IsBooked(days, m.req)
          BY <3>2, <3>3, <3>5, <1>w DEF FileTells
        <5> QED BY <5>1, <3>2, <1>w
      <4>3. Len(log'[f]) = n + 1 /\ (n + 1) + 0 = n + 1
        BY <3>2, <3>5
      <4>4. (n + 1) + 0 < e.off => \A m \in Range(log'[f]) \cup {} : ~IsBooked(days, m.req)
        BY <4>2, <4>3
      <4> QED BY <4>1, <4>3, <4>4, <3>6 DEF FileTells
    <3>8. \A h \in LogFile : FileTells(log'[h], partial'[h], days', logFiles'[<<h, 0>>])
      <4> SUFFICES ASSUME NEW h \in LogFile PROVE FileTells(log'[h], partial'[h], days', logFiles'[<<h, 0>>])
        OBVIOUS
      <4>1. CASE h = f
        BY <2>1, <3>2, <3>7, <4>1 DEF e
      <4>2. CASE h # f
        BY <2>c, <3>1, <4>2
      <4> QED BY <4>1, <4>2
    <3>9. \A h \in LogFile \ cut' : logFiles'[<<h, 0>>].prev =
             IF logFiles'[<<h, 0>>].off > 0 THEN log'[h][logFiles'[<<h, 0>>].off].req ELSE 0
      <4> SUFFICES ASSUME NEW h \in LogFile \ cut
                   PROVE  logFiles[<<h, 0>>].prev = IF logFiles[<<h, 0>>].off > 0 THEN log'[h][logFiles[<<h, 0>>].off].req ELSE 0
        BY <2>1, <3>1
      <4>1. logFiles[<<h, 0>>].prev = IF logFiles[<<h, 0>>].off > 0 THEN log[h][logFiles[<<h, 0>>].off].req ELSE 0
        BY DEF PrevTells
      <4>2. CASE h = f
        <5>1. e.off <= n
          BY <3>o, <3>5, <4>2
        <5>2. e.off > 0 => e.off \in 1 .. n
          BY <3>4, <5>1
        <5>3. e.off > 0 => log'[f][e.off] = log[f][e.off]
          BY <5>2, <3>5, <3>i
        <5> QED BY <4>1, <4>2, <5>3 DEF e
      <4>3. CASE h # f
        BY <3>1, <4>1, <4>3
      <4> QED BY <4>2, <4>3
    <3> QED BY <3>8, <3>9 DEF PrevTells
  <2>7. CASE CutShort(f)
    <3>1. /\ \A h \in LogFile : h # f => log'[h] = log[h] /\ partial'[h] = partial[h]
          /\ log'[f] = <<>> /\ partial'[f] = <<>> /\ cut' = cut \cup {f}
      BY <2>7, CutDoes
    <3>2. FileTells(<<>>, <<>>, days, logFiles[<<f, 0>>])
      <4>1. Len(<<>>) = 0 /\ Range(<<>>) = {}
        BY DEF Range
      <4>2. \A i \in 1 .. 0 : FALSE
        OBVIOUS
      <4> QED BY <4>1, <4>2 DEF FileTells
    <3>3. \A h \in LogFile : FileTells(log'[h], partial'[h], days', logFiles'[<<h, 0>>])
      <4> SUFFICES ASSUME NEW h \in LogFile PROVE FileTells(log'[h], partial'[h], days', logFiles'[<<h, 0>>])
        OBVIOUS
      <4>1. CASE h = f
        BY <2>1, <3>1, <3>2, <4>1
      <4>2. CASE h # f
        BY <2>c, <3>1, <4>2
      <4> QED BY <4>1, <4>2
    <3>4. \A h \in LogFile \ cut' : logFiles'[<<h, 0>>].prev =
             IF logFiles'[<<h, 0>>].off > 0 THEN log'[h][logFiles'[<<h, 0>>].off].req ELSE 0
      <4> SUFFICES ASSUME NEW h \in LogFile \ cut'
                   PROVE  logFiles'[<<h, 0>>].prev = IF logFiles'[<<h, 0>>].off > 0 THEN log'[h][logFiles'[<<h, 0>>].off].req ELSE 0
        OBVIOUS
      <4>1. h \in LogFile \ cut /\ log'[h] = log[h]
        BY <3>1
      <4> QED BY <2>1, <4>1 DEF PrevTells
    <3> QED BY <3>3, <3>4 DEF PrevTells
  <2>8. CASE Resume(f, g)
    BY <2>8 DEF Resume
  <2> QED BY <1>5, <2>2, <2>4, <2>5, <2>6, <2>7, <2>8 DEF ToolStep
<1> QED BY <1>2, <1>3, <1>4, <1>5, StepIs

(* What a visit that reads a log adds to it.                               *)
LEMMA VisitSettles ==
    ASSUME UsageAssumption, UsageTypes, LinesKnown, AllSettled, codex => Owned /\ PrevTells /\ OnceIn(days),
           ~codex => SeenIs(days, bookedOn),
           NEW f \in LogFile, f \notin cut, From(f).off <= Len(log[f]), NEW p \in {0, 1, 2}, <<f, p>> = Key(f, scan.root),
           From(f).off = logFiles[<<f, p>>].off, From(f).prev = logFiles[<<f, p>>].prev
    PROVE  \A i \in (From(f).off + 1) .. Len(log[f]) : SettledBy(Got(f).days, log[f], i, scan.since)
<1> DEFINE off == From(f).off
           lines == log[f]
<1>1. PICK n \in Nat : n = Len(log[f])
  BY LinesAre
<1>2. off \in Nat /\ off <= n
  <2>1. off \in Nat
    BY FromIs DEF LogRecord
  <2> QED BY <2>1, <1>1
<1>3. CASE ~codex
  <2>1. SeenIs(days, bookedOn)
    BY <1>3
  <2> QED BY <1>3, <2>1, GotIs
<1>4. CASE codex
  <2>0. p = 0
    BY <1>4, KeysAre DEF UsageTypes, Scans
  <2>1. Ordered(log[f]) /\ Tells(days, From(f).prev, log[f], From(f).off) /\ OnceIn(days)
    BY <1>4, RolloutAhead DEF Owned
  <2>2. \A i \in (off + 1) .. Len(log[f]) :
           SettledBy(Got(f).days, log[f], i, scan.since) \/ From(f).prev = log[f][i].req
    BY <1>4, <2>1, GotIs
  <2>3. From(f).prev = IF off > 0 THEN log[f][off].req ELSE 0
    BY <1>4, <2>0 DEF PrevTells
  <2>4. ASSUME NEW i \in (off + 1) .. n, From(f).prev = log[f][i].req PROVE SettledBy(Got(f).days, log[f], i, scan.since)
    <3>0. i \in 1 .. n /\ i \in Nat
      BY <1>2
    <3>1. log[f][i].req \in Req
      BY <1>1, <3>0, LinesAre
    <3>2. off > 0
      BY <2>3, <2>4, <3>1, <1>2 DEF Req
    <3>3. SettledBy(days, log[f], off, scan.since) /\ log[f][off].req = log[f][i].req
      <4>1. off \in 1 .. off
        BY <1>2, <3>2
      <4> QED BY <2>3, <2>4, <3>2, <4>1 DEF AllSettled
    <3>4. IsBooked(days, log[f][i].req) => IsBooked(Got(f).days, log[f][i].req)
      <4>1. Increased(days, Got(f).days, log[f], off) /\ Got(f) \in Fold
        BY GotIs
      <4>2. \A d \in Day, r \in Req : days[d][r] <= Got(f).days[d][r] /\ days[d][r] \in Nat /\ Got(f).days[d][r] \in Nat
        BY <4>1 DEF Increased, Fold, UsageTypes, Counts
      <4> QED BY <3>1, <4>2 DEF IsBooked
    <3>5. \A j \in 1 .. off : j \in 1 .. i
      BY <1>2
    <3> HIDE DEF off
    <3> QED BY <3>3, <3>4, <3>5 DEF SettledBy
  <2> QED BY <1>1, <2>2, <2>4
<1> QED BY <1>3, <1>4

(* What was read stays booked, or too old.                                 *)
LEMMA SettledKept ==
    ASSUME UsageAssumption, UsageTypes, LinesKnown, FirstIsOldest, AllSettled,
           codex => Owned /\ PrevTells /\ OnceIn(days), ~codex => SeenIs(days, bookedOn), UsageNext
    PROVE  AllSettled'
<1>0. UsageTypes'
  BY TypesKept
<1>a. scan.since \in Nat /\ scan'.since \in Nat /\ usageSince \in Nat
  BY <1>0 DEF UsageTypes, Scans, Day, usageSince, UsageAssumption
<1>b. \A f \in LogFile, p \in {0, 1, 2} : <<f, p>> \in Keys /\ logFiles[<<f, p>>].off \in Nat
  BY KeysAre DEF UsageTypes, LogRecord
<1>l. \A f \in LogFile : \A i \in 1 .. Len(log[f]) : log[f][i].req \in Req /\ log[f][i].day \in Nat /\ log[f][i] \in Whole(f)
  BY LinesAre
<1>1. ASSUME logFiles' = logFiles, cut \subseteq cut', scan.since <= scan'.since,
             \A r \in Req : IsBooked(days, r) => IsBooked(days', r),
             \A f \in LogFile \ cut' : log[f] = <<>> \/
                (Len(log[f]) <= Len(log'[f]) /\ \A i \in 1 .. Len(log[f]) : log'[f][i] = log[f][i])
      PROVE  AllSettled'
  <2> SUFFICES ASSUME NEW f \in LogFile \ cut', NEW p \in {0, 1, 2}
               PROVE  /\ logFiles[<<f, p>>].off <= Len(log'[f])
                      /\ \A i \in 1 .. logFiles[<<f, p>>].off : SettledBy(days', log'[f], i, scan'.since)
    BY <1>1 DEF AllSettled
  <2>1. PICK o \in Nat, n \in Nat, m \in Nat : o = logFiles[<<f, p>>].off /\ n = Len(log[f]) /\ m = Len(log'[f])
    <3>1. Len(log[f]) \in Nat /\ Len(log'[f]) \in Nat
      BY <1>0 DEF UsageTypes
    <3> QED BY <3>1, <1>b
  <2>2. f \in LogFile \ cut
    BY <1>1
  <2>3. o <= n /\ \A i \in 1 .. o : SettledBy(days, log[f], i, scan.since)
    BY <2>1, <2>2 DEF AllSettled
  <2>4. CASE log[f] = <<>>
    <3>1. n = 0 /\ o = 0
      BY <2>1, <2>3, <2>4
    <3>2. \A i \in 1 .. o : FALSE
      BY <3>1
    <3>3. o <= m
      BY <3>1
    <3> QED BY <2>1, <3>2, <3>3
  <2>5. CASE log[f] # <<>>
    <3>1. n <= m /\ \A i \in 1 .. n : log'[f][i] = log[f][i]
      BY <1>1, <2>1, <2>5
    <3>2. ASSUME NEW i \in 1 .. o PROVE SettledBy(days', log'[f], i, scan'.since)
      <4>1. i \in Nat /\ i \in 1 .. n /\ \A j \in 1 .. i : j \in 1 .. n
        BY <2>3
      <4>2. SettledBy(days, log[f], i, scan.since)
        BY <2>3
      <4>3. \A j \in 1 .. i : log'[f][j] = log[f][j] /\ log[f][j].day \in Nat
        BY <2>1, <3>1, <4>1, <1>l
      <4>4. log'[f][i] = log[f][i] /\ log[f][i].req \in Req
        BY <2>1, <3>1, <4>1, <1>l
      <4>5. IsBooked(days, log[f][i].req) => IsBooked(days', log[f][i].req)
        BY <1>1, <4>4
      <4>6. CASE IsBooked(days, log[f][i].req)
        BY <4>4, <4>5, <4>6 DEF SettledBy
      <4>7. CASE ~IsBooked(days, log[f][i].req)
        <5>1. PICK j \in 1 .. i : log[f][j].req = log[f][i].req /\ log[f][j].day < scan.since
          BY <4>2, <4>7 DEF SettledBy
        <5>2. log[f][j].day < scan'.since
          BY <1>1, <1>a, <4>3, <5>1
        <5>3. log'[f][j].req = log'[f][i].req /\ log'[f][j].day < scan'.since
          BY <4>3, <4>4, <5>1, <5>2
        <5> QED BY <5>3 DEF SettledBy
      <4> QED BY <4>6, <4>7
    <3>3. o <= m
      BY <2>3, <3>1
    <3> QED BY <2>1, <3>2, <3>3
  <2> QED BY <2>4, <2>5
<1>2. ASSUME NEW f \in LogFile, NEW g \in LogFile, ToolStep(f, g) PROVE AllSettled'
  <2>1. days' = days /\ logFiles' = logFiles /\ scan.since <= scan'.since
    <3>1. days' = days /\ logFiles' = logFiles /\ scan'.since = scan.since
      BY <1>2, ToolsLeave DEF counts
    <3> QED BY <1>a, <3>1
  <2>n. \A h \in LogFile : Len(log[h]) <= Len(log[h])
    BY LinesAre
  <2>2. CASE Midnight \/ NewRequest(f) \/ SameRequest(f) \/ MoveFile(f)
    <3>1. log' = log /\ cut' = cut
      BY <2>2 DEF Midnight, NewRequest, SameRequest, MoveFile, Writes
    <3> QED BY <1>1, <2>1, <2>n, <3>1
  <2>3. CASE LineEnds(f)
    <3>0. Len(partial[f]) <= 1
      BY DEF LinesKnown
    <3>1. /\ \A h \in LogFile : h # f => log'[h] = log[h]
          /\ cut' = cut
      BY <2>3, <3>0, EndDoes
    <3>2. Len(log'[f]) = Len(log[f]) + 1 /\ \A i \in 1 .. Len(log[f]) : log'[f][i] = log[f][i]
      BY <2>3, <3>0, EndDoes
    <3>3. PICK n \in Nat : n = Len(log[f])
      BY LinesAre
    <3>4. n <= n + 1
      OBVIOUS
    <3>5. Len(log[f]) <= Len(log'[f])
      BY <3>2, <3>3, <3>4
    <3>6. \A h \in LogFile : Len(log[h]) <= Len(log'[h]) /\ \A i \in 1 .. Len(log[h]) : log'[h][i] = log[h][i]
      BY <2>n, <3>1, <3>2, <3>5
    <3> QED BY <1>1, <2>1, <3>1, <3>6
  <2>4. CASE CutShort(f)
    <3>1. /\ \A h \in LogFile : h # f => log'[h] = log[h]
          /\ cut' = cut \cup {f}
      BY <2>4, CutDoes
    <3>2. \A h \in LogFile \ cut' : Len(log[h]) <= Len(log'[h]) /\ \A i \in 1 .. Len(log[h]) : log'[h][i] = log[h][i]
      BY <2>n, <3>1
    <3> QED BY <1>1, <2>1, <3>1, <3>2
  <2>5. CASE Resume(f, g)
    <3>1. place[g] = 0 /\ cut' = cut /\ \A h \in LogFile : log'[h] = log[IF h = g THEN f ELSE h]
      BY <2>5, ResumeDoes
    <3>2. log[g] = <<>>
      BY <3>1 DEF LinesKnown
    <3>3. \A h \in LogFile : h # g => Len(log[h]) <= Len(log'[h]) /\ \A i \in 1 .. Len(log[h]) : log'[h][i] = log[h][i]
      BY <2>n, <3>1
    <3> QED BY <1>1, <2>1, <3>1, <3>2, <3>3
  <2> QED BY <1>2, <2>2, <2>3, <2>4, <2>5 DEF ToolStep
<1>3. CASE Midnight
  <2>1. log' = log /\ cut' = cut /\ logFiles' = logFiles /\ days' = days /\ scan'.since = scan.since
    BY <1>3 DEF Midnight, counts, Stir, UsageTypes, Scans
  <2>2. \A h \in LogFile : Len(log[h]) <= Len(log[h])
    BY LinesAre
  <2>3. scan.since <= scan'.since
    BY <2>1, <1>a
  <2> QED BY <1>1, <2>1, <2>2, <2>3
<1>4. CASE handleAgentUsage \/ NextRoot
  <2>1. log' = log /\ cut' = cut /\ logFiles' = logFiles /\ days' = days
    BY <1>4 DEF handleAgentUsage, NextRoot, tools, counts
  <2>2. \A h \in LogFile : Len(log[h]) <= Len(log[h])
    BY LinesAre
  <2>3. scan'.since = scan.since \/ scan'.since = usageSince
    <3>1. CASE handleAgentUsage
      BY <3>1 DEF handleAgentUsage
    <3>2. CASE NextRoot
      BY <3>2 DEF NextRoot, UsageTypes, Scans
    <3> QED BY <1>4, <3>1, <3>2
  <2>4. scan.since <= scan'.since
    BY <2>3, <1>a DEF LinesKnown
  <2> QED BY <1>1, <2>1, <2>2, <2>4
<1>5. CASE ScanEnds
  <2>1. /\ UNCHANGED <<log, cut, logFiles>> /\ scan'.since = scan.since
        /\ days' = [d \in Day |-> IF d < scan.since THEN [r \in Req |-> 0] ELSE days[d]]
    BY <1>5 DEF ScanEnds, tools, UsageTypes, Scans
  <2>2. ASSUME NEW f \in LogFile \ cut, NEW i \in 1 .. Len(log[f]), SettledBy(days, log[f], i, scan.since)
        PROVE  SettledBy(days', log[f], i, scan.since)
    <3>1. PICK j \in 1 .. i : log[f][j].req = log[f][i].req /\ Oldest(log[f][j], log, days)
      BY DEF FirstIsOldest, BeginOldest
    <3>2. PICK r, w : r = log[f][i].req /\ w = log[f][j].day
      OBVIOUS
    <3>3. i \in Nat /\ j \in 1 .. Len(log[f])
      <4>1. Len(log[f]) \in Nat
        BY LinesAre
      <4> QED BY <4>1
    <3>4. r \in Req /\ w \in Nat
      BY <1>l, <3>2, <3>3
    <3>5. ASSUME NEW d \in Day, days[d][r] > 0 PROVE SettledBy(days', log[f], i, scan.since)
      <4>1. w <= d
        BY <3>1, <3>2, <3>5 DEF Oldest
      <4>2. CASE d < scan.since
        <5>1. w < scan.since
          BY <3>4, <4>1, <4>2, <1>a DEF Day
        <5> QED BY <3>1, <3>2, <5>1 DEF SettledBy
      <4>3. CASE ~(d < scan.since)
        <5>1. days'[d][r] = days[d][r]
          BY <2>1, <4>3
        <5> QED BY <3>2, <3>5, <5>1 DEF SettledBy, IsBooked
      <4> QED BY <4>2, <4>3
    <3>6. CASE IsBooked(days, r)
      BY <3>5, <3>6 DEF IsBooked
    <3>7. CASE ~IsBooked(days, r)
      BY <2>2, <3>2, <3>7 DEF SettledBy
    <3> QED BY <3>6, <3>7
  <2>3. ASSUME NEW f \in LogFile \ cut, NEW p \in {0, 1, 2}, NEW i \in 1 .. logFiles[<<f, p>>].off
        PROVE  SettledBy(days', log[f], i, scan.since)
    <3>1. SettledBy(days, log[f], i, scan.since) /\ logFiles[<<f, p>>].off <= Len(log[f])
      BY DEF AllSettled
    <3>2. PICK o \in Nat, n \in Nat : o = logFiles[<<f, p>>].off /\ n = Len(log[f])
      <4>1. Len(log[f]) \in Nat
        BY LinesAre
      <4> QED BY <4>1, <1>b
    <3>3. i \in 1 .. n
      BY <2>3, <3>1, <3>2
    <3> QED BY <2>2, <3>1, <3>2, <3>3
  <2> QED BY <2>1, <2>3 DEF AllSettled
<1>6. ASSUME NEW f \in LogFile, Visit(f) PROVE AllSettled'
  <2> DEFINE k == Key(f, scan.root)
  <2>1. UNCHANGED <<log, cut>> /\ scan'.since = scan.since /\ \A q \in Keys : q # k => logFiles'[q] = logFiles[q]
    BY <1>6, VisitBooks DEF tools, UsageTypes, Scans
  <2>2. \A r \in Req : IsBooked(days, r) => IsBooked(days', r)
    BY <1>6, BookedStays
  <2>3. ASSUME NEW h \in LogFile \ cut, NEW p \in {0, 1, 2}, NEW i \in 1 .. logFiles[<<h, p>>].off
        PROVE  SettledBy(days', log[h], i, scan.since)
    <3>1. SettledBy(days, log[h], i, scan.since) /\ logFiles[<<h, p>>].off <= Len(log[h])
      BY DEF AllSettled
    <3>2. PICK o \in Nat, n \in Nat : o = logFiles[<<h, p>>].off /\ n = Len(log[h])
      <4>1. Len(log[h]) \in Nat
        BY LinesAre
      <4> QED BY <4>1, <1>b
    <3>3. i \in 1 .. n
      BY <2>3, <3>1, <3>2
    <3>4. log[h][i].req \in Req
      BY <3>2, <3>3, <1>l
    <3> QED BY <2>2, <3>1, <3>4 DEF SettledBy
  <2>4. ASSUME NEW h \in LogFile \ cut, NEW p \in {0, 1, 2}, logFiles'[<<h, p>>].off = logFiles[<<h, p>>].off
        PROVE  /\ logFiles'[<<h, p>>].off <= Len(log[h])
               /\ \A i \in 1 .. logFiles'[<<h, p>>].off : SettledBy(days', log[h], i, scan.since)
    BY <2>3, <2>4 DEF AllSettled
  <2>5. ASSUME NEW p \in {0, 1, 2}, <<f, p>> = k, f \notin cut
        PROVE  /\ logFiles'[<<f, p>>].off <= Len(log[f])
               /\ \A i \in 1 .. logFiles'[<<f, p>>].off : SettledBy(days', log[f], i, scan.since)
    <3> DEFINE old == logFiles[<<f, p>>]
    <3>0. <<f, p>> \in Keys /\ old.off <= Len(log[f])
      BY <2>5, <1>b DEF AllSettled
    <3>1. PICK o \in Nat, n \in Nat, q \in Nat : o = old.off /\ n = Len(log[f]) /\ q = Len(partial[f])
      <4>1. Len(log[f]) \in Nat /\ Len(partial[f]) \in Nat
        BY LinesAre
      <4> QED BY <4>1, <1>b
    <3>2. ~(Size(f) < old.off)
      <4>1. Size(f) = n + q
        BY <3>1, FromIs
      <4>2. o <= n
        BY <3>0, <3>1
      <4>3. ~(n + q < o)
        BY <4>2
      <4> QED BY <3>1, <4>1, <4>3
    <3>3. From(f).off = old.off /\ From(f).prev = old.prev
      BY <2>5, <3>2, FromIs
    <3> HIDE DEF old
    <3>4. CASE PassedBy(f)
      <4>1. logFiles' = logFiles
        BY <1>6, <3>4 DEF Visit, counts
      <4> QED BY <2>4, <2>5, <4>1
    <3>5. CASE ~PassedBy(f)
      <4>1. From(f).off <= Len(log[f])
        BY <3>0, <3>3 DEF old
      <4>2. /\ logFiles' = [logFiles EXCEPT ![k] = [off |-> Len(log[f]), prev |-> Got(f).prev, known |-> TRUE]]
            /\ days' = Got(f).days
        BY <1>6, <3>5, <4>1 DEF Visit
      <4>3. logFiles'[<<f, p>>].off = Len(log[f])
        BY <2>5, <3>0, <4>2 DEF UsageTypes
      <4>4. \A i \in (From(f).off + 1) .. Len(log[f]) : SettledBy(Got(f).days, log[f], i, scan.since)
        BY <2>5, <3>3, <4>1, VisitSettles DEF old
      <4>5. \A i \in 1 .. n : i \in 1 .. o \/ i \in (o + 1) .. n
        OBVIOUS
      <4>6. \A i \in 1 .. n : SettledBy(days', log[f], i, scan.since)
        BY <2>3, <2>5, <3>1, <3>3, <4>2, <4>4, <4>5 DEF old
      <4>7. n <= n
        OBVIOUS
      <4> QED BY <3>1, <4>3, <4>6, <4>7
    <3> QED BY <3>4, <3>5
  <2>6. ASSUME NEW h \in LogFile \ cut, NEW p \in {0, 1, 2}
        PROVE  /\ logFiles'[<<h, p>>].off <= Len(log[h])
               /\ \A i \in 1 .. logFiles'[<<h, p>>].off : SettledBy(days', log[h], i, scan.since)
    <3>1. CASE <<h, p>> = k
      <4>1. h = f
        BY <3>1, KeysAre DEF Key
      <4> QED BY <2>5, <2>6, <3>1, <4>1
    <3>2. CASE <<h, p>> # k
      <4>1. logFiles'[<<h, p>>] = logFiles[<<h, p>>]
        BY <2>1, <3>2, <1>b
      <4> QED BY <2>4, <4>1
    <3> QED BY <3>1, <3>2
  <2> HIDE DEF k
  <2> QED BY <2>1, <2>6 DEF AllSettled
<1> QED BY <1>2, <1>3, <1>4, <1>5, <1>6, StepIs

(* A calm scan has read to the end every log it has passed.                *)
LEMMA SeenKept ==
    ASSUME UsageAssumption, UsageTypes, LinesKnown, AllSettled, SeenToTheEnd, UsageNext
    PROVE  SeenToTheEnd'
<1>0. UsageTypes'
  BY TypesKept
<1>b. \A f \in LogFile, p \in {0, 1, 2} : <<f, p>> \in Keys /\ logFiles[<<f, p>>].off \in Nat
  BY KeysAre DEF UsageTypes, LogRecord
<1>p. \A f \in LogFile : place[f] \in {0, 1, 2}
  BY DEF UsageTypes
<1>1. ASSUME scan'.calm = FALSE, scan'.on = scan.on, scan'.root = scan.root, scan'.left = scan.left PROVE SeenToTheEnd'
  BY <1>1 DEF SeenToTheEnd
<1>2. ASSUME NEW f \in LogFile, NEW g \in LogFile, ToolStep(f, g) PROVE SeenToTheEnd'
  BY <1>1, <1>2, ToolsLeave
<1>3. CASE Midnight
  <2>1. scan' = [scan EXCEPT !.calm = FALSE]
    BY <1>3 DEF Midnight, Stir
  <2> QED BY <1>1, <2>1 DEF UsageTypes, Scans
<1>4. CASE handleAgentUsage
  <2>1. /\ UNCHANGED <<tools, counts>>
        /\ scan'.on = TRUE /\ scan'.root = 1 /\ scan'.left = {f \in LogFile : place[f] = 1}
    BY <1>4 DEF handleAgentUsage
  <2>2. UNCHANGED place
    BY <2>1 DEF tools
  <2>3. \A f \in LogFile : ~Seen(f)'
    <3>1. \A f \in LogFile : place[f] # 0 /\ place[f] <= 1 => place[f] = 1
      BY <1>p
    <3> QED BY <2>1, <2>2, <3>1 DEF Seen
  <2> QED BY <2>1, <2>2, <2>3 DEF SeenToTheEnd
<1>5. CASE NextRoot
  <2>1. /\ UNCHANGED <<tools, counts>> /\ scan.on /\ scan.left = {} /\ scan.root = 1
        /\ scan'.on = scan.on /\ scan'.root = 2 /\ scan'.left = {f \in LogFile : place[f] = 2}
        /\ scan'.calm = scan.calm /\ scan'.since = scan.since
    BY <1>5 DEF NextRoot, UsageTypes, Scans
  <2>2. UNCHANGED <<place, codex, log, logFiles, touched, cut>>
    BY <2>1 DEF tools, counts
  <2>3. \A f \in LogFile : Seen(f)' => Seen(f)
    <3>1. \A f \in LogFile : place[f] # 0 /\ place[f] # 2 => place[f] <= 1
      BY <1>p
    <3> QED BY <2>1, <2>2, <3>1 DEF Seen
  <2>4. \A f \in LogFile : Key(f, place[f])' = Key(f, place[f])
    BY <2>2 DEF Key
  <2>5. scan.calm => \A f \in LogFile \ cut : Seen(f)' => logFiles'[Key(f, place[f])'].off = Len(log'[f]) \/ touched'[f] < scan'.since
    BY <2>1, <2>2, <2>3, <2>4 DEF SeenToTheEnd
  <2> QED BY <2>1, <2>2, <2>5 DEF SeenToTheEnd, Key
<1>6. CASE ScanEnds
  <2>1. /\ UNCHANGED <<tools, logFiles>> /\ scan.on /\ scan.left = {} /\ scan.root = 2
        /\ scan'.on = FALSE /\ scan'.root = 0 /\ scan'.left = {}
        /\ scan'.calm = scan.calm /\ scan'.since = scan.since
    BY <1>6 DEF ScanEnds, UsageTypes, Scans
  <2>2. UNCHANGED <<place, codex, log, logFiles, touched, cut>>
    BY <2>1 DEF tools
  <2>3. \A f \in LogFile : Seen(f)' => Seen(f)
    <3>1. \A f \in LogFile : place[f] <= 2
      BY <1>p
    <3> QED BY <2>1, <2>2, <3>1 DEF Seen
  <2>5. scan.calm => \A f \in LogFile \ cut : Seen(f)' => logFiles'[Key(f, place[f])'].off = Len(log'[f]) \/ touched'[f] < scan'.since
    <3>1. \A f \in LogFile : Key(f, place[f])' = Key(f, place[f])
      BY <2>2 DEF Key
    <3> QED BY <2>1, <2>2, <2>3, <3>1 DEF SeenToTheEnd
  <2> QED BY <2>1, <2>2, <2>5 DEF SeenToTheEnd, Key
<1>7. ASSUME NEW f \in LogFile, Visit(f) PROVE SeenToTheEnd'
  <2> DEFINE k == Key(f, scan.root)
  <2>1. /\ UNCHANGED tools /\ f \in scan.left /\ scan' = [scan EXCEPT !.left = @ \ {f}]
        /\ \A q \in Keys : q # k => logFiles'[q] = logFiles[q]
    BY <1>7, VisitBooks DEF Visit
  <2>2. /\ UNCHANGED <<place, codex, log, touched, cut>> /\ scan'.on = scan.on /\ scan'.root = scan.root
        /\ scan'.left = scan.left \ {f} /\ scan'.calm = scan.calm /\ scan'.since = scan.since
    BY <2>1 DEF tools, UsageTypes, Scans
  <2>3. scan.on
    BY <2>1 DEF SeenToTheEnd
  <2>4. ASSUME scan.calm, NEW h \in LogFile \ cut, Seen(h)'
        PROVE  logFiles'[Key(h, place[h])].off = Len(log[h]) \/ touched[h] < scan.since
    <3>1. CASE h # f
      <4>1. Seen(h)
        BY <2>2, <2>4, <3>1 DEF Seen
      <4>2. Key(h, place[h]) \in Keys /\ Key(h, place[h]) # k
        BY <3>1, <1>p, <1>b DEF Key
      <4> QED BY <2>1, <2>4, <4>1, <4>2 DEF SeenToTheEnd
    <3>2. CASE h = f
      <4>1. place[f] = scan.root
        BY <2>1, <2>4 DEF SeenToTheEnd
      <4> DEFINE old == logFiles[k]
      <4>2. old.off <= Len(log[f]) /\ k \in Keys
        <5>1. PICK p \in {0, 1, 2} : k = <<f, p>>
          BY <4>1, <1>p DEF Key
        <5> QED BY <2>4, <3>2, <5>1, <1>b DEF AllSettled
      <4>3. From(f).off = old.off
        <5>1. PICK o \in Nat, n \in Nat, q \in Nat : o = old.off /\ n = Len(log[f]) /\ q = Len(partial[f])
          <6>1. Len(log[f]) \in Nat /\ Len(partial[f]) \in Nat
            BY LinesAre
          <6>2. old.off \in Nat
            BY <4>2 DEF UsageTypes, LogRecord
          <6> QED BY <6>1, <6>2
        <5>2. Size(f) = n + q
          BY <5>1, FromIs
        <5>3. o <= n
          BY <4>2, <5>1
        <5>4. ~(n + q < o)
          BY <5>3
        <5>5. ~(Size(f) < old.off)
          BY <5>1, <5>2, <5>4
        <5> QED BY <5>5, FromIs
      <4> HIDE DEF old
      <4>4. CASE PassedBy(f)
        BY <3>2, <4>1, <4>4 DEF PassedBy
      <4>5. CASE ~PassedBy(f)
        <5>1. From(f).off <= Len(log[f])
          BY <4>2, <4>3
        <5>2. logFiles' = [logFiles EXCEPT ![k] = [off |-> Len(log[f]), prev |-> Got(f).prev, known |-> TRUE]]
          BY <1>7, <4>5, <5>1 DEF Visit
        <5>3. logFiles'[k].off = Len(log[f])
          BY <4>2, <5>2 DEF UsageTypes
        <5> QED BY <3>2, <4>1, <5>3
      <4> QED BY <4>4, <4>5
    <3> QED BY <3>1, <3>2
  <2>5. scan.calm => \A h \in scan'.left : place[h] = scan.root
    BY <2>2 DEF SeenToTheEnd
  <2>6. scan'.on /\ scan'.root \in {1, 2}
    BY <2>2, <2>3 DEF SeenToTheEnd
  <2> HIDE DEF k
  <2> QED BY <2>2, <2>4, <2>5, <2>6 DEF SeenToTheEnd, Key
<1> QED BY <1>2, <1>3, <1>4, <1>5, <1>6, <1>7, StepIs

(* A rollout's requests are booked once, a transcript's where they are seen. *)
Counted == /\ codex => OnceIn(days)
           /\ ~codex => SeenIs(days, bookedOn)

(* The bookings stay single.                                               *)
LEMMA CountedKept ==
    ASSUME UsageAssumption, UsageTypes, LinesKnown, codex => Owned /\ PrevTells, Counted, UsageNext
    PROVE  Counted'
<1>a. \A r \in Req : bookedOn[r] \in 0 .. MaxDay
  BY DEF UsageTypes
<1>b. \A d \in Day, r \in Req : days[d][r] \in Nat
  BY DEF UsageTypes, Counts
<1>c. MaxDay \in Nat /\ scan.since \in Nat /\ scan.since >= 1
  BY DEF UsageAssumption, UsageTypes, Scans, Day
<1>1. ASSUME UNCHANGED <<days, bookedOn, codex>> PROVE Counted'
  BY <1>1 DEF Counted
<1>2. ASSUME NEW f \in LogFile, NEW g \in LogFile, ToolStep(f, g) PROVE Counted'
  BY <1>1, <1>2, ToolsLeave DEF counts
<1>3. CASE Midnight \/ handleAgentUsage \/ NextRoot
  BY <1>1, <1>3 DEF Midnight, handleAgentUsage, NextRoot, counts, tools
<1>4. CASE ScanEnds
  <2>1. /\ codex' = codex
        /\ days' = [d \in Day |-> IF d < scan.since THEN [r \in Req |-> 0] ELSE days[d]]
        /\ bookedOn' = [r \in Req |-> IF bookedOn[r] < scan.since THEN 0 ELSE bookedOn[r]]
    BY <1>4 DEF ScanEnds, tools
  <2>2. \A d \in Day, r \in Req : days'[d][r] = IF d < scan.since THEN 0 ELSE days[d][r]
    BY <2>1
  <2>3. CASE codex
    <3>1. OnceIn(days)
      BY <2>3 DEF Counted
    <3>2. OnceIn(days')
      BY <2>2, <3>1, <1>b DEF OnceIn
    <3> QED BY <2>1, <2>3, <3>2 DEF Counted
  <2>4. CASE ~codex
    <3>1. SeenIs(days, bookedOn)
      BY <2>4 DEF Counted
    <3>2. SeenIs(days', bookedOn')
      <4> SUFFICES ASSUME NEW r \in Req, NEW d \in Day
                   PROVE  days'[d][r] = IF bookedOn'[r] = d THEN 1 ELSE 0
        BY DEF SeenIs
      <4>1. days[d][r] = IF bookedOn[r] = d THEN 1 ELSE 0
        BY <3>1 DEF SeenIs
      <4>2. bookedOn'[r] = IF bookedOn[r] < scan.since THEN 0 ELSE bookedOn[r]
        BY <2>1
      <4>3. d \in Nat /\ d # 0 /\ bookedOn[r] \in Nat
        BY <1>a, <1>c DEF Day
      <4> QED BY <2>2, <4>1, <4>2, <4>3, <1>c
    <3> QED BY <2>1, <2>4, <3>2 DEF Counted
  <2> QED BY <2>3, <2>4
<1>5. ASSUME NEW f \in LogFile, Visit(f) PROVE Counted'
  <2>0. codex' = codex
    BY <1>5 DEF Visit, tools
  <2>1. CASE PassedBy(f) \/ ~(From(f).off <= Len(log[f]))
    <3>1. UNCHANGED <<days, bookedOn>>
      BY <1>5, <2>1 DEF Visit, counts
    <3> QED BY <1>1, <2>0, <3>1
  <2>2. CASE ~PassedBy(f) /\ From(f).off <= Len(log[f])
    <3>1. days' = Got(f).days /\ bookedOn' = Got(f).seen
      BY <1>5, <2>2 DEF Visit
    <3>2. CASE codex
      <4>1. Ordered(log[f]) /\ Tells(days, From(f).prev, log[f], From(f).off) /\ OnceIn(days)
        BY <2>2, <3>2, RolloutAhead DEF Owned, Counted
      <4>2. OnceIn(days')
        BY <2>2, <3>1, <3>2, <4>1, GotIs
      <4> QED BY <2>0, <3>2, <4>2 DEF Counted
    <3>3. CASE ~codex
      <4>1. SeenIs(days, bookedOn)
        BY <3>3 DEF Counted
      <4>2. SeenIs(days', bookedOn')
        BY <2>2, <3>1, <3>3, <4>1, GotIs
      <4> QED BY <2>0, <3>3, <4>2 DEF Counted
    <3> QED BY <3>2, <3>3
  <2> QED BY <2>1, <2>2
<1> QED BY <1>2, <1>3, <1>4, <1>5, StepIs

(* The invariant holds at first, over every step, and says what is wanted. *)
LEMMA UsageInvInit ==
    ASSUME UsageAssumption, UsageInit
    PROVE  UsageInv
<1>0. 1 \in Day /\ 0 \in 0 .. MaxAsked /\ 0 \in 0 .. MaxDay /\ usageSince = 1
  BY DEF UsageAssumption, UsageInit, Day, usageSince
<1>1. <<>> \in Seq(Lines) /\ Range(<<>>) = {} /\ Len(<<>>) = 0
  BY DEF Range
<1>2. /\ log \in [LogFile -> Seq(Lines)] /\ partial \in [LogFile -> Seq(Lines)]
      /\ \A f \in LogFile : log[f] = <<>> /\ partial[f] = <<>>
  BY <1>1 DEF UsageInit
<1>3. NoFile \in LogRecord
  BY <1>0 DEF NoFile, LogRecord
<1>4. logFiles \in [Keys -> LogRecord] /\ \A q \in Keys : logFiles[q] = NoFile
  BY <1>3 DEF UsageInit
<1>5. days \in Counts /\ \A d \in Day, r \in Req : days[d][r] = 0
  BY DEF UsageInit, Counts
<1>6. scan \in Scans /\ scan.on = FALSE /\ scan.left = {} /\ scan.calm = FALSE /\ scan.since = 1
  BY <1>0 DEF UsageInit, NoScan, Scans
<1>7. UsageTypes
  BY <1>0, <1>2, <1>4, <1>5, <1>6 DEF UsageInit, UsageTypes
<1>8. \A f \in LogFile : Whole(f) = {} /\ Being(f) = {}
  BY <1>1, <1>2 DEF Whole, Being
<1>z. \A q \in Keys : logFiles[q].off = 0 /\ logFiles[q].prev = 0
  BY <1>4 DEF NoFile
<1>y. \A f \in LogFile, p \in {0, 1, 2} : <<f, p>> \in Keys
  BY DEF Keys, Root
<1>9. LinesKnown
  <2>1. \A k \in Keys : logFiles[k].prev <= requests
    BY <1>4 DEF UsageInit, NoFile
  <2>2. \A f \in LogFile : touched[f] <= day
    BY DEF UsageInit
  <2>3. \A f \in LogFile : Len(partial[f]) <= 1
    BY <1>1, <1>2
  <2> QED BY <1>0, <1>2, <1>6, <1>8, <2>1, <2>2, <2>3 DEF LinesKnown
<1>e. \A i \in 1 .. 0 : FALSE
  OBVIOUS
<1>n. \A r \in Req : ~IsBooked(days, r)
  BY <1>5 DEF IsBooked
<1>10. FirstIsOldest
  <2>1. BeginOldest(log, days)
    BY <1>1, <1>2, <1>e DEF BeginOldest
  <2> QED BY <1>8, <1>n, <2>1 DEF FirstIsOldest
<1>11. AllSettled
  <2>1. \A f \in LogFile, p \in {0, 1, 2} : logFiles[<<f, p>>].off = 0
    BY <1>y, <1>z
  <2>2. \A f \in LogFile : 0 <= Len(log[f])
    <3>1. 0 <= Len(<<>>)
      OBVIOUS
    <3> QED BY <1>2, <3>1
  <2>3. \A f \in LogFile, p \in {0, 1, 2} : logFiles[<<f, p>>].off <= Len(log[f])
    BY <2>1, <2>2
  <2>4. \A f \in LogFile, p \in {0, 1, 2} : \A i \in 1 .. logFiles[<<f, p>>].off : FALSE
    BY <1>e, <2>1
  <2> QED BY <2>3, <2>4 DEF AllSettled
<1>12. SeenToTheEnd
  BY <1>6 DEF SeenToTheEnd
<1>13. Owned
  <2>1. Ordered(<<>>)
    BY <1>1, <1>e DEF Ordered
  <2> QED BY <1>2, <1>8, <2>1 DEF Owned
<1>14. PrevTells
  <2>1. \A f \in LogFile : logFiles[<<f, 0>>].off = 0 /\ logFiles[<<f, 0>>].prev = 0
    BY <1>y, <1>z
  <2>2. ASSUME NEW e PROVE FileTells(<<>>, <<>>, days, e)
    BY <1>1, <1>e DEF FileTells
  <2> QED BY <1>2, <2>1, <2>2 DEF PrevTells
<1>15. OnceIn(days) /\ SeenIs(days, bookedOn)
  <2>1. OnceIn(days)
    BY <1>5 DEF OnceIn
  <2>2. \A r \in Req : bookedOn[r] = 0
    BY DEF UsageInit
  <2>3. \A d \in Day : d # 0
    BY DEF Day
  <2> QED BY <1>5, <2>1, <2>2, <2>3 DEF SeenIs
<1> QED BY <1>7, <1>9, <1>10, <1>11, <1>12, <1>13, <1>14, <1>15 DEF UsageInv

LEMMA UsageInvStep ==
    ASSUME UsageAssumption, UsageInv, [UsageNext]_usageVars
    PROVE  UsageInv'
<1>1. CASE UNCHANGED usageVars
  <2>1. /\ UNCHANGED <<codex, day, log, partial, place, touched, requests, logMoves, cut>>
        /\ UNCHANGED <<logFiles, days, bookedOn, scan>>
    BY <1>1 DEF usageVars, tools, counts
  <2>2. UsageTypes' /\ LinesKnown' /\ AllSettled' /\ SeenToTheEnd'
    BY <2>1 DEF UsageInv, UsageTypes, LinesKnown, AllSettled, SeenToTheEnd, Whole, Being, usageSince, Seen, Key
  <2>3. FirstIsOldest'
    BY <2>1 DEF UsageInv, FirstIsOldest, Whole, Being, Repeats, Begins
  <2>4. (codex => Owned /\ PrevTells /\ OnceIn(days))'
    BY <2>1 DEF UsageInv, Owned, PrevTells, Whole, Being
  <2>5. (~codex => SeenIs(days, bookedOn))'
    BY <2>1 DEF UsageInv
  <2> QED BY <2>2, <2>3, <2>4, <2>5 DEF UsageInv
<1>2. CASE UsageNext
  <2>1. /\ UsageTypes /\ LinesKnown /\ FirstIsOldest /\ AllSettled /\ SeenToTheEnd
        /\ (codex => Owned /\ PrevTells /\ OnceIn(days)) /\ (~codex => SeenIs(days, bookedOn)) /\ Counted
    BY DEF UsageInv, Counted
  <2>2. UsageTypes' /\ codex' = codex
    <3>1. UsageTypes'
      BY <1>2, <2>1, TypesKept
    <3>2. codex' = codex
      <4>1. ASSUME NEW f \in LogFile, NEW g \in LogFile, ToolStep(f, g) PROVE codex' = codex
        BY <2>1, <4>1, ToolsLeave
      <4>2. Midnight \/ handleAgentUsage \/ NextRoot \/ ScanEnds => codex' = codex
        BY DEF Midnight, handleAgentUsage, NextRoot, ScanEnds, tools
      <4>3. ASSUME NEW f \in LogFile, Visit(f) PROVE codex' = codex
        BY <4>3 DEF Visit, tools
      <4> QED BY <1>2, <4>1, <4>2, <4>3, StepIs
    <3> QED BY <3>1, <3>2
  <2>3. LinesKnown'
    BY <1>2, <2>1, KnownKept
  <2>4. FirstIsOldest'
    BY <1>2, <2>1, FirstKept
  <2>5. AllSettled'
    BY <1>2, <2>1, SettledKept
  <2>6. SeenToTheEnd'
    BY <1>2, <2>1, SeenKept
  <2>7. Counted'
    BY <1>2, <2>1, CountedKept
  <2>8. codex => Owned' /\ PrevTells'
    <3>1. ASSUME codex PROVE Owned' /\ PrevTells'
      BY <1>2, <2>1, <3>1, OwnedKept, PrevKept
    <3> QED BY <3>1
  <2> QED BY <2>2, <2>3, <2>4, <2>5, <2>6, <2>7, <2>8 DEF UsageInv, Counted
<1> QED BY <1>1, <1>2

LEMMA InvCounts ==
    ASSUME UsageAssumption, UsageInv
    PROVE  EachCountedOnce
<1>0. /\ UsageTypes /\ LinesKnown /\ AllSettled /\ SeenToTheEnd
      /\ codex \/ ~codex
  BY DEF UsageInv
<1>b. \A d \in Day, r \in Req : days[d][r] \in Nat
  BY <1>0 DEF UsageTypes, Counts
<1>1. OnceIn(days)
  <2>1. CASE codex
    BY <2>1 DEF UsageInv
  <2>2. CASE ~codex
    <3>1. SeenIs(days, bookedOn)
      BY <2>2 DEF UsageInv
    <3>2. \A r \in Req, d \in Day : days[d][r] <= 1 /\ (days[d][r] > 0 => bookedOn[r] = d)
      BY <3>1 DEF SeenIs
    <3> QED BY <3>2 DEF OnceIn
  <2> QED BY <2>1, <2>2
<1>2. ASSUME NEW r \in Req PROVE BookedOnce(r)
  <2> DEFINE D == {d \in Day : days[d][r] > 0}
  <2>1. Cardinality(D) <= 1
    <3>1. CASE D = {}
      BY <3>1, FS_EmptySet
    <3>2. CASE D # {}
      <4>1. PICK d \in D : TRUE
        BY <3>2
      <4>2. D = {d}
        BY <4>1, <1>1 DEF OnceIn
      <4> HIDE DEF D
      <4>3. Cardinality(D) = 1
        BY <4>2, FS_Singleton
      <4> QED BY <4>3
    <3> QED BY <3>1, <3>2
  <2>2. \A d \in Day : days[d][r] <= 1
    BY <1>1 DEF OnceIn
  <2> QED BY <2>1, <2>2 DEF BookedOnce
<1>3. ASSUME NEW r \in Req, ~scan.on, scan.calm, LinesOf(r) # {},
             \A p \in LinesOf(r) : log[p[1]][p[2]].day >= scan.since /\ p[1] \notin cut
      PROVE  \E d \in Day : days[d][r] = 1
  <2>1. \A f \in LogFile : \A i \in 1 .. Len(log[f]) : log[f][i].req = r => <<f, i>> \in LinesOf(r)
    <3> SUFFICES ASSUME NEW f \in LogFile, NEW i \in 1 .. Len(log[f]), log[f][i].req = r PROVE <<f, i>> \in LinesOf(r)
      OBVIOUS
    <3>1. log[f] \in Seq(Lines)
      BY <1>0, LinesAre
    <3>2. i \in DOMAIN log[f]
      BY <3>1
    <3>3. <<f, i>> \in UNION {{g} \X DOMAIN log[g] : g \in LogFile}
      BY <3>2
    <3> QED BY <3>3 DEF LinesOf
  <2>2. PICK f \in LogFile : \E i \in 1 .. Len(log[f]) : log[f][i].req = r
    <3>1. PICK p \in LinesOf(r) : TRUE
      BY <1>3
    <3>2. PICK f \in LogFile : p \in {f} \X DOMAIN log[f]
      BY <3>1 DEF LinesOf
    <3>3. p[1] = f /\ p[2] \in DOMAIN log[f] /\ log[f][p[2]].req = r
      BY <3>1, <3>2 DEF LinesOf
    <3>4. log[f] \in Seq(Lines)
      BY <1>0, LinesAre
    <3>5. p[2] \in 1 .. Len(log[f])
      BY <3>3, <3>4
    <3> QED BY <3>3, <3>5
  <2>a. PICK i \in 1 .. Len(log[f]) : log[f][i].req = r
    BY <2>2
  <2>3. f \notin cut /\ log[f][i].day >= scan.since
    BY <1>3, <2>1, <2>2, <2>a
  <2>4. PICK n \in Nat : n = Len(log[f])
    BY <1>0, LinesAre
  <2>5. log[f] # <<>>
    <3>1. Len(<<>>) = 0
      OBVIOUS
    <3>2. \A j \in 1 .. 0 : FALSE
      OBVIOUS
    <3> QED BY <2>2, <2>a, <3>1, <3>2
  <2>6. place[f] \in {1, 2}
    BY <1>0, <2>5 DEF LinesKnown, UsageTypes
  <2>7. Seen(f)
    BY <1>3, <2>6 DEF Seen
  <2>8. ~(touched[f] < scan.since)
    <3>1. log[f][i] \in Whole(f) /\ log[f][i].day \in Nat
      BY <1>0, <2>2, <2>a, LinesAre
    <3>2. log[f][i].day <= touched[f]
      BY <1>0, <3>1 DEF LinesKnown
    <3>3. touched[f] \in Nat /\ scan.since \in Nat
      BY <1>0 DEF UsageTypes, Scans, Day
    <3> QED BY <2>3, <3>1, <3>2, <3>3
  <2>9. logFiles[Key(f, place[f])].off = Len(log[f])
    BY <1>0, <1>3, <2>3, <2>7, <2>8 DEF SeenToTheEnd
  <2>10. PICK p \in {0, 1, 2} : Key(f, place[f]) = <<f, p>>
    BY <2>6 DEF Key
  <2>11. SettledBy(days, log[f], i, scan.since)
    BY <1>0, <2>2, <2>a, <2>3, <2>9, <2>10 DEF AllSettled
  <2>12. CASE IsBooked(days, r)
    <3>1. PICK d \in Day : days[d][r] > 0
      BY <2>12 DEF IsBooked
    <3>2. days[d][r] <= 1 /\ days[d][r] \in Nat
      BY <1>1, <1>b DEF OnceIn
    <3>3. days[d][r] = 1
      BY <3>1, <3>2
    <3> QED BY <3>3
  <2>13. CASE ~IsBooked(days, r)
    <3>1. PICK j \in 1 .. i : log[f][j].req = r /\ log[f][j].day < scan.since
      BY <2>2, <2>a, <2>11, <2>13 DEF SettledBy
    <3>2. j \in 1 .. Len(log[f])
      BY <2>2, <2>a, <2>4
    <3>3. log[f][j].day >= scan.since
      BY <1>3, <2>1, <3>1, <3>2
    <3>4. log[f][j].day \in Nat /\ scan.since \in Nat
      BY <1>0, <3>2, LinesAre DEF UsageTypes, Scans, Day
    <3> QED BY <3>1, <3>3, <3>4
  <2> QED BY <2>12, <2>13
<1> QED BY <1>2, <1>3 DEF EachCountedOnce

(* The week's count is right, for any number of logs, lines, requests and  *)
(* days, whatever the tools write, repeat, archive or cut short while the  *)
(* folders are walked: no request is ever counted twice, and a scan that   *)
(* nothing disturbed has counted each one whose lines fall in the week     *)
(* (scan, read, claudeLine, codexLine of internal/server/agentusage.go).   *)
THEOREM UsageIsRight == UsageSpec => []EachCountedOnce
<1>1. UsageInit => UsageInv
  BY UsageInvInit, UsageAssumption
<1>2. UsageInv /\ [UsageNext]_usageVars => UsageInv'
  BY UsageInvStep, UsageAssumption
<1>3. UsageInv => EachCountedOnce
  BY InvCounts, UsageAssumption
<1> QED BY <1>1, <1>2, <1>3, PTL DEF UsageSpec
=============================================================================
