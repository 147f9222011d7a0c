---------------------------- MODULE InstallProofs ----------------------------
(***************************************************************************)
(* Install implements InstallPromise, for any set of apps, any number of   *)
(* releases, of runs cut short and of the owner's moves.                   *)
(*                                                                         *)
(* The heart is that whatever release stands in a folder is on record, in  *)
(* the manifest or in the plan (Recorded): then the promise's view of the  *)
(* apps is simply what stands there, and no write of the two records can   *)
(* change whose an app is.                                                 *)
(***************************************************************************)
EXTENDS Install, TLAPS

Bundle  == Release \cup {Absent}
Content == Bundle \cup {Owners, Half}
PCs    == {"idle", "prepare", "stage", "own", "plan", "place", "put", "unplan", "vms",
           "commit", "service", "stop", "remove", "disown", "clear", "removing", "forget"}
Run    == [op : {"none", "setup", "again", "update", "uninstall", "on", "off"}, pc : PCs,
           rel : Bundle, follow : BOOLEAN, m : [App -> Bundle], plan : SUBSET App,
           jobs : SUBSET App, moving : SUBSET App, old : Content]

TypeOK ==
    /\ latest \in Release
    /\ bin \in Bundle /\ helper \in Bundle /\ daemon \in Bundle
    /\ tree \in [App -> Content]
    /\ manifest \in [App -> Bundle] /\ pending \in [App -> Bundle]
    /\ moves \in Int /\ p \in Run
    /\ p.pc /= "idle" => p.rel \in Release

-----------------------------------------------------------------------------
Holds(a) == tree[a] \in Release          \* a folder with a release's app

(* What a release brought is on record.                                    *)
Recorded == \A a \in App : Holds(a) => tree[a] \in {manifest[a], pending[a]}

(* A record that does not exist lists nothing.                             *)
NoFileNoList ==
    /\ "manifest" \notin files => manifest = Blank
    /\ "pending" \notin files => pending = Blank

(* Where each kind of run may be, and what it has already staged.          *)
Staged ==
    /\ p.pc \in {"prepare", "stage", "commit"} => p.op \in {"setup", "update"}
    /\ p.pc \in {"own", "plan", "place", "put", "unplan"} => p.op \in {"setup", "update", "on"} /\ p.follow
    /\ p.pc = "vms" => p.op \in {"setup", "again"}
    /\ p.pc \in {"stop", "remove"} => p.op = "uninstall"
    /\ p.op \in {"setup", "update"} /\ p.pc \notin {"prepare", "stage"} => helper = p.rel

(* Without a record a run meets no app of a release's.                     *)
NoAppsToFollow ==
    p.pc \notin {"idle"} /\ p.op \in {"setup", "update", "uninstall"} /\ ~p.follow
        => \A a \in App : ~Holds(a)

(* What InstallApps has read and is about to do, at each of its places.    *)
Placing ==
    /\ p.pc = "plan" => \A a \in App : /\ p.m[a] = manifest[a]
                                       /\ Holds(a) => tree[a] = manifest[a]
    /\ p.pc \in {"place", "put"} =>
         \A a \in App : /\ Holds(a) => tree[a] = p.m[a]
                        /\ Holds(a) /\ a \notin p.jobs => tree[a] = p.rel
                        /\ a \in p.jobs => /\ pending[a] = p.rel
                                           /\ tree[a] \in Bundle
                                           /\ p.m[a] = manifest[a]
    /\ p.pc = "put" => \A a \in p.moving : /\ a \in p.jobs /\ tree[a] = Absent
                                           /\ p.old \in {Absent, manifest[a]}
    /\ p.pc = "unplan" => \A a \in App : Holds(a) => tree[a] = manifest[a]
    /\ p.pc \in {"unplan", "vms", "commit"} /\ p.op \in {"setup", "update"} =>
         \A a \in App : Holds(a) => tree[a] = p.rel

(* What RemoveApps has still to take away.                                 *)
Removing ==
    /\ p.pc \in {"clear", "removing"} =>
         \A a \in App : /\ Holds(a) => a \in p.jobs /\ tree[a] = p.m[a]
                        /\ a \in p.jobs => p.m[a] /= Absent
    /\ p.pc = "removing" => \A a \in p.moving : tree[a] = Half
    /\ p.pc = "forget" => \A a \in App : ~Holds(a)

-----------------------------------------------------------------------------
(* TypeOK is inductive by itself.                                          *)
LEMMA TypesKept == TypeOK /\ [Next]_vars => TypeOK'
<1> SUFFICES ASSUME TypeOK, [Next]_vars PROVE TypeOK'
  OBVIOUS
<1> USE ReleaseAssumption DEF TypeOK, Release, Absent, Owners, Half, Content, Bundle
<1>0. Idle \in Run /\ Idle.pc = "idle" /\ Blank \in [App -> Bundle]
  BY DEF Idle, Run, PCs, Blank
<1>1. CASE UNCHANGED vars
  BY <1>1 DEF vars
<1>2. ASSUME NEW op \in {"setup", "again", "update", "uninstall", "on", "off"}, NEW pc \in PCs,
             NEW rel \in Release, NEW follow \in BOOLEAN, Begin(op, pc, rel, follow)
      PROVE  TypeOK'
  <2>1. p' \in Run /\ p'.rel = rel
    BY <1>0, <1>2 DEF Begin, Run
  <2> QED BY <1>2, <2>1 DEF Begin, disk
<1>3. CASE runSetup \/ cmdUpdate \/ runUninstall \/ extraOn \/ extraOff
  BY <1>2, <1>3 DEF runSetup, cmdUpdate, runUninstall, extraOn, extraOff, PCs, AppsTracked
<1>4. ASSUME NEW pc \in PCs, Go(pc), ~At("idle") PROVE p' \in Run /\ (p'.pc /= "idle" => p'.rel \in Release)
  BY <1>4 DEF Go, At, Run
<1>5. CASE prepareBinary \/ Cleared
  BY <1>4, <1>5 DEF prepareBinary, Cleared, At, disk, PCs
<1>6. CASE stageRelease
  BY <1>4, <1>6 DEF stageRelease, At, PCs
<1>7. CASE ReadRecord
  <2>1. owned \in [App -> Bundle] /\ Listed(pending) \in SUBSET App
    BY DEF owned, Listed
  <2> QED BY <1>7, <2>1 DEF ReadRecord, At, Run, PCs
<1>8. CASE WritePlan
  BY <1>8 DEF WritePlan, At, Run, PCs
<1>9. ASSUME NEW a \in App, MoveAside(a) PROVE TypeOK'
  BY <1>9 DEF MoveAside, At, Run, PCs
<1>10. ASSUME NEW a \in App, PutInPlace(a) PROVE TypeOK'
  BY <1>10 DEF PutInPlace, At, Run, PCs
<1>11. ASSUME NEW a \in App, PutBack(a) PROVE TypeOK'
  BY <1>0, <1>11 DEF PutBack, At, Run
<1>12. ASSUME NEW a \in App, RemoveApp(a) PROVE TypeOK'
  <2>1. p.pc = "clear" /\ tree' \in [App -> Content]
    BY <1>12 DEF RemoveApp, At
  <2>2. CASE tree[a] = p.m[a]
    <3>1. p' = [p EXCEPT !.pc = "removing", !.moving = {a}]
      BY <1>12, <2>2 DEF RemoveApp
    <3>2. p' \in Run /\ p'.rel = p.rel
      BY <3>1 DEF Run, PCs
    <3> QED BY <1>12, <2>1, <3>2 DEF RemoveApp
  <2>3. CASE tree[a] /= p.m[a]
    <3>1. p' = [p EXCEPT !.jobs = @ \ {a}]
      BY <1>12, <2>3 DEF RemoveApp
    <3>2. p' \in Run /\ p'.rel = p.rel
      BY <3>1 DEF Run
    <3> QED BY <1>12, <2>1, <3>2 DEF RemoveApp
  <2> QED BY <2>2, <2>3
<1>22. ASSUME NEW a \in App, RemoveRest(a) PROVE TypeOK'
  BY <1>22 DEF RemoveRest, At, Run, PCs
<1>13. ASSUME NEW a \in App, OwnerMoves(a) PROVE TypeOK'
  BY <1>13 DEF OwnerMoves
<1>14. CASE SaveRecord
  BY <1>4, <1>14 DEF SaveRecord, At, Run, PCs
<1>15. CASE DropPlan
  BY <1>0, <1>4, <1>15 DEF DropPlan, At, PCs
<1>16. CASE runPlan \/ stopService \/ RemoveBinary
  BY <1>4, <1>16 DEF runPlan, stopService, RemoveBinary, At, PCs
<1>17. CASE Commit
  BY <1>0, <1>4, <1>17 DEF Commit, At, PCs
<1>18. CASE startService \/ Forgotten \/ Stopped
  BY <1>0, <1>18 DEF startService, Forgotten, Stopped, disk
<1>19. CASE ListOwned
  <2>1. owned \in [App -> Bundle] /\ Listed(owned) \in SUBSET App
    BY DEF owned, Listed
  <2> QED BY <1>19, <2>1 DEF ListOwned, At, Run, PCs, disk
<1>20. ASSUME NEW f \in files, ForgetApps(f) PROVE TypeOK'
  BY <1>0, <1>20 DEF ForgetApps
<1>21. CASE Publish \/ DaemonRestarts
  BY <1>21 DEF Publish, DaemonRestarts, disk
<1> QED BY <1>1, <1>3, <1>5, <1>6, <1>7, <1>8, <1>9, <1>10, <1>11, <1>12, <1>13, <1>14,
           <1>15, <1>16, <1>17, <1>18, <1>19, <1>20, <1>21, <1>22 DEF Next
-----------------------------------------------------------------------------
(* The records.  At "forget" nothing of a release stands any more; before  *)
(* that every list that replaces another covers what it covered.           *)
RecordInv == Recorded /\ NoFileNoList /\ Staged /\ NoAppsToFollow /\ Placing /\ Removing

LEMMA RecordsKept == TypeOK /\ TypeOK' /\ RecordInv /\ [Next]_vars => RecordInv'
<1> SUFFICES ASSUME TypeOK, TypeOK', RecordInv, [Next]_vars PROVE RecordInv'
  OBVIOUS
<1> USE DEF RecordInv, Recorded, NoFileNoList, Staged, NoAppsToFollow, Placing, Removing,
            Holds, Absent, Owners, Half
<1>0. /\ Idle.pc = "idle" /\ \A a \in App : Blank[a] = 0
      /\ 0 \notin Release /\ -1 \notin Release /\ -2 \notin Release
  BY ReleaseAssumption DEF Idle, Blank, Release
<1>t. /\ tree \in [App -> Bundle \cup {-1, -2}] /\ manifest \in [App -> Bundle]
      /\ pending \in [App -> Bundle] /\ p \in Run /\ (p.pc /= "idle" => p.rel \in Release)
      /\ Bundle = Release \cup {0}
  BY DEF TypeOK, Bundle, Content
<1>1. CASE UNCHANGED vars
  BY <1>1 DEF vars
<1>2. CASE runSetup \/ cmdUpdate \/ runUninstall \/ extraOn \/ extraOff
  <2>1. files = {} => \A a \in App : ~Holds(a)
    BY <1>0
  <2>2. ASSUME NEW op, NEW pc, NEW rel, NEW follow, Begin(op, pc, rel, follow)
        PROVE  /\ UNCHANGED <<helper, tree, manifest, pending, files>>
               /\ p'.op = op /\ p'.pc = pc /\ p'.follow = follow
    BY <2>2, <1>0 DEF Begin, disk, Idle
  <2>3. ASSUME NEW op \in {"setup", "update"}, NEW rel, NEW follow \in BOOLEAN,
               Begin(op, "prepare", rel, follow), follow \/ files = {}
        PROVE  RecordInv'
    BY <2>1, <2>2, <2>3
  <2>4. ASSUME NEW rel, Begin("again", "vms", rel, FALSE) PROVE RecordInv'
    <3>1. /\ p'.op = "again" /\ p'.pc = "vms"
          /\ UNCHANGED <<helper, tree, manifest, pending, files>>
      BY <2>2, <2>4
    <3> QED BY <3>1
  <2>5. ASSUME NEW rel, NEW follow \in BOOLEAN, follow \/ files = {},
               Begin("uninstall", "stop", rel, follow)
        PROVE  RecordInv'
    BY <2>1, <2>2, <2>5
  <2>6. ASSUME NEW rel, NEW follow \in BOOLEAN, follow, Begin("on", "own", rel, follow)
        PROVE  RecordInv'
    <3>1. /\ p'.op = "on" /\ p'.pc = "own" /\ p'.follow = follow
          /\ UNCHANGED <<helper, tree, manifest, pending, files>>
      BY <2>6, <1>0 DEF Begin, disk, Idle
    <3> QED BY <2>6, <3>1
  <2>7. ASSUME NEW rel, NEW follow \in BOOLEAN, follow, Begin("off", "disown", rel, follow)
        PROVE  RecordInv'
    <3>1. /\ p'.op = "off" /\ p'.pc = "disown" /\ p'.follow = follow
          /\ UNCHANGED <<helper, tree, manifest, pending, files>>
      BY <2>7, <1>0 DEF Begin, disk, Idle
    <3> QED BY <2>7, <3>1
  <2> QED BY <1>2, <2>3, <2>4, <2>5, <2>6, <2>7
          DEF runSetup, cmdUpdate, runUninstall, extraOn, extraOff, AppsTracked
<1>3. ASSUME NEW pc, Go(pc)
      PROVE  /\ p'.pc = pc /\ p'.op = p.op /\ p'.rel = p.rel /\ p'.follow = p.follow
             /\ p'.m = p.m /\ p'.jobs = p.jobs /\ p'.moving = p.moving /\ p'.old = p.old
  BY <1>3, <1>t DEF Go, Run
<1>4. CASE prepareBinary
  BY <1>3, <1>4 DEF prepareBinary, At, disk
<1>5. CASE Cleared
  BY <1>3, <1>5 DEF Cleared, At, disk
<1>6. CASE stageRelease
  BY <1>3, <1>6 DEF stageRelease, At
<1>7. CASE ReadRecord
  <2>1. /\ At("own") /\ p'.pc = "plan" /\ p'.m = owned /\ p'.op = p.op /\ p'.rel = p.rel
        /\ p'.follow = p.follow /\ UNCHANGED <<helper, tree, pending>>
    BY <1>7, <1>t DEF ReadRecord, Run
  <2>2. manifest' = owned /\ ("manifest" \in files' \/ manifest' = Blank)
        /\ ("pending" \in files => "pending" \in files')
    <3>1. CASE Listed(pending) /= {}
      BY <1>7, <3>1 DEF ReadRecord
    <3>2. CASE Listed(pending) = {}
      <4>1. manifest = owned
        BY <3>2, <1>t DEF owned, Listed
      <4> QED BY <1>7, <3>2, <4>1 DEF ReadRecord
    <3> QED BY <3>1, <3>2
  <2>3. \A a \in App : Holds(a) => tree[a] = owned[a]
    BY <1>0 DEF owned
  <2> QED BY <2>1, <2>2, <2>3, <1>t DEF At
<1>8. CASE WritePlan
  <2> DEFINE jobs == {a \in App : ToPlace(a)}
  <2>1. /\ At("plan") /\ p'.pc = "place" /\ p'.op = p.op /\ p'.rel = p.rel
        /\ p'.follow = p.follow /\ p'.jobs = jobs
        /\ \A a \in App : p'.m[a] = IF p.m[a] /= 0 /\ tree[a] = p.rel THEN p.rel ELSE p.m[a]
        /\ UNCHANGED <<helper, tree, manifest>>
    BY <1>8, <1>t DEF WritePlan, Run
  <2>2. /\ \A a \in jobs : pending'[a] = p.rel
        /\ "pending" \notin files' => pending' = Blank
        /\ "manifest" \notin files' => manifest' = Blank
    BY <1>8, <2>1 DEF WritePlan
  <2>3. ASSUME NEW a \in App
        PROVE  /\ Holds(a) => tree[a] = p'.m[a] /\ tree[a] = manifest[a]
               /\ Holds(a) /\ a \notin jobs => tree[a] = p.rel
               /\ a \in jobs => tree[a] \in Bundle /\ p'.m[a] = manifest[a]
    BY <2>1, <1>0, <1>t DEF ToPlace, At
  <2> QED BY <2>1, <2>2, <2>3 DEF At
<1>9. ASSUME NEW a \in App, MoveAside(a) PROVE RecordInv'
  <2>1. /\ At("place") /\ a \in p.jobs /\ p'.pc = "put" /\ p'.op = p.op /\ p'.rel = p.rel
        /\ p'.follow = p.follow /\ p'.m = p.m /\ p'.jobs = p.jobs
        /\ p'.moving = {a} /\ p'.old = tree[a]
        /\ tree' = [tree EXCEPT ![a] = 0]
        /\ UNCHANGED <<helper, manifest, pending, files>>
    BY <1>9, <1>t DEF MoveAside, Run
  <2>2. tree[a] \in {0, manifest[a]}
    BY <2>1, <1>t DEF At
  <2> QED BY <2>1, <2>2, <1>0, <1>t DEF At
<1>10. ASSUME NEW a \in App, PutInPlace(a) PROVE RecordInv'
  <2>1. /\ At("put") /\ p.moving = {a} /\ p'.pc = "place" /\ p'.op = p.op /\ p'.rel = p.rel
        /\ p'.follow = p.follow /\ p'.m = [p.m EXCEPT ![a] = p.rel] /\ p'.jobs = p.jobs \ {a}
        /\ tree' = [tree EXCEPT ![a] = p.rel]
        /\ UNCHANGED <<helper, manifest, pending, files>>
    BY <1>10, <1>t DEF PutInPlace, Run
  <2> QED BY <2>1, <1>0, <1>t DEF At, Run
<1>11. ASSUME NEW a \in App, PutBack(a) PROVE RecordInv'
  <2>1. /\ At("put") /\ p.moving = {a} /\ p'.pc = "idle"
        /\ tree' = [tree EXCEPT ![a] = p.old]
        /\ p'.op \notin {"setup", "update"}
        /\ UNCHANGED pending
        /\ \/ manifest' = p.m /\ files' = files \cup {"manifest"}
           \/ UNCHANGED <<manifest, files>>
    BY <1>11 DEF PutBack, Idle
  <2> QED BY <2>1, <1>0, <1>t DEF At, Run
<1>12. ASSUME NEW a \in App, RemoveApp(a) PROVE RecordInv'
  <2>1. /\ At("clear") /\ a \in p.jobs /\ p'.op = p.op /\ p'.rel = p.rel
        /\ p'.follow = p.follow /\ p'.m = p.m
        /\ UNCHANGED <<helper, manifest, pending, files>>
    BY <1>12, <1>t DEF RemoveApp, At, Run
  <2>2. CASE tree[a] = p.m[a]
    <3>1. /\ p'.pc = "removing" /\ p'.moving = {a} /\ p'.jobs = p.jobs
          /\ tree' = [tree EXCEPT ![a] = -2]
      BY <1>12, <2>2, <1>t DEF RemoveApp, Run
    <3> QED BY <2>1, <3>1, <1>0, <1>t DEF At
  <2>3. CASE tree[a] /= p.m[a]
    <3>1. p'.pc = p.pc /\ p'.jobs = p.jobs \ {a} /\ tree' = tree
      BY <1>12, <2>3, <1>t DEF RemoveApp, Run
    <3> QED BY <2>1, <2>3, <3>1, <1>0, <1>t DEF At
  <2> QED BY <2>2, <2>3
<1>21. ASSUME NEW a \in App, RemoveRest(a) PROVE RecordInv'
  <2>1. /\ At("removing") /\ p.moving = {a} /\ p'.pc = "clear" /\ p'.op = p.op
        /\ p'.rel = p.rel /\ p'.follow = p.follow /\ p'.m = p.m /\ p'.jobs = p.jobs \ {a}
        /\ tree' = [tree EXCEPT ![a] = 0]
        /\ UNCHANGED <<helper, manifest, pending, files>>
    BY <1>21, <1>t DEF RemoveRest, Run
  <2> QED BY <2>1, <1>0, <1>t DEF At
<1>13. ASSUME NEW a \in App, OwnerMoves(a) PROVE RecordInv'
  <2>1. /\ p.pc \notin {"place", "put", "removing"}
        /\ \E c \in {-1, 0} : tree' = [tree EXCEPT ![a] = c]
        /\ UNCHANGED <<helper, manifest, pending, files, p>>
    BY <1>13 DEF OwnerMoves
  <2> QED BY <2>1, <1>0, <1>t
<1>14. CASE SaveRecord
  <2>1. /\ At("place") /\ p.jobs = {} /\ manifest' = p.m /\ files' = files \cup {"manifest"}
        /\ Go("unplan") /\ UNCHANGED <<helper, tree, pending>>
    BY <1>14 DEF SaveRecord
  <2> QED BY <2>1, <1>3 DEF At
<1>15. CASE DropPlan
  <2>1. /\ At("unplan") /\ pending' = Blank /\ files' = files \ {"pending"}
        /\ UNCHANGED <<helper, tree, manifest>>
        /\ \/ p' = Idle
           \/ Go("vms") /\ p.op = "setup"
           \/ Go("commit") /\ p.op \notin {"setup", "on"}
    BY <1>15 DEF DropPlan
  <2>2. CASE p' = Idle
    BY <2>1, <2>2, <1>0 DEF At, Idle
  <2> QED BY <2>1, <2>2, <1>3 DEF At
<1>16. CASE runPlan
  BY <1>3, <1>16 DEF runPlan, At
<1>17. CASE Commit \/ startService \/ stopService \/ RemoveBinary \/ Forgotten \/ Stopped
  <2>1. p' = Idle \/ \/ Go("service") /\ At("commit")
                     \/ Go("remove") /\ At("stop")
                     \/ Go("disown") /\ At("remove")
                     \/ Go("forget") /\ At("remove") /\ ~p.follow
    BY <1>17 DEF Commit, startService, stopService, RemoveBinary, Forgotten, Stopped
  <2>2. UNCHANGED <<tree, manifest, pending, files>> /\ (p' = Idle \/ UNCHANGED helper)
    BY <1>17 DEF Commit, startService, stopService, RemoveBinary, Forgotten, Stopped, disk
  <2>3. CASE p' = Idle
    BY <2>2, <2>3, <1>0 DEF Idle
  <2>4. ASSUME NEW pc \in {"service", "remove", "disown", "forget"}, Go(pc), UNCHANGED helper,
               p.pc \in {"commit", "stop", "remove"}, pc = "remove" => At("stop"),
               pc = "disown" => At("remove"), pc = "forget" => At("remove") /\ ~p.follow
        PROVE  RecordInv'
    BY <2>2, <2>4, <1>3 DEF At
  <2> QED BY <2>1, <2>2, <2>3, <2>4 DEF At
<1>18. CASE ListOwned
  <2>1. /\ At("disown") /\ p'.pc = "clear" /\ p'.m = owned /\ p'.jobs = Listed(owned)
        /\ p'.op = p.op /\ p'.rel = p.rel /\ p'.follow = p.follow
        /\ UNCHANGED <<helper, tree, manifest, pending, files>>
    BY <1>18, <1>t DEF ListOwned, disk, Run
  <2>2. \A a \in App : /\ Holds(a) => tree[a] = owned[a] /\ a \in Listed(owned)
                       /\ a \in Listed(owned) => owned[a] /= 0
    BY <1>0 DEF owned, Listed
  <2> QED BY <2>1, <2>2 DEF At
<1>19. ASSUME NEW f \in files, ForgetApps(f) PROVE RecordInv'
  BY <1>19, <1>0 DEF ForgetApps, At
<1>20. CASE Publish \/ DaemonRestarts
  BY <1>20 DEF Publish, DaemonRestarts, disk
<1> QED BY <1>1, <1>2, <1>4, <1>5, <1>6, <1>7, <1>8, <1>9, <1>10, <1>11, <1>12, <1>13, <1>14,
           <1>15, <1>16, <1>17, <1>18, <1>19, <1>20, <1>21 DEF Next
-----------------------------------------------------------------------------
(* What the promise sees of the apps is what stands in their folders.      *)
LEMMA WhoseIsTree ==
    ASSUME TypeOK, Recorded PROVE [a \in App |-> Whose(a)] = tree
  BY DEF TypeOK, Recorded, Holds, Whose, Bundle, Content

(* So types and records hold in every reachable state.                     *)
LEMMA Invariant == Spec => [](TypeOK /\ RecordInv)
<1>1. Init => TypeOK /\ RecordInv
  BY ReleaseAssumption
  DEF Init, TypeOK, RecordInv, Recorded, NoFileNoList, Staged, NoAppsToFollow, Placing, Removing,
      Holds, Idle, Run, PCs, Bundle, Content, Release, Blank, Absent, Owners
<1>2. (TypeOK /\ RecordInv) /\ [Next]_vars => (TypeOK /\ RecordInv)'
  BY TypesKept, RecordsKept
<1> QED BY <1>1, <1>2, PTL DEF Spec

(* One step of an installer, of its failure or of the owner is one step of *)
(* the promise, or none.                                                   *)
LEMMA StepRefines ==
    ASSUME TypeOK, RecordInv, TypeOK', RecordInv', [Next]_vars
    PROVE  [Promise!Next]_(Promise!vars)
<1> DEFINE app == [a \in App |-> Whose(a)]
<1>0. /\ app = tree /\ app' = tree'
      /\ 0 \notin Release /\ -1 \notin Release /\ -2 \notin Release
      /\ Bundle = Release \cup {0} /\ Release = 1..MaxRelease
  BY WhoseIsTree, ReleaseAssumption DEF RecordInv, Recorded, Whose, Holds, TypeOK, Bundle,
      Content, Release, Absent, Owners, Half
<1>t. /\ tree \in [App -> Bundle \cup {-1, -2}] /\ p \in Run /\ (p.pc /= "idle" => p.rel \in Release)
  BY DEF TypeOK, Owners, Half, Content
<1> HIDE DEF app
<1>a. UNCHANGED <<tree, bin, helper, moves>> => UNCHANGED Promise!vars
  BY <1>0 DEF Promise!vars, app
<1>b. ASSUME NEW a \in App, NEW r \in Release, tree[a] \notin {-1, -2},
             tree' = [tree EXCEPT ![a] = r], UNCHANGED <<bin, helper, moves>>
      PROVE  Promise!Next
  BY <1>0, <1>b DEF Promise!Next, Promise!Place, Promise!Owner, Promise!Torn, Promise!Release, app
<1>c. ASSUME NEW a \in App, tree[a] /= -1,
             tree' = [tree EXCEPT ![a] = 0], UNCHANGED <<bin, helper, moves>>
      PROVE  Promise!Next
  BY <1>0, <1>c DEF Promise!Next, Promise!TakeAway, Promise!Owner, Promise!Nobody, app
<1>e. ASSUME NEW a \in App, tree[a] \in Release,
             tree' = [tree EXCEPT ![a] = -2], UNCHANGED <<bin, helper, moves>>
      PROVE  Promise!Next
  BY <1>0, <1>e DEF Promise!Next, Promise!BeginTakeAway, Promise!Torn, Promise!Release, app
<1>d. ASSUME NEW h \in Release \cup {0}, helper' = h, UNCHANGED <<tree, bin, moves>>
      PROVE  Promise!Next
  BY <1>0, <1>d DEF Promise!Next, Promise!Stage, Promise!Release, app
<1>1. CASE \/ UNCHANGED vars \/ runSetup \/ cmdUpdate \/ runUninstall \/ extraOn \/ extraOff
           \/ prepareBinary \/ ReadRecord \/ WritePlan \/ SaveRecord \/ DropPlan \/ runPlan
           \/ startService \/ stopService \/ ListOwned \/ Cleared \/ Stopped \/ Publish
           \/ DaemonRestarts \/ \E f \in files : ForgetApps(f)
  BY <1>1, <1>a DEF vars, disk, runSetup, cmdUpdate, runUninstall, extraOn, extraOff, Begin,
      prepareBinary, ReadRecord, WritePlan, SaveRecord, DropPlan, runPlan, startService,
      stopService, ListOwned, Cleared, Stopped, Publish, DaemonRestarts, ForgetApps
<1>2. CASE stageRelease
  BY <1>2, <1>t, <1>d DEF stageRelease, At
<1>3. ASSUME NEW a \in App, MoveAside(a) PROVE Promise!Next
  <2>1. /\ p.pc = "place" /\ a \in p.jobs /\ tree' = [tree EXCEPT ![a] = 0]
        /\ UNCHANGED <<bin, helper, moves>>
    BY <1>3 DEF MoveAside, At, Absent
  <2>2. tree[a] \in Bundle
    BY <2>1 DEF RecordInv, Placing
  <2>3. tree[a] /= -1
    BY <2>2, <1>0
  <2> QED BY <2>1, <2>3, <1>c
<1>4. ASSUME NEW a \in App, PutInPlace(a) PROVE Promise!Next
  <2>1. /\ p.pc = "put" /\ a \in p.moving /\ tree' = [tree EXCEPT ![a] = p.rel]
        /\ UNCHANGED <<bin, helper, moves>>
    BY <1>4 DEF PutInPlace, At
  <2>2. tree[a] = 0 /\ tree[a] \notin {-1, -2} /\ p.rel \in Release
    BY <2>1, <1>t DEF RecordInv, Placing, Absent
  <2> QED BY <2>1, <2>2, <1>b
<1>5. ASSUME NEW a \in App, PutBack(a) PROVE [Promise!Next]_(Promise!vars)
  <2>1. /\ tree[a] = 0 /\ p.old \in Bundle /\ tree' = [tree EXCEPT ![a] = p.old]
        /\ UNCHANGED <<bin, helper, moves>>
    BY <1>5, <1>t DEF PutBack, At, RecordInv, Placing, Absent, TypeOK, Bundle
  <2>2. CASE p.old = 0
    BY <2>1, <2>2, <1>t, <1>a
  <2>3. CASE p.old \in Release
    <3>1. tree[a] \notin {-1, -2}
      BY <2>1
    <3> QED BY <2>1, <2>3, <3>1, <1>b
  <2> QED BY <2>1, <2>2, <2>3, <1>0
<1>6. ASSUME NEW a \in App, RemoveApp(a) PROVE [Promise!Next]_(Promise!vars)
  <2>1. CASE tree[a] = p.m[a]
    <3>1. At("clear") /\ a \in p.jobs /\ p.m[a] \in Bundle
      BY <1>6, <1>t DEF RemoveApp, Run
    <3>2. tree[a] \in Release
      BY <2>1, <3>1, <1>0 DEF RecordInv, Removing, At, Absent
    <3>3. tree' = [tree EXCEPT ![a] = -2] /\ UNCHANGED <<bin, helper, moves>>
      BY <1>6, <2>1 DEF RemoveApp, Half
    <3> QED BY <3>2, <3>3, <1>e
  <2>2. CASE tree[a] /= p.m[a]
    BY <1>6, <2>2, <1>a DEF RemoveApp
  <2> QED BY <2>1, <2>2
<1>11. ASSUME NEW a \in App, RemoveRest(a) PROVE Promise!Next
  <2>1. tree[a] = -2 /\ tree[a] /= -1
    BY <1>11 DEF RemoveRest, RecordInv, Removing, At, Half
  <2>2. tree' = [tree EXCEPT ![a] = 0] /\ UNCHANGED <<bin, helper, moves>>
    BY <1>11 DEF RemoveRest, Absent
  <2> QED BY <2>1, <2>2, <1>c
<1>7. ASSUME NEW a \in App, OwnerMoves(a) PROVE Promise!Next
  BY <1>7, <1>0 DEF OwnerMoves, Promise!Next, Promise!OwnerMoves, Promise!Owner, Promise!Nobody,
      Owners, Absent, app
<1>8. CASE Commit
  <2>1. /\ p.rel \in Release /\ helper = p.rel
        /\ \A a \in App : tree[a] \in {0, -1, -2, p.rel}
    BY <1>8, <1>t, <1>0 DEF Commit, At, RecordInv, Staged, Placing, Holds
  <2> QED BY <1>8, <2>1, <1>0 DEF Commit, Promise!Next, Promise!Commit, Promise!Owner,
             Promise!Torn, Promise!Nobody, Promise!Release, app
<1>9. CASE RemoveBinary
  BY <1>9, <1>0 DEF RemoveBinary, Promise!Next, Promise!Uninstall, app
<1>10. CASE Forgotten
  BY <1>10, <1>a, <1>d DEF Forgotten
<1> QED BY <1>1, <1>2, <1>3, <1>4, <1>5, <1>6, <1>7, <1>8, <1>9, <1>10, <1>11 DEF Next

(* An install keeps its promise: however runs are cut short, an app is     *)
(* never changed or removed behind its owner's back, one that exe placed   *)
(* never passes for the owner's, and a release's binary goes in last.  Of  *)
(* an app whose removal was cut short a part is left, which exe leaves     *)
(* alone from then on.                                                     *)
THEOREM InstallKeepsPromise == Spec => KeepsPromise
<1>1. Init => Promise!Init
  BY DEF Init, Promise!Init, Promise!Nobody, Whose, Blank, Absent, Owners
<1>2. /\ TypeOK /\ RecordInv /\ (TypeOK /\ RecordInv)' /\ [Next]_vars
      => [Promise!Next]_(Promise!vars)
  BY StepRefines
<1> QED BY <1>1, <1>2, Invariant, PTL DEF Spec, KeepsPromise, Promise!Spec
=============================================================================
