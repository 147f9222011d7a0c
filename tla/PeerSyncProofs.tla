--------------------------- MODULE PeerSyncProofs ---------------------------
(* Theorems about PeerSync, for any set of nodes, any bodies, any bounds.  *)
EXTENDS PeerSyncHistory, TLAPS

OutcomeType ==
    [how : Writes \cup {"stale", "kept-live", "same", "kept-local", "buried"},
     body : Body, vec : Vec, loser : Body]

-----------------------------------------------------------------------------
(* Facts about the operators.                                              *)

(* MaxVec is a vector, above both of its arguments.                        *)
LEMMA MaxVecFacts ==
    ASSUME NEW x \in Vec, NEW y \in Vec
    PROVE  /\ MaxVec(x, y) \in Vec
           /\ vecLeq(x, MaxVec(x, y))
           /\ vecLeq(y, MaxVec(x, y))
           /\ \A o \in Node : MaxVec(x, y)[o] = x[o] \/ MaxVec(x, y)[o] = y[o]
  BY DEF MaxVec, Vec, vecLeq

(* resolveConcurrent yields one of the documented outcomes, at the maximum. *)
LEMMA ResolveType ==
    ASSUME NEW local \in ManEntry, NEW disk \in Body, NEW body \in Body, NEW max \in Vec
    PROVE  /\ resolveConcurrent(local, disk, body, max) \in OutcomeType
           /\ resolveConcurrent(local, disk, body, max).vec = max
           /\ resolveConcurrent(local, disk, body, max).how \notin {"stale", "applied"}
  BY ContentAssumption
  DEF resolveConcurrent, resolveLive, Outcome, OutcomeType, ManEntry, Body, Writes

(* What ApplyRemote decides is an outcome whose vector is at or above the   *)
(* local one and made of components of the two it compared.                *)
LEMMA DecideFacts ==
    ASSUME NEW local \in ManEntry, NEW disk \in Body, NEW vec \in Vec, NEW body \in Body
    PROVE  LET out == Decide(local, disk, vec, body)
           IN  /\ out \in OutcomeType
               /\ vecLeq(local.vec, out.vec)
               /\ \A o \in Node : out.vec[o] = local.vec[o] \/ out.vec[o] = vec[o]
  <1> DEFINE rv == [vec |-> vec, deleted |-> body = NoFile]
             max == MaxVec(local.vec, vec)
             out == Decide(local, disk, vec, body)
  <1>0. local.vec \in Vec
    BY DEF ManEntry
  <1>1. CASE SameVersion(local, rv) \/ Dominates(local, rv)
    <2>1. out = Outcome("stale", disk, local.vec, NoFile)
      BY <1>1 DEF Decide
    <2> QED
      BY <2>1, <1>0 DEF Outcome, OutcomeType, vecLeq, Vec, Body
  <1>2. CASE ~(SameVersion(local, rv) \/ Dominates(local, rv)) /\ Dominates(rv, local)
    <2>1. out = Outcome("applied", body, vec, NoFile)
      BY <1>2 DEF Decide
    <2>2. vecLeq(local.vec, vec)
      BY <1>2 DEF Dominates
    <2> QED
      BY <2>1, <2>2, <1>0 DEF Outcome, OutcomeType, Writes, Body
  <1>3. CASE ~(SameVersion(local, rv) \/ Dominates(local, rv)) /\ ~Dominates(rv, local)
    <2>1. out = resolveConcurrent(local, disk, body, max)
      BY <1>3 DEF Decide
    <2> QED
      BY <2>1, <1>0, MaxVecFacts, ResolveType
  <1> QED
    BY <1>1, <1>2, <1>3

-----------------------------------------------------------------------------
(* Type correctness.                                                       *)

(* A stamp leaves a manifest entry in which only the stamping node's own   *)
(* component has advanced, by one.                                         *)
LEMMA BumpFacts ==
    ASSUME TypeOK, NEW n \in Node, NEW c \in Body
    PROVE  /\ Bumped(n, c) \in ManEntry
           /\ Bumped(n, c).vec[n] = man[n].vec[n] + 1
           /\ \A o \in Node \ {n} : Bumped(n, c).vec[o] = man[n].vec[o]
           /\ Bumped(n, c).deleted = (c = NoFile)
  BY DEF TypeOK, Bumped, Entry, ManEntry, Vec

(* The local version ApplyRemote compares with.                            *)
LEMMA LocalFacts ==
    ASSUME TypeOK, NEW n \in Node
    PROVE  /\ Local(n) \in ManEntry
           /\ vecLeq(man[n].vec, Local(n).vec)
           /\ \A o \in Node \ {n} : Local(n).vec[o] = man[n].vec[o]
           /\ Unseen(n) => /\ Local(n).vec[n] = man[n].vec[n] + 1
                          /\ ~Local(n).deleted
  <1>1. file[n] \in Body /\ man[n] \in ManEntry
    BY DEF TypeOK
  <1>2. CASE Unseen(n)
    <2>1. Local(n) = Bumped(n, file[n])
      BY <1>2 DEF Local
    <2>2. man[n].vec \in Vec
      BY <1>1 DEF ManEntry
    <2>3. /\ Local(n) \in ManEntry
          /\ Local(n).vec[n] = man[n].vec[n] + 1
          /\ \A o \in Node \ {n} : Local(n).vec[o] = man[n].vec[o]
      BY <2>1, <1>1, BumpFacts
    <2>4. ~Local(n).deleted
      BY <2>1, <1>1, <1>2, BumpFacts DEF Unseen
    <2>5. vecLeq(man[n].vec, Local(n).vec)
      <3> SUFFICES ASSUME NEW o \in Node PROVE man[n].vec[o] <= Local(n).vec[o]
        BY DEF vecLeq
      <3>1. man[n].vec[o] \in Nat
        BY <2>2 DEF Vec
      <3> QED
        BY <2>3, <3>1
    <2> QED
      BY <2>3, <2>4, <2>5
  <1>3. CASE ~Unseen(n)
    BY <1>1, <1>3 DEF Local, vecLeq, ManEntry, Vec
  <1> QED
    BY <1>2, <1>3

(* The first half of ApplyRemote keeps the types of what it changes.       *)
LEMMA BeginApplyType ==
    ASSUME TypeOK, NEW n \in Node, NEW vec \in Vec, NEW body \in Body,
           NEW by \in {"push", "reconcile"}, BeginApply(n, vec, body, by)
    PROVE  /\ man' \in [Node -> ManEntry]
           /\ clean' \in [Node -> BOOLEAN]
           /\ pend' \in [Node -> Pending \cup {NoApply}]
           /\ saved' \in [Node -> SUBSET Content]
           /\ dropped' \in SUBSET Content /\ faults' \in 0..MaxFaults
           /\ UNCHANGED <<file, reading, net, todo, dav, edits>>
  <1> DEFINE out == Decide(Local(n), file[n], vec, body)
             new == [how |-> out.how, body |-> out.body, vec |-> out.vec, by |-> by,
                     step |-> IF out.how \in Writes THEN "write" ELSE "record"]
  <1>1. Local(n) \in ManEntry /\ file[n] \in Body
    BY LocalFacts DEF TypeOK
  <1>2. out \in OutcomeType
    BY <1>1, DecideFacts
  <1>3. man' \in [Node -> ManEntry]
    BY <1>1 DEF BeginApply, TypeOK
  <1>4. clean' \in [Node -> BOOLEAN]
    BY DEF BeginApply, TypeOK, Unseen
  <1>5. /\ saved' \in [Node -> SUBSET Content]
        /\ dropped' \in SUBSET Content /\ faults' \in 0..MaxFaults
    <2>1. {out.loser} \ {NoFile} \in SUBSET Content
      BY <1>2 DEF OutcomeType, Body
    <2>2. backupConflict(n, out.loser)
      BY DEF BeginApply
    <2> HIDE DEF out
    <2> QED
      BY <2>1, <2>2, BoundAssumption DEF backupConflict, Fault, TypeOK
  <1>6. pend' \in [Node -> Pending \cup {NoApply}]
    <2>1. pend' = IF out.how = "stale" THEN pend ELSE [pend EXCEPT ![n] = new]
      BY DEF BeginApply
    <2>2. out.how # "stale" => new \in Pending
      BY <1>2 DEF OutcomeType, Pending
    <2> QED
      BY <2>1, <2>2 DEF TypeOK
  <1> QED
    BY <1>3, <1>4, <1>5, <1>6 DEF BeginApply
(* An apply made by the reconcile loop has its reconcile waiting for it:   *)
(* what makes EndApply's use of rec[n] meaningful.                         *)
ReconcileWaits ==
    \A n \in Node :
        (pend[n] # NoApply /\ pend[n].by = "reconcile") => rec[n].st = "applying"

(* Every action keeps the types: one step per action.                      *)
LEMMA TypeStep == TypeOK /\ ReconcileWaits /\ [Next]_vars => TypeOK'
  <1> SUFFICES ASSUME TypeOK, ReconcileWaits, [Next]_vars PROVE TypeOK'
    OBVIOUS
  <1> USE ContentAssumption, BoundAssumption
  <1> DEFINE Goal ==
        /\ file' \in [Node -> Body]
        /\ man' \in [Node -> ManEntry]
        /\ clean' \in [Node -> BOOLEAN]
        /\ pend' \in [Node -> Pending \cup {NoApply}]
        /\ saved' \in [Node -> SUBSET Content]
        /\ dropped' \in SUBSET Content
        /\ jobs' \in SUBSET (Node \X Node)
        /\ reading' \in SUBSET [from : Node, to : Node, vec : Vec]
        /\ net' \in SUBSET [to : Node, vec : Vec, body : Body]
        /\ rec' \in [Node -> DiffStage \cup FetchStage \cup {Idle}]
        /\ todo' \in [Node -> SUBSET Node]
        /\ dav' \in [Node -> {"none", "written", "removed"}]
        /\ edits' \in 0..MaxEdits
        /\ faults' \in 0..MaxFaults
  <1>1. ASSUME NEW n \in Node, NEW c \in Body, file'[n] \in Body, StampAndPush(n, c)
        PROVE  /\ man' \in [Node -> ManEntry] /\ clean' \in [Node -> BOOLEAN]
               /\ jobs' \in SUBSET (Node \X Node)
    BY <1>1, BumpFacts DEF StampAndPush, TypeOK, PushAll, Peers
  <1>2. ASSUME NEW k, Edit(k) PROVE edits' \in 0..MaxEdits
    BY <1>2 DEF Edit, TypeOK
  <1>3. ASSUME Fault PROVE faults' \in 0..MaxFaults
    BY <1>3 DEF Fault, TypeOK
  <1>4. ASSUME NEW n \in Node, NEW c \in Saves, ApiWrite(n, c) PROVE Goal
    <2> DEFINE w == IF file[n] \in Docs /\ c \in Docs THEN Guard(file[n], c) ELSE c
    <2>1. w \in Content
      OBVIOUS
    <2>2. file' = [file EXCEPT ![n] = w] /\ file' \in [Node -> Body]
      BY <1>4, <2>1 DEF ApiWrite, TypeOK, Body
    <2>3. /\ man' \in [Node -> ManEntry] /\ clean' \in [Node -> BOOLEAN]
          /\ jobs' \in SUBSET (Node \X Node)
      <3>1. CASE StampAndPush(n, w)
        BY <2>1, <2>2, <3>1, <1>1 DEF Body
      <3>2. CASE clean' = [clean EXCEPT ![n] = FALSE] /\ UNCHANGED <<man, jobs>>
        BY <3>2 DEF TypeOK
      <3> QED
        BY <1>4, <3>1, <3>2 DEF ApiWrite
    <2> QED
      BY <1>4, <1>2, <2>2, <2>3 DEF ApiWrite, TypeOK
  <1>5. ASSUME NEW n \in Node, ApiDelete(n) PROVE Goal
    <2>1. file' \in [Node -> Body]
      BY <1>5 DEF ApiDelete, TypeOK, Body
    <2> QED
      BY <1>5, <1>1, <1>2, <2>1 DEF ApiDelete, TypeOK, Body
  <1>6. ASSUME NEW n \in Node, NEW c \in Saves \cup {NoFile}, DirectEdit(n, c) PROVE Goal
    BY <1>6, <1>2 DEF DirectEdit, TypeOK, Body
  <1>7. ASSUME NEW n \in Node, NEW c \in Saves \cup {NoFile}, DavChange(n, c) PROVE Goal
    BY <1>7, <1>2 DEF DavChange, TypeOK, Body
  <1>8. ASSUME NEW n \in Node, DavChanged(n) PROVE Goal
    <2>1. /\ man' \in [Node -> ManEntry] /\ clean' \in [Node -> BOOLEAN]
          /\ jobs' \in SUBSET (Node \X Node)
      BY <1>8, <1>1 DEF DavChanged, TypeOK, Body
    <2> QED
      BY <1>8, <2>1 DEF DavChanged, TypeOK
  <1>9. ASSUME NEW n \in Node, Scan(n) PROVE Goal
    <2>1. /\ man' \in [Node -> ManEntry] /\ clean' \in [Node -> BOOLEAN]
          /\ jobs' \in SUBSET (Node \X Node)
      <3>0. Absent \in ManEntry
        BY DEF Absent, ManEntry, Zero, Vec
      <3>1. CASE \E c \in Body : StampAndPush(n, c)
        BY <1>9, <1>1, <3>1 DEF Scan, scanRoot, TypeOK
      <3>2. CASE UNCHANGED <<man, clean, jobs>>
        BY <3>2 DEF TypeOK
      <3>3. CASE /\ man' = IF Unshared(n) THEN [man EXCEPT ![n] = Absent] ELSE man
                 /\ clean' = [clean EXCEPT ![n] = @ /\ ~Unshared(n)]
                 /\ UNCHANGED jobs
        BY <3>0, <3>3 DEF TypeOK, Unshared
      <3> QED
        BY <1>9, <3>1, <3>2, <3>3 DEF Scan, scanRoot, TypeOK, Body
    <2> QED
      BY <1>9, <2>1 DEF Scan, scanRoot, TypeOK, Peers
  <1>10. ASSUME NEW n \in Node, NEW p \in Node, PushVersion(n, p) PROVE Goal
    <2>1. man[n].vec \in Vec
      BY DEF TypeOK, ManEntry
    <2>2. /\ reading' \in SUBSET [from : Node, to : Node, vec : Vec]
          /\ net' \in SUBSET [to : Node, vec : Vec, body : Body]
      BY <1>10, <2>1 DEF PushVersion, Message, TypeOK, Body
    <2> QED
      BY <1>10, <2>2 DEF PushVersion, TypeOK
  <1>11. ASSUME NEW r \in reading, PushBody(r) PROVE Goal
    <2>1. r \in [from : Node, to : Node, vec : Vec]
      BY DEF TypeOK
    <2>2. net' \in SUBSET [to : Node, vec : Vec, body : Body]
      BY <1>11, <2>1 DEF PushBody, Message, TypeOK
    <2> QED
      BY <1>11, <2>2 DEF PushBody, TypeOK
  <1>12. ASSUME NEW m \in net, Receive(m) PROVE Goal
    <2>1. m.to \in Node /\ m.vec \in Vec /\ m.body \in Body
      BY DEF TypeOK
    <2> QED
      BY <1>12, <2>1, BeginApplyType DEF Receive, TypeOK
  <1>13. ASSUME NEW n \in Node, ApplyWrite(n) PROVE Goal
    <2>1. pend[n] \in Pending
      BY <1>13 DEF ApplyWrite, TypeOK
    <2>2. [pend[n] EXCEPT !.step = "record"] \in Pending
      BY <2>1 DEF Pending
    <2> QED
      BY <1>13, <2>1, <2>2 DEF ApplyWrite, TypeOK, Pending
  <1>14. ASSUME NEW n \in Node, NEW owed \in SUBSET (Node \X Node), pend[n] # NoApply,
                EndApply(n, owed)
         PROVE  /\ pend' \in [Node -> Pending \cup {NoApply}]
                /\ rec' \in [Node -> DiffStage \cup FetchStage \cup {Idle}]
                /\ jobs' \in SUBSET (Node \X Node)
    <2>1. pend[n].by = "reconcile" => rec[n] \in FetchStage
      BY <1>14 DEF ReconcileWaits, TypeOK, DiffStage, Idle
    <2> QED
      BY <1>14, <2>1 DEF EndApply, TypeOK, FetchStage
  <1>15. ASSUME NEW n \in Node, ApplyFails(n) PROVE Goal
    BY <1>15, <1>14, <1>3 DEF ApplyFails, TypeOK
  <1>16. ASSUME NEW n \in Node, Record(n) PROVE Goal
    <2>1. pend[n] \in Pending
      BY <1>16 DEF Record, TypeOK
    <2>2. [vec |-> pend[n].vec, deleted |-> Tombstone(pend[n]),
           big |-> ~Tombstone(pend[n]) /\ file[n] \in Over] \in ManEntry
      BY <2>1 DEF Pending, ManEntry, Tombstone
    <2>3. man' \in [Node -> ManEntry] /\ clean' \in [Node -> BOOLEAN]
      BY <1>16, <2>2 DEF Record, TypeOK
    <2>4. /\ pend' \in [Node -> Pending \cup {NoApply}]
          /\ rec' \in [Node -> DiffStage \cup FetchStage \cup {Idle}]
          /\ jobs' \in SUBSET (Node \X Node)
      BY <1>16, <1>14 DEF Record, PushAll, Peers
    <2> QED
      BY <1>16, <2>3, <2>4 DEF Record, TypeOK
  <1>17. ASSUME NEW n \in Node, Restart(n), faults' \in 0..MaxFaults PROVE Goal
    BY <1>17 DEF Restart, TypeOK
  <1>18. ASSUME NEW n \in Node, RecordPanics(n) PROVE Goal
    BY <1>18 DEF RecordPanics, TypeOK
  <1>19. ASSUME NEW n \in Node, Dies(n) PROVE Goal
    <2>1. faults' \in 0..MaxFaults
      BY <1>19, <1>3 DEF Dies, Crash, LoopPanics, TypeOK
    <2> QED
      BY <1>19, <1>17, <2>1 DEF Dies, Crash, LoopPanics
  <1>20. ASSUME NEW n \in Node, NEW p \in Node, RecManifest(n, p) PROVE Goal
    <2>1. [st |-> "diff", peer |-> p, rv |-> ver(man[p])] \in DiffStage
      BY DEF DiffStage, ver, TypeOK, ManEntry
    <2> QED
      BY <1>20, <2>1 DEF RecManifest, fileUnchanged, TypeOK
  <1>21. ASSUME NEW n \in Node, NEW p \in Node, RecUnreachable(n, p) PROVE Goal
    BY <1>21, <1>3 DEF RecUnreachable, fileUnchanged, TypeOK
  <1>22. ASSUME NEW n \in Node, rec[n].st = "diff" PROVE rec[n] \in DiffStage
    BY <1>22 DEF TypeOK, FetchStage, Idle
  <1>23. ASSUME NEW n \in Node, rec[n].st \in {"ask", "read", "got", "applying"}
         PROVE  rec[n] \in FetchStage
    BY <1>23 DEF TypeOK, DiffStage, Idle
  <1>24. Zero \in Vec
    BY DEF Zero, Vec
  <1>25. ASSUME NEW n \in Node, RecDiff(n) PROVE Goal
    <2> DEFINE rv == rec[n].rv
               push == Dominates(ver(man[n]), rv) \/ Concurrent(ver(man[n]), rv)
               stage(st, vec) == [st |-> st, push |-> push, peer |-> rec[n].peer,
                                  vec |-> vec, body |-> NoFile]
    <2>1. rec[n] \in DiffStage
      BY <1>25, <1>22 DEF RecDiff
    <2>2. push \in BOOLEAN
      BY DEF Dominates, Concurrent
    <2>3. stage("got", rv.vec) \in FetchStage /\ stage("ask", Zero) \in FetchStage
      <3> HIDE DEF push
      <3> QED
        BY <1>24, <2>1, <2>2 DEF DiffStage, FetchStage, Body
    <2>4. rec' \in [Node -> DiffStage \cup FetchStage \cup {Idle}]
      <3>1. \/ rec' = [rec EXCEPT ![n] = Idle]
            \/ rec' = [rec EXCEPT ![n] = stage("got", rv.vec)]
            \/ rec' = [rec EXCEPT ![n] = stage("ask", Zero)]
        BY <1>25 DEF RecDiff
      <3> HIDE DEF stage
      <3> QED
        BY <2>3, <3>1 DEF TypeOK
    <2>5. jobs' \in SUBSET (Node \X Node)
      <3>1. jobs' = jobs \/ jobs' = jobs \cup {<<n, rec[n].peer>>}
        BY <1>25 DEF RecDiff
      <3> QED
        BY <2>1, <3>1 DEF DiffStage, TypeOK
    <2> QED
      BY <1>25, <2>4, <2>5 DEF RecDiff, fileUnchanged, TypeOK
  <1>26. ASSUME NEW n \in Node, RecPush(n), rec[n] \in FetchStage
         PROVE  /\ rec' \in [Node -> DiffStage \cup FetchStage \cup {Idle}]
                /\ jobs' \in SUBSET (Node \X Node)
    BY <1>26 DEF RecPush, TypeOK, FetchStage
  <1>27. ASSUME NEW n \in Node, NEW st \in {"read", "got", "applying"}, NEW vec \in Vec,
                NEW body \in Body, RecStage(n, st, vec, body), rec[n] \in FetchStage
         PROVE  rec' \in [Node -> DiffStage \cup FetchStage \cup {Idle}]
    BY <1>27 DEF RecStage, TypeOK, FetchStage
  <1>28. ASSUME NEW n \in Node, RecAsk(n) PROVE Goal
    <2>1. rec[n] \in FetchStage
      BY <1>28, <1>23 DEF RecAsk
    <2>2. man[rec[n].peer].vec \in Vec
      BY <2>1 DEF FetchStage, TypeOK, ManEntry
    <2>3. /\ rec' \in [Node -> DiffStage \cup FetchStage \cup {Idle}]
          /\ jobs' \in SUBSET (Node \X Node)
      BY <1>28, <1>26, <1>27, <2>1, <2>2 DEF RecAsk, TypeOK, Body
    <2> QED
      BY <1>28, <2>3 DEF RecAsk, fileUnchanged, TypeOK
  <1>29. ASSUME NEW n \in Node, RecRead(n) PROVE Goal
    <2>1. rec[n] \in FetchStage
      BY <1>29, <1>23 DEF RecRead
    <2>2. file[rec[n].peer] \in Body /\ rec[n].vec \in Vec
      BY <2>1 DEF FetchStage, TypeOK
    <2>3. /\ rec' \in [Node -> DiffStage \cup FetchStage \cup {Idle}]
          /\ jobs' \in SUBSET (Node \X Node)
      BY <1>29, <1>26, <1>27, <2>1, <2>2 DEF RecRead, TypeOK
    <2> QED
      BY <1>29, <2>3 DEF RecRead, fileUnchanged, TypeOK
  <1>30. ASSUME NEW n \in Node, FetchFails(n) PROVE Goal
    BY <1>30, <1>3, <1>23, <1>26 DEF FetchFails, fileUnchanged, TypeOK
  <1>31. ASSUME NEW n \in Node, RecApply(n) PROVE Goal
    <2>1. rec[n] \in FetchStage
      BY <1>31, <1>23 DEF RecApply
    <2>2. rec[n].vec \in Vec /\ rec[n].body \in Body
      BY <2>1 DEF FetchStage
    <2>3. /\ rec' \in [Node -> DiffStage \cup FetchStage \cup {Idle}]
          /\ jobs' \in SUBSET (Node \X Node)
      BY <1>31, <1>24, <1>26, <1>27, <2>1 DEF RecApply, TypeOK, Body
    <2> QED
      BY <1>31, <2>2, <2>3, BeginApplyType DEF RecApply, TypeOK
  <1>32. ASSUME UNCHANGED vars PROVE Goal
    BY <1>32 DEF vars, TypeOK
  <1>33. Goal
    <2> HIDE DEF Goal
    <2>1. CASE Step
      BY <1>4, <1>5, <1>6, <1>7, <1>8, <1>9, <1>10, <1>11, <1>12, <1>13, <1>15, <1>16,
         <1>18, <1>20, <1>21, <1>25, <1>28, <1>29, <1>30, <1>31, <2>1
      DEF Step, Loop, Apply
    <2> QED
      BY <1>19, <1>32, <2>1 DEF Next
  <1>34. /\ kept' \in [Node -> [entry : ManEntry, clean : BOOLEAN]]
         /\ unsaved' \in 0..MaxUnsaved
         /\ reverted' \in SUBSET Node
    <2>1. CASE saveLocked
      <3> DEFINE stamped == {n \in Node : man'[n] # man[n]}
                 intact(n) == IF n \in stamped THEN edits' = edits ELSE clean'[n]
                 left(n) == [kept[n] EXCEPT !.clean = @ /\ intact(n)]
                 new(n) == [entry |-> man'[n], clean |-> clean'[n]]
      <3>1. unsaved' \in 0..MaxUnsaved /\ reverted' \in SUBSET Node
        BY <2>1 DEF saveLocked, TypeOK
      <3>2. \/ kept' = [n \in Node |-> IF n \in stamped THEN new(n) ELSE left(n)]
            \/ kept' = [n \in Node |-> left(n)]
        BY <2>1 DEF saveLocked
      <3>3. ASSUME NEW n \in Node
            PROVE  new(n) \in [entry : ManEntry, clean : BOOLEAN]
        BY <1>33
      <3>4. ASSUME NEW n \in Node
            PROVE  left(n) \in [entry : ManEntry, clean : BOOLEAN]
        <4>1. intact(n) \in BOOLEAN
          BY <1>33
        <4> HIDE DEF intact
        <4> QED
          BY <4>1 DEF TypeOK
      <3> HIDE DEF left, new, stamped
      <3> QED
        BY <3>1, <3>2, <3>3, <3>4
    <2>2. ASSUME NEW n \in Node, Restart(n)
          PROVE  /\ kept' = kept /\ unsaved' = unsaved
                 /\ reverted' \in {reverted, reverted \cup {n}}
      BY <2>2 DEF Restart
    <2>3. CASE UNCHANGED vars
      BY <2>3 DEF vars, TypeOK
    <2> QED
      BY <2>1, <2>2, <2>3 DEF Next, Dies, Crash, LoopPanics, TypeOK
  <1> HIDE DEF Goal
  <1> QED
    BY <1>33, <1>34 DEF TypeOK, Goal

-----------------------------------------------------------------------------
(* The inductive invariant.                                                *)

(* What an apply is about to record is at or above what the manifest says: *)
(* fileMu keeps every Bump out between the decision and man.Apply.         *)
AppliesForward ==
    \A n \in Node : pend[n] # NoApply => vecLeq(man[n].vec, pend[n].vec)

(* The start of an apply, seen from outside: the manifest gets Local(n),   *)
(* the losing body is saved or dropped, and the outcome in progress, if    *)
(* any, is what Decide said.                                               *)
LEMMA BeginApplyFacts ==
    ASSUME TypeOK, NEW n \in Node, NEW vec \in Vec, NEW body \in Body,
           NEW by \in {"push", "reconcile"}, BeginApply(n, vec, body, by)
    PROVE  LET out == Decide(Local(n), file[n], vec, body)
           IN  /\ pend[n] = NoApply
               /\ man'[n] = Local(n)
               /\ \A k \in Node \ {n} : man'[k] = man[k] /\ pend'[k] = pend[k]
               /\ \A k \in Node : saved[k] \subseteq saved'[k]
               /\ dropped \subseteq dropped'
               /\ out.loser # NoFile => out.loser \in saved'[n] \cup dropped'
               /\ file' = file
               /\ \/ pend'[n] = NoApply
                  \/ /\ pend'[n].how = out.how /\ pend'[n].vec = out.vec
                     /\ pend'[n].body = out.body /\ pend'[n].by = by
                     /\ pend'[n].step = IF out.how \in Writes THEN "write" ELSE "record"
                     /\ out.how # "stale"
  BY DEF BeginApply, backupConflict, Fault, TypeOK

(* The only things a step does to n's manifest entry: a stamp on what is   *)
(* on disk (or a tombstone), man.Apply, DropUnshared, or LoadManifest on   *)
(* an older file.                                                          *)
LEMMA ManStep ==
    ASSUME TypeOK, [Next]_vars, NEW n \in Node
    PROVE  \/ man'[n] = man[n]
           \/ /\ pend[n] = NoApply
              /\ \E c \in Body : man'[n] = Bumped(n, c) /\ c \in {NoFile, file'[n]}
           \/ /\ pend[n] # NoApply /\ pend[n].step = "record"
              /\ man'[n].vec = pend[n].vec /\ man'[n].deleted = Tombstone(pend[n])
           \/ /\ pend[n] = NoApply /\ file[n] \in Over /\ Unshared(n)
              /\ man'[n] = Absent
           \/ /\ pend'[n] = NoApply /\ n \in reverted'
              /\ man'[n] = kept[n].entry
  <1> USE ContentAssumption
  <1> DEFINE Goal == \/ man'[n] = man[n]
                     \/ /\ pend[n] = NoApply
                        /\ \E c \in Body : man'[n] = Bumped(n, c) /\ c \in {NoFile, file'[n]}
                     \/ /\ pend[n] # NoApply /\ pend[n].step = "record"
                        /\ man'[n].vec = pend[n].vec /\ man'[n].deleted = Tombstone(pend[n])
                     \/ /\ pend[n] = NoApply /\ file[n] \in Over /\ Unshared(n)
                        /\ man'[n] = Absent
                     \/ /\ pend'[n] = NoApply /\ n \in reverted'
                        /\ man'[n] = kept[n].entry
  <1>1. ASSUME NEW k \in Node, NEW c \in Body, pend[k] = NoApply, StampAndPush(k, c),
               c \in {NoFile, file'[k]}
        PROVE  Goal
    BY <1>1 DEF StampAndPush, TypeOK
  <1>2. ASSUME NEW k \in Node, NEW c \in Saves, ApiWrite(k, c) PROVE Goal
    <2> DEFINE w == IF file[k] \in Docs /\ c \in Docs THEN Guard(file[k], c) ELSE c
    <2>1. w \in Body
      BY DEF Body
    <2>2. UNCHANGED man \/ StampAndPush(k, w)
      BY <1>2 DEF ApiWrite
    <2>3. pend[k] = NoApply /\ file'[k] = w
      BY <1>2 DEF ApiWrite, TypeOK
    <2> HIDE DEF w
    <2> QED
      BY <1>1, <2>1, <2>2, <2>3
  <1>3. ASSUME NEW k \in Node, ApiDelete(k) PROVE Goal
    BY <1>1, <1>3 DEF ApiDelete, Body
  <1>4. ASSUME NEW k \in Node, Scan(k) PROVE Goal
    <2>1. CASE \E c \in Body : StampAndPush(k, c) /\ c \in {NoFile, file[k]}
      BY <1>1, <1>4, <2>1 DEF Scan, scanRoot
    <2>2. CASE UNCHANGED man
      BY <2>2
    <2>3. CASE /\ file[k] \in Over
               /\ man' = IF Unshared(k) THEN [man EXCEPT ![k] = Absent] ELSE man
      BY <1>4, <2>3 DEF Scan, scanRoot, TypeOK
    <2> QED
      BY <1>4, <2>1, <2>2, <2>3 DEF Scan, scanRoot, TypeOK, Body
  <1>5. ASSUME NEW k \in Node, NEW vec \in Vec, NEW body \in Body,
               NEW by \in {"push", "reconcile"}, BeginApply(k, vec, body, by)
        PROVE  Goal
    <2>1. Local(k) = man[k] \/ \E c \in Body : Local(k) = Bumped(k, c) /\ c = file[k]
      BY DEF Local, TypeOK
    <2>2. file' = file
      BY <1>5 DEF BeginApply
    <2> QED
      BY <1>5, <2>1, <2>2, BeginApplyFacts
  <1>6. ASSUME NEW m \in net, Receive(m) PROVE Goal
    BY <1>5, <1>6 DEF Receive, TypeOK
  <1>7. ASSUME NEW k \in Node, RecApply(k) PROVE Goal
    <2>1. rec[k] \in FetchStage
      BY <1>7 DEF RecApply, TypeOK, DiffStage, Idle
    <2> QED
      BY <1>5, <1>7, <2>1 DEF RecApply, FetchStage
  <1>8. ASSUME NEW k \in Node, Record(k) PROVE Goal
    BY <1>8 DEF Record, TypeOK
  <1>9. ASSUME NEW k \in Node, DavChanged(k) PROVE Goal
    BY <1>9, <1>1 DEF DavChanged, Body, TypeOK
  <1>10. ASSUME NEW k \in Node, ApplyWrite(k) PROVE Goal
    BY <1>10 DEF ApplyWrite
  <1>11. ASSUME NEW k \in Node, RecordPanics(k) PROVE Goal
    BY <1>11 DEF RecordPanics
  <1>12. ASSUME NEW k \in Node, ApplyFails(k) PROVE Goal
    BY <1>12 DEF ApplyFails
  <1>13. ASSUME NEW k \in Node, Dies(k) PROVE Goal
    <2>1. Restart(k)
      BY <1>13 DEF Dies, Crash, LoopPanics
    <2> QED
      BY <2>1 DEF Restart, TypeOK
  <1>14. ASSUME NEW k \in Node, FetchFails(k) PROVE Goal
    BY <1>14 DEF FetchFails, fileUnchanged
  <1>15. ASSUME NEW k \in Node, RecDiff(k) PROVE Goal
    BY <1>15 DEF RecDiff, fileUnchanged
  <1>16. ASSUME NEW k \in Node, RecAsk(k) PROVE Goal
    BY <1>16 DEF RecAsk, fileUnchanged
  <1>17. ASSUME NEW k \in Node, RecRead(k) PROVE Goal
    BY <1>17 DEF RecRead, fileUnchanged
  <1>18. ASSUME NEW k \in Node, NEW p \in Node, RecManifest(k, p) PROVE Goal
    BY <1>18 DEF RecManifest, fileUnchanged
  <1>19. ASSUME NEW k \in Node, NEW p \in Node, RecUnreachable(k, p) PROVE Goal
    BY <1>19 DEF RecUnreachable, fileUnchanged
  <1>20. ASSUME NEW k \in Node, NEW p \in Node, PushVersion(k, p) PROVE Goal
    BY <1>20 DEF PushVersion
  <1>21. ASSUME NEW k \in Node, NEW c \in Saves \cup {NoFile}, DirectEdit(k, c) PROVE Goal
    BY <1>21 DEF DirectEdit
  <1>22. ASSUME NEW k \in Node, NEW c \in Saves \cup {NoFile}, DavChange(k, c) PROVE Goal
    BY <1>22 DEF DavChange
  <1>23. ASSUME NEW r \in reading, PushBody(r) PROVE Goal
    BY <1>23 DEF PushBody
  <1>24. CASE UNCHANGED vars
    BY <1>24 DEF vars
  <1> QED
    BY <1>2, <1>3, <1>4, <1>6, <1>7, <1>8, <1>9, <1>10, <1>11, <1>12, <1>13,
       <1>14, <1>15, <1>16, <1>17, <1>18, <1>19, <1>20, <1>21, <1>22, <1>23, <1>24
    DEF Next, Step, Loop, Apply

(* A reconcile that waits for its apply keeps waiting until the apply is   *)
(* over.                                                                   *)
LEMMA WaitsStep == TypeOK /\ ReconcileWaits /\ [Next]_vars => ReconcileWaits'
  <1> SUFFICES ASSUME TypeOK, ReconcileWaits, [Next]_vars PROVE ReconcileWaits'
    OBVIOUS
  <1>1. ASSUME NEW k \in Node, NEW c \in Saves, ApiWrite(k, c) PROVE ReconcileWaits'
    BY <1>1 DEF ApiWrite, ReconcileWaits
  <1>2. ASSUME NEW k \in Node, ApiDelete(k) PROVE ReconcileWaits'
    BY <1>2 DEF ApiDelete, ReconcileWaits
  <1>3. ASSUME NEW k \in Node, NEW c \in Saves \cup {NoFile}, DirectEdit(k, c) PROVE ReconcileWaits'
    BY <1>3 DEF DirectEdit, ReconcileWaits
  <1>4. ASSUME NEW k \in Node, NEW c \in Saves \cup {NoFile}, DavChange(k, c) PROVE ReconcileWaits'
    BY <1>4 DEF DavChange, ReconcileWaits
  <1>5. ASSUME NEW k \in Node, DavChanged(k) PROVE ReconcileWaits'
    BY <1>5 DEF DavChanged, ReconcileWaits
  <1>6. ASSUME NEW k \in Node, Scan(k) PROVE ReconcileWaits'
    BY <1>6 DEF Scan, scanRoot, ReconcileWaits
  <1>7. ASSUME NEW k \in Node, NEW p \in Node, PushVersion(k, p) PROVE ReconcileWaits'
    BY <1>7 DEF PushVersion, ReconcileWaits
  <1>8. ASSUME NEW r \in reading, PushBody(r) PROVE ReconcileWaits'
    BY <1>8 DEF PushBody, ReconcileWaits
  <1>9. ASSUME NEW m \in net, Receive(m) PROVE ReconcileWaits'
    <2>1. m.to \in Node /\ m.vec \in Vec /\ m.body \in Body
      BY DEF TypeOK
    <2> QED
      BY <1>9, <2>1, BeginApplyFacts DEF Receive, ReconcileWaits
  <1>10. ASSUME NEW k \in Node, ApplyWrite(k) PROVE ReconcileWaits'
    BY <1>10 DEF ApplyWrite, ReconcileWaits, TypeOK, NoApply
  <1>11. ASSUME NEW k \in Node, ApplyFails(k) PROVE ReconcileWaits'
    BY <1>11 DEF ApplyFails, EndApply, ReconcileWaits, TypeOK
  <1>12. ASSUME NEW k \in Node, Record(k) PROVE ReconcileWaits'
    BY <1>12 DEF Record, EndApply, ReconcileWaits, TypeOK
  <1>13. ASSUME NEW k \in Node, RecordPanics(k) PROVE ReconcileWaits'
    BY <1>13 DEF RecordPanics, ReconcileWaits, TypeOK
  <1>14. ASSUME NEW k \in Node, Dies(k) PROVE ReconcileWaits'
    BY <1>14 DEF Dies, Crash, LoopPanics, Restart, ReconcileWaits, TypeOK
  <1>15. ASSUME NEW k \in Node, NEW p \in Node, RecManifest(k, p) PROVE ReconcileWaits'
    BY <1>15 DEF RecManifest, fileUnchanged, ReconcileWaits, TypeOK, Idle
  <1>16. ASSUME NEW k \in Node, NEW p \in Node, RecUnreachable(k, p) PROVE ReconcileWaits'
    BY <1>16 DEF RecUnreachable, fileUnchanged, ReconcileWaits, TypeOK
  <1>17. ASSUME NEW k \in Node, RecDiff(k) PROVE ReconcileWaits'
    BY <1>17 DEF RecDiff, fileUnchanged, RecPush, RecStage, ReconcileWaits, TypeOK
  <1>18. ASSUME NEW k \in Node, RecAsk(k) PROVE ReconcileWaits'
    BY <1>18 DEF RecAsk, fileUnchanged, RecPush, RecStage, ReconcileWaits, TypeOK
  <1>19. ASSUME NEW k \in Node, RecRead(k) PROVE ReconcileWaits'
    BY <1>19 DEF RecRead, fileUnchanged, RecPush, RecStage, ReconcileWaits, TypeOK
  <1>20. ASSUME NEW k \in Node, FetchFails(k) PROVE ReconcileWaits'
    BY <1>20 DEF FetchFails, fileUnchanged, RecPush, RecStage, ReconcileWaits, TypeOK
  <1>21. ASSUME NEW k \in Node, RecApply(k) PROVE ReconcileWaits'
    <2>1. rec[k] \in FetchStage
      BY <1>21 DEF RecApply, TypeOK, DiffStage, Idle
    <2>2. pend[k] = NoApply /\ \A n \in Node \ {k} : pend'[n] = pend[n]
      BY <1>21, <2>1, BeginApplyFacts DEF RecApply, FetchStage
    <2>3. /\ pend'[k] # NoApply => rec'[k].st = "applying"
          /\ \A n \in Node \ {k} : rec'[n] = rec[n]
      BY <1>21, <2>1 DEF RecApply, RecStage, RecPush, TypeOK
    <2> QED
      BY <2>2, <2>3 DEF ReconcileWaits
  <1>22. CASE UNCHANGED vars
    BY <1>22 DEF vars, ReconcileWaits
  <1> QED
    BY <1>1, <1>2, <1>3, <1>4, <1>5, <1>6, <1>7, <1>8, <1>9, <1>10, <1>11, <1>12,
       <1>13, <1>14, <1>15, <1>16, <1>17, <1>18, <1>19, <1>20, <1>21, <1>22
    DEF Next, Step, Loop, Apply

(* Spec => []TypeOK, with ReconcileWaits as the strengthening that makes   *)
(* it inductive: EndApply reads rec[n].push, which only an "applying"      *)
(* stage is known to have.                                                 *)
LEMMA TypeInv == Spec => [](TypeOK /\ ReconcileWaits)
  <1>1. Init => TypeOK /\ ReconcileWaits
    BY ContentAssumption, BoundAssumption
    DEF Init, TypeOK, ReconcileWaits, Absent, Zero, ManEntry, Vec, Body, Idle, NoApply
  <1>2. TypeOK /\ ReconcileWaits /\ [Next]_vars => (TypeOK /\ ReconcileWaits)'
    BY TypeStep, WaitsStep
  <1> QED
    BY <1>1, <1>2, PTL DEF Spec

(* Every variable keeps its type in every behaviour of any mesh: vectors   *)
(* stay total, and an apply in progress is one of ApplyRemote's outcomes.  *)
THEOREM TypeCorrect == Spec => []TypeOK
  BY TypeInv, PTL

(* The only things a step does to n's disk and to n's apply: an apply      *)
(* begins on a request or on a fetched answer, writes, or ends; what else  *)
(* changes the file leaves the apply alone.  Backups are never removed.    *)
LEMMA DiskStep ==
    ASSUME TypeOK, [Next]_vars, NEW n \in Node
    PROVE  /\ saved[n] \subseteq saved'[n] /\ dropped \subseteq dropped'
           /\ \/ pend'[n] = pend[n]
              \/ pend'[n] = NoApply /\ file'[n] = file[n]
              \/ ApplyWrite(n)
              \/ \E m \in net : m.to = n /\ BeginApply(n, m.vec, m.body, "push")
              \/ rec[n].st = "got" /\ BeginApply(n, rec[n].vec, rec[n].body, "reconcile")
  <1> DEFINE Goal ==
        /\ saved[n] \subseteq saved'[n] /\ dropped \subseteq dropped'
        /\ \/ pend'[n] = pend[n]
           \/ pend'[n] = NoApply /\ file'[n] = file[n]
           \/ ApplyWrite(n)
           \/ \E m \in net : m.to = n /\ BeginApply(n, m.vec, m.body, "push")
           \/ rec[n].st = "got" /\ BeginApply(n, rec[n].vec, rec[n].body, "reconcile")
  <1>0. CASE UNCHANGED <<pend, saved, dropped>>
    BY <1>0
  <1>1. ASSUME NEW k \in Node, NEW c \in Saves, ApiWrite(k, c) PROVE Goal
    BY <1>1, <1>0 DEF ApiWrite
  <1>2. ASSUME NEW k \in Node, ApiDelete(k) PROVE Goal
    BY <1>2, <1>0 DEF ApiDelete
  <1>3. ASSUME NEW k \in Node, NEW c \in Saves \cup {NoFile}, DirectEdit(k, c) PROVE Goal
    BY <1>3, <1>0 DEF DirectEdit
  <1>4. ASSUME NEW k \in Node, NEW c \in Saves \cup {NoFile}, DavChange(k, c) PROVE Goal
    BY <1>4, <1>0 DEF DavChange
  <1>5. ASSUME NEW k \in Node, DavChanged(k) PROVE Goal
    BY <1>5, <1>0 DEF DavChanged
  <1>6. ASSUME NEW k \in Node, Scan(k) PROVE Goal
    BY <1>6, <1>0 DEF Scan, scanRoot
  <1>7. ASSUME NEW k \in Node, NEW p \in Node, PushVersion(k, p) PROVE Goal
    BY <1>7, <1>0 DEF PushVersion
  <1>8. ASSUME NEW r \in reading, PushBody(r) PROVE Goal
    BY <1>8, <1>0 DEF PushBody
  <1>9. ASSUME NEW m \in net, Receive(m) PROVE Goal
    <2>1. m.to \in Node /\ m.vec \in Vec /\ m.body \in Body
      BY DEF TypeOK
    <2>2. BeginApply(m.to, m.vec, m.body, "push")
      BY <1>9 DEF Receive
    <2>3. /\ \A j \in Node \ {m.to} : pend'[j] = pend[j]
          /\ saved[n] \subseteq saved'[n] /\ dropped \subseteq dropped'
      BY <2>1, <2>2, BeginApplyFacts
    <2> QED
      BY <2>2, <2>3
  <1>10. ASSUME NEW k \in Node, ApplyWrite(k) PROVE Goal
    <2>1. pend' = [pend EXCEPT ![k].step = "record"] /\ saved' = saved /\ dropped' = dropped
      BY <1>10 DEF ApplyWrite
    <2>2. k # n => pend'[n] = pend[n]
      BY <2>1 DEF TypeOK
    <2> QED
      BY <1>10, <2>1, <2>2
  <1>11. ASSUME NEW k \in Node, ApplyFails(k) PROVE Goal
    BY <1>11 DEF ApplyFails, EndApply, TypeOK
  <1>12. ASSUME NEW k \in Node, Record(k) PROVE Goal
    BY <1>12 DEF Record, EndApply, TypeOK
  <1>13. ASSUME NEW k \in Node, RecordPanics(k) PROVE Goal
    BY <1>13 DEF RecordPanics, TypeOK
  <1>14. ASSUME NEW k \in Node, Dies(k) PROVE Goal
    BY <1>14 DEF Dies, Crash, LoopPanics, Restart, TypeOK
  <1>15. ASSUME NEW k \in Node, NEW p \in Node, RecManifest(k, p) PROVE Goal
    BY <1>15, <1>0 DEF RecManifest, fileUnchanged
  <1>16. ASSUME NEW k \in Node, NEW p \in Node, RecUnreachable(k, p) PROVE Goal
    BY <1>16, <1>0 DEF RecUnreachable, fileUnchanged
  <1>17. ASSUME NEW k \in Node, RecDiff(k) PROVE Goal
    BY <1>17, <1>0 DEF RecDiff, fileUnchanged
  <1>18. ASSUME NEW k \in Node, RecAsk(k) PROVE Goal
    BY <1>18, <1>0 DEF RecAsk, fileUnchanged
  <1>19. ASSUME NEW k \in Node, RecRead(k) PROVE Goal
    BY <1>19, <1>0 DEF RecRead, fileUnchanged
  <1>20. ASSUME NEW k \in Node, FetchFails(k) PROVE Goal
    BY <1>20, <1>0 DEF FetchFails, fileUnchanged
  <1>21. ASSUME NEW k \in Node, RecApply(k) PROVE Goal
    <2>1. rec[k] \in FetchStage
      BY <1>21 DEF RecApply, TypeOK, DiffStage, Idle
    <2>2. rec[k].st = "got" /\ BeginApply(k, rec[k].vec, rec[k].body, "reconcile")
      BY <1>21 DEF RecApply
    <2>3. /\ \A j \in Node \ {k} : pend'[j] = pend[j]
          /\ saved[n] \subseteq saved'[n] /\ dropped \subseteq dropped'
      BY <2>1, <2>2, BeginApplyFacts DEF FetchStage
    <2> QED
      BY <2>2, <2>3
  <1>22. CASE UNCHANGED vars
    BY <1>22, <1>0 DEF vars
  <1> QED
    BY <1>1, <1>2, <1>3, <1>4, <1>5, <1>6, <1>7, <1>8, <1>9, <1>10, <1>11, <1>12,
       <1>13, <1>14, <1>15, <1>16, <1>17, <1>18, <1>19, <1>20, <1>21, <1>22
    DEF Next, Step, Loop, Apply

(* An apply in progress keeps its version to the end.                      *)
LEMMA PendStep ==
    ASSUME TypeOK, [Next]_vars, NEW n \in Node
    PROVE  \/ pend'[n] = NoApply
           \/ pend[n] # NoApply /\ pend'[n].vec = pend[n].vec
           \/ \E m \in net : m.to = n /\ BeginApply(n, m.vec, m.body, "push")
           \/ rec[n].st = "got" /\ BeginApply(n, rec[n].vec, rec[n].body, "reconcile")
  <1>1. CASE ApplyWrite(n)
    <2>1. pend[n] \in Pending
      BY <1>1 DEF ApplyWrite, TypeOK
    <2>2. [pend[n] EXCEPT !.step = "record"].vec = pend[n].vec
      BY <2>1 DEF Pending
    <2> QED
      BY <1>1, <2>2 DEF ApplyWrite, TypeOK
  <1> QED
    BY <1>1, DiskStep

(* AppliesForward is preserved: while an apply is in progress, fileMu lets *)
(* nothing but its own man.Apply touch the entry.                          *)
LEMMA ForwardStep ==
    TypeOK /\ AppliesForward /\ [Next]_vars => AppliesForward'
  <1> SUFFICES ASSUME TypeOK, AppliesForward, [Next]_vars,
                      NEW n \in Node, pend'[n] # NoApply
               PROVE  vecLeq(man'[n].vec, pend'[n].vec)
    BY DEF AppliesForward, vecLeq
  <1>1. CASE pend[n] # NoApply /\ pend'[n].vec = pend[n].vec
    <2>1. vecLeq(man[n].vec, pend[n].vec) /\ pend[n].vec \in Vec
      BY <1>1 DEF AppliesForward, TypeOK, Pending
    <2>2. vecLeq(pend[n].vec, pend[n].vec)
      BY <2>1 DEF vecLeq, Vec
    <2>3. man'[n] = man[n] \/ man'[n].vec = pend[n].vec
      BY <1>1, ManStep
    <2> QED
      BY <1>1, <2>1, <2>2, <2>3
  <1>2. ASSUME NEW vec \in Vec, NEW body \in Body, NEW by \in {"push", "reconcile"},
               BeginApply(n, vec, body, by)
        PROVE  vecLeq(man'[n].vec, pend'[n].vec)
    <2> DEFINE out == Decide(Local(n), file[n], vec, body)
    <2>1. file[n] \in Body /\ Local(n) \in ManEntry
      BY LocalFacts DEF TypeOK
    <2>2. vecLeq(Local(n).vec, out.vec)
      BY <2>1, DecideFacts
    <2>3. man'[n] = Local(n) /\ pend'[n].vec = out.vec
      BY <1>2, BeginApplyFacts
    <2> QED
      BY <2>2, <2>3
  <1>3. CASE \E m \in net : m.to = n /\ BeginApply(n, m.vec, m.body, "push")
    BY <1>2, <1>3 DEF TypeOK
  <1>4. CASE rec[n].st = "got" /\ BeginApply(n, rec[n].vec, rec[n].body, "reconcile")
    <2>1. rec[n] \in FetchStage
      BY <1>4 DEF TypeOK, DiffStage, Idle
    <2> QED
      BY <1>2, <1>4, <2>1 DEF FetchStage
  <1> QED
    BY <1>1, <1>3, <1>4, PendStep

(* TypeInv with AppliesForward.                                            *)
LEMMA ForwardInv == Spec => [](TypeOK /\ AppliesForward)
  <1>1. Init => AppliesForward
    BY DEF Init, AppliesForward
  <1>2. TypeOK /\ AppliesForward /\ [Next]_vars => AppliesForward'
    BY ForwardStep
  <1> QED
    BY <1>1, <1>2, TypeInv, PTL DEF Spec

(* man.Apply records at or above the entry it replaces (AppliesForward),   *)
(* Bump adds one, DropUnshared forgets the entry altogether, and a daemon  *)
(* that comes up has what is on file.                                      *)
LEMMA EntryGrows ==
    ASSUME TypeOK, AppliesForward, [Next]_vars, NEW n \in Node
    PROVE  \/ vecLeq(man[n].vec, man'[n].vec)
           \/ man'[n] = Absent /\ file[n] \in Over
           \/ man'[n] = kept[n].entry /\ n \in reverted'
  <1>1. man[n].vec \in Vec
    BY DEF TypeOK, ManEntry
  <1>2. CASE man'[n] = man[n]
    BY <1>1, <1>2 DEF vecLeq, Vec
  <1>3. ASSUME NEW x \in Body, man'[n] = Bumped(n, x)
        PROVE  vecLeq(man[n].vec, man'[n].vec)
    <2> SUFFICES ASSUME NEW o \in Node PROVE man[n].vec[o] <= man'[n].vec[o]
      BY DEF vecLeq
    <2>1. man[n].vec[o] \in Nat
      BY <1>1 DEF Vec
    <2> QED
      BY <1>3, <2>1, BumpFacts
  <1>4. CASE pend[n] # NoApply /\ man'[n].vec = pend[n].vec
    BY <1>4 DEF AppliesForward
  <1> QED
    BY <1>2, <1>3, <1>4, ManStep

(* Nothing but a restart on an older manifest, whose later saves failed,   *)
(* and DropUnshared take back a stamp: VectorsGrow, whatever the bodies    *)
(* and however edits, applies, pushes, failed saves and crashes interleave. *)
THEOREM ManifestVectorsGrow == Spec => VectorsGrow
  <1>1. TypeOK /\ AppliesForward /\ [Next]_vars
          => [\A n \in Node :
                \/ vecLeq(man[n].vec, man'[n].vec)
                \/ man'[n] = Absent
                \/ man'[n] = kept[n].entry /\ n \in reverted']_vars
    BY EntryGrows
  <1> QED
    BY <1>1, ForwardInv, PTL DEF Spec, VectorsGrow

-----------------------------------------------------------------------------
(* Version vectors in circulation.                                         *)

(* Where a version on its way between nodes comes from, and its body: a    *)
(* push and a fetch read the manifest first and the disk a step later.     *)
Reading ==
    \A r \in reading' :
        \/ r \in reading
        \/ r.vec = man[r.from].vec /\ man[r.from].vec # Zero

Net ==
    \A m \in net' :
        \/ m \in net
        \/ \E k \in Node : m.vec = man[k].vec /\ man[k].deleted
        \/ \E r \in reading : m.vec = r.vec /\ m.body = file[r.from]

Fetched(n) ==
    \/ rec'[n].st \in {"ask", "applying"} /\ rec'[n].vec = Zero
    \/ /\ rec'[n].st = "read" /\ rec'[n].peer \in Node
       /\ rec'[n].vec = man[rec'[n].peer].vec /\ rec'[n].vec # Zero
    \/ /\ rec'[n].st = "got" /\ rec[n].st = "diff"
       /\ rec[n].rv.deleted /\ rec'[n].vec = rec[n].rv.vec
    \/ /\ rec'[n].st = "got" /\ rec[n].st = "read"
       /\ rec'[n].vec = rec[n].vec /\ rec'[n].body = file[rec[n].peer]

Rec ==
    \A n \in Node :
        \/ rec'[n] = rec[n]
        \/ rec'[n] = Idle
        \/ rec'[n].st = "diff" /\ \E k \in Node : rec'[n].rv = ver(man[k])
        \/ rec'[n].st \notin {"idle", "diff"} /\ Fetched(n)

(* A step sends, reads or keeps no vector of another origin.               *)
LEMMA WireStep ==
    ASSUME TypeOK, [Next]_vars
    PROVE  Reading /\ Net /\ Rec
  <1> USE DEF Reading, Net, Rec, Fetched
  <1> DEFINE Goal == Reading /\ Net /\ Rec
  <1>0. CASE UNCHANGED <<reading, net, rec>>
    BY <1>0
  <1>1. ASSUME NEW k \in Node, NEW c \in Saves, ApiWrite(k, c) PROVE Goal
    BY <1>1, <1>0 DEF ApiWrite
  <1>2. ASSUME NEW k \in Node, ApiDelete(k) PROVE Goal
    BY <1>2, <1>0 DEF ApiDelete
  <1>3. ASSUME NEW k \in Node, NEW c \in Saves \cup {NoFile}, DirectEdit(k, c) PROVE Goal
    BY <1>3, <1>0 DEF DirectEdit
  <1>4. ASSUME NEW k \in Node, NEW c \in Saves \cup {NoFile}, DavChange(k, c) PROVE Goal
    BY <1>4, <1>0 DEF DavChange
  <1>5. ASSUME NEW k \in Node, DavChanged(k) PROVE Goal
    BY <1>5, <1>0 DEF DavChanged
  <1>6. ASSUME NEW k \in Node, Scan(k) PROVE Goal
    BY <1>6, <1>0 DEF Scan, scanRoot
  <1>7. ASSUME NEW k \in Node, NEW p \in Node, PushVersion(k, p) PROVE Goal
    <2>1. Reading /\ Net
      BY <1>7 DEF PushVersion, Message
    <2>2. Rec
      BY <1>7 DEF PushVersion
    <2> QED
      BY <2>1, <2>2
  <1>8. ASSUME NEW r \in reading, PushBody(r) PROVE Goal
    <2>1. Reading /\ Net
      BY <1>8 DEF PushBody, Message
    <2>2. Rec
      BY <1>8 DEF PushBody
    <2> QED
      BY <2>1, <2>2
  <1>9. ASSUME NEW m \in net, Receive(m) PROVE Goal
    BY <1>9, <1>0 DEF Receive, BeginApply
  <1>10. ASSUME NEW k \in Node, ApplyWrite(k) PROVE Goal
    BY <1>10, <1>0 DEF ApplyWrite
  <1>11. ASSUME NEW k \in Node, ApplyFails(k) PROVE Goal
    <2>1. Reading /\ Net
      BY <1>11 DEF ApplyFails
    <2>2. Rec
      BY <1>11 DEF ApplyFails, EndApply, TypeOK
    <2> QED
      BY <2>1, <2>2
  <1>12. ASSUME NEW k \in Node, Record(k) PROVE Goal
    <2>1. Reading /\ Net
      BY <1>12 DEF Record
    <2>2. Rec
      BY <1>12 DEF Record, EndApply, TypeOK
    <2> QED
      BY <2>1, <2>2
  <1>13. ASSUME NEW k \in Node, RecordPanics(k) PROVE Goal
    BY <1>13, <1>0 DEF RecordPanics
  <1>14. ASSUME NEW k \in Node, Dies(k) PROVE Goal
    <2>0. Restart(k)
      BY <1>14 DEF Dies, Crash, LoopPanics
    <2>1. Reading /\ Net
      BY <2>0 DEF Restart
    <2>2. Rec
      BY <2>0 DEF Restart, TypeOK
    <2> QED
      BY <2>1, <2>2
  <1>15. ASSUME NEW k \in Node, NEW p \in Node, RecManifest(k, p) PROVE Goal
    <2>1. Reading /\ Net
      BY <1>15 DEF RecManifest, fileUnchanged
    <2>2. Rec
      BY <1>15 DEF RecManifest, ver, TypeOK
    <2> QED
      BY <2>1, <2>2
  <1>16. ASSUME NEW k \in Node, NEW p \in Node, RecUnreachable(k, p) PROVE Goal
    BY <1>16, <1>0 DEF RecUnreachable, fileUnchanged
  <1>17. ASSUME NEW k \in Node, RecDiff(k) PROVE Goal
    <2>0. rec[k] \in DiffStage
      BY <1>17 DEF RecDiff, TypeOK, FetchStage, Idle
    <2>1. Reading /\ Net
      BY <1>17 DEF RecDiff, fileUnchanged
    <2>2. Rec
      BY <1>17, <2>0 DEF RecDiff, TypeOK
    <2> QED
      BY <2>1, <2>2
  <1>18. ASSUME NEW k \in Node, RecAsk(k) PROVE Goal
    <2>0. rec[k] \in FetchStage
      BY <1>18 DEF RecAsk, TypeOK, DiffStage, Idle
    <2>1. Reading /\ Net
      BY <1>18 DEF RecAsk, fileUnchanged
    <2>2. Rec
      BY <1>18, <2>0 DEF RecAsk, RecStage, RecPush, FetchStage, TypeOK
    <2> QED
      BY <2>1, <2>2
  <1>19. ASSUME NEW k \in Node, RecRead(k) PROVE Goal
    <2>0. rec[k] \in FetchStage
      BY <1>19 DEF RecRead, TypeOK, DiffStage, Idle
    <2>1. Reading /\ Net
      BY <1>19 DEF RecRead, fileUnchanged
    <2>2. Rec
      BY <1>19, <2>0 DEF RecRead, RecStage, RecPush, FetchStage, TypeOK
    <2> QED
      BY <2>1, <2>2
  <1>20. ASSUME NEW k \in Node, FetchFails(k) PROVE Goal
    <2>1. Reading /\ Net
      BY <1>20 DEF FetchFails, fileUnchanged
    <2>2. Rec
      BY <1>20 DEF FetchFails, RecPush, TypeOK
    <2> QED
      BY <2>1, <2>2
  <1>21. ASSUME NEW k \in Node, RecApply(k) PROVE Goal
    <2>0. rec[k] \in FetchStage
      BY <1>21 DEF RecApply, TypeOK, DiffStage, Idle
    <2>1. Reading /\ Net
      BY <1>21 DEF RecApply, BeginApply
    <2>2. Rec
      BY <1>21, <2>0 DEF RecApply, RecStage, RecPush, FetchStage, TypeOK
    <2> QED
      BY <2>1, <2>2
  <1>22. CASE UNCHANGED vars
    BY <1>22, <1>0 DEF vars
  <1> QED
    BY <1>1, <1>2, <1>3, <1>4, <1>5, <1>6, <1>7, <1>8, <1>9, <1>10, <1>11, <1>12,
       <1>13, <1>14, <1>15, <1>16, <1>17, <1>18, <1>19, <1>20, <1>21, <1>22
    DEF Next, Step, Loop, Apply

(* A node that once came up on an older manifest stays marked.             *)
LEMMA RevertedStep == ASSUME [Next]_vars PROVE reverted \subseteq reverted'
  BY DEF Next, saveLocked, Dies, Crash, LoopPanics, Restart, vars

(* What is on file is what was there or what the step put in memory.       *)
LEMMA KeptStep ==
    ASSUME TypeOK, [Next]_vars, NEW n \in Node
    PROVE  \/ kept'[n] = [entry |-> man'[n], clean |-> clean'[n]]
           \/ kept'[n].entry = kept[n].entry /\ (kept'[n].clean => kept[n].clean)
  <1>1. CASE saveLocked
    <2> DEFINE left(b) == [kept[n] EXCEPT !.clean = @ /\ b]
    <2>1. ASSUME NEW b
          PROVE  left(b).entry = kept[n].entry /\ (left(b).clean => kept[n].clean)
      BY DEF TypeOK
    <2>2. \/ kept'[n] = [entry |-> man'[n], clean |-> clean'[n]]
          \/ \E b : kept'[n] = left(b)
      BY <1>1 DEF saveLocked
    <2> HIDE DEF left
    <2> QED
      BY <2>1, <2>2
  <1>2. CASE UNCHANGED kept
    BY <1>2
  <1> QED
    BY <1>1, <1>2 DEF Next, Dies, Crash, LoopPanics, Restart, vars

(* A component never exceeds what its node has stamped, and a node's own   *)
(* component never falls while it finds on file what it had: what is known *)
(* stays known.                                                            *)
LEMMA KnownGrows ==
    ASSUME TypeOK, AppliesForward, [Next]_vars, Over = {}, TypeOK', NEW v \in Vec, Known(v)
    PROVE  \A o \in Node \ reverted' : v[o] <= man'[o].vec[o]
  <1> SUFFICES ASSUME NEW o \in Node \ reverted' PROVE v[o] <= man'[o].vec[o]
    OBVIOUS
  <1>0. o \in Node \ reverted
    BY RevertedStep
  <1>1. man[o].vec[o] <= man'[o].vec[o]
    BY EntryGrows DEF vecLeq
  <1>2. v[o] <= man[o].vec[o]
    BY <1>0 DEF Known
  <1>3. v[o] \in Nat /\ man[o].vec[o] \in Nat /\ man'[o].vec[o] \in Nat
    BY DEF TypeOK, ManEntry, Vec
  <1> QED
    BY <1>1, <1>2, <1>3

(* OriginOwnsCounter is preserved when no body is over the cap.            *)
LEMMA OwnStep ==
    TypeOK /\ AppliesForward /\ OriginOwnsCounter /\ [Next]_vars /\ Over = {} /\ TypeOK'
      => OriginOwnsCounter'
  <1> SUFFICES ASSUME TypeOK, AppliesForward, OriginOwnsCounter, [Next]_vars, Over = {},
                      TypeOK'
               PROVE  OriginOwnsCounter'
    OBVIOUS
  <1> DEFINE Known1(v) == \A o \in Node \ reverted' : v[o] <= man'[o].vec[o]
  <1>1. ASSUME NEW v \in Vec, Known(v) PROVE Known1(v)
    BY <1>1, KnownGrows
  <1>2. ASSUME NEW k \in Node PROVE man[k].vec \in Vec /\ Known1(man[k].vec)
    <2>1. man[k].vec \in Vec
      BY DEF TypeOK, ManEntry
    <2> QED
      BY <1>1, <2>1 DEF OriginOwnsCounter
  <1>3. ASSUME NEW n \in Node PROVE Known1(man'[n].vec)
    <2>1. CASE man'[n] = man[n]
      BY <1>2, <2>1
    <2>2. ASSUME NEW c \in Body, man'[n] = Bumped(n, c) PROVE Known1(man'[n].vec)
      <3> SUFFICES ASSUME NEW o \in Node \ reverted' PROVE man'[n].vec[o] <= man'[o].vec[o]
        OBVIOUS
      <3>1. CASE o = n
        BY <3>1 DEF TypeOK, ManEntry, Vec
      <3>2. CASE o # n
        <4>1. man'[n].vec[o] = man[n].vec[o]
          BY <2>2, <3>2, BumpFacts
        <4> QED
          BY <1>2, <4>1
      <3> QED
        BY <3>1, <3>2
    <2>3. CASE pend[n] # NoApply /\ man'[n].vec = pend[n].vec
      <3>1. pend[n].vec \in Vec /\ Known(pend[n].vec)
        BY <2>3 DEF TypeOK, Pending, OriginOwnsCounter
      <3> QED
        BY <1>1, <2>3, <3>1
    <2>4. CASE man'[n] = kept[n].entry
      <3>1. kept[n].entry.vec \in Vec /\ Known(kept[n].entry.vec)
        BY DEF TypeOK, ManEntry, OriginOwnsCounter
      <3> QED
        BY <1>1, <2>4, <3>1
    <2> QED
      BY <2>1, <2>2, <2>3, <2>4, ManStep
  <1>4. ASSUME NEW n \in Node, NEW vec \in Vec, Known(vec), NEW body \in Body,
               NEW by \in {"push", "reconcile"}, BeginApply(n, vec, body, by),
               pend'[n] # NoApply
        PROVE  Known1(pend'[n].vec)
    <2> DEFINE out == Decide(Local(n), file[n], vec, body)
    <2>1. file[n] \in Body /\ Local(n) \in ManEntry
      BY LocalFacts DEF TypeOK
    <2>2. \A o \in Node : out.vec[o] = Local(n).vec[o] \/ out.vec[o] = vec[o]
      BY <2>1, DecideFacts
    <2>3. man'[n] = Local(n) /\ pend'[n].vec = out.vec
      BY <1>4, BeginApplyFacts
    <2>4. Known1(Local(n).vec)
      BY <1>3, <2>3
    <2>5. Known1(vec)
      BY <1>1, <1>4
    <2> HIDE DEF out
    <2> QED
      BY <2>2, <2>3, <2>4, <2>5
  <1>5. ASSUME NEW n \in Node, pend'[n] # NoApply PROVE Known1(pend'[n].vec)
    <2>1. CASE pend[n] # NoApply /\ pend'[n].vec = pend[n].vec
      <3>1. pend[n].vec \in Vec /\ Known(pend[n].vec)
        BY <2>1 DEF TypeOK, Pending, OriginOwnsCounter
      <3> QED
        BY <1>1, <2>1, <3>1
    <2>2. ASSUME NEW m \in net, BeginApply(n, m.vec, m.body, "push")
          PROVE  Known1(pend'[n].vec)
      <3>1. m.vec \in Vec /\ m.body \in Body /\ Known(m.vec)
        BY DEF TypeOK, OriginOwnsCounter
      <3> QED
        BY <1>4, <1>5, <2>2, <3>1
    <2>3. CASE rec[n].st = "got" /\ BeginApply(n, rec[n].vec, rec[n].body, "reconcile")
      <3>1. rec[n] \in FetchStage
        BY <2>3 DEF TypeOK, DiffStage, Idle
      <3>2. rec[n].vec \in Vec /\ rec[n].body \in Body
        BY <3>1 DEF FetchStage
      <3>3. Known(rec[n].vec)
        BY <2>3 DEF OriginOwnsCounter
      <3> QED
        BY <1>4, <1>5, <2>3, <3>2, <3>3
    <2> QED
      BY <1>5, <2>1, <2>2, <2>3, PendStep
  <1>6. ASSUME NEW r \in reading' PROVE Known1(r.vec)
    <2>1. CASE r \in reading
      <3>1. r.vec \in Vec /\ Known(r.vec)
        BY <2>1 DEF TypeOK, OriginOwnsCounter
      <3> QED
        BY <1>1, <3>1
    <2>2. r.from \in Node
      BY DEF TypeOK
    <2> QED
      BY <1>2, <2>1, <2>2, WireStep DEF Reading
  <1>7. ASSUME NEW m \in net' PROVE Known1(m.vec)
    <2>1. CASE m \in net
      <3>1. m.vec \in Vec /\ Known(m.vec)
        BY <2>1 DEF TypeOK, OriginOwnsCounter
      <3> QED
        BY <1>1, <3>1
    <2>2. ASSUME NEW r \in reading, m.vec = r.vec PROVE Known1(m.vec)
      <3>1. r.vec \in Vec /\ Known(r.vec)
        BY DEF TypeOK, OriginOwnsCounter
      <3> QED
        BY <1>1, <2>2, <3>1
    <2> QED
      BY <1>2, <2>1, <2>2, WireStep DEF Net
  <1>8. ASSUME NEW n \in Node, rec[n].st = "diff"
        PROVE  rec[n].rv.vec \in Vec /\ Known1(rec[n].rv.vec)
    <2>0. rec[n] \in DiffStage \cup FetchStage \cup {Idle}
      BY DEF TypeOK
    <2>1. rec[n] \in DiffStage
      BY <1>8, <2>0 DEF FetchStage, Idle
    <2>2. rec[n].rv.vec \in Vec /\ Known(rec[n].rv.vec)
      BY <1>8, <2>1 DEF DiffStage, OriginOwnsCounter
    <2> QED
      BY <1>1, <2>2
  <1>9. ASSUME NEW n \in Node, rec[n].st \notin {"idle", "diff"}
        PROVE  rec[n].vec \in Vec /\ Known1(rec[n].vec)
    <2>1. rec[n] \in FetchStage
      BY <1>9 DEF TypeOK, DiffStage, Idle
    <2>2. rec[n].vec \in Vec /\ Known(rec[n].vec)
      BY <1>9, <2>1 DEF FetchStage, OriginOwnsCounter
    <2> QED
      BY <1>1, <2>2
  <1>10. ASSUME NEW n \in Node, rec'[n].st = "diff" PROVE Known1(rec'[n].rv.vec)
    <2>1. CASE rec'[n] = rec[n]
      BY <1>8, <1>10, <2>1
    <2>2. ASSUME NEW k \in Node, rec'[n].rv = ver(man[k]) PROVE Known1(rec'[n].rv.vec)
      BY <1>2, <2>2 DEF ver
    <2> QED
      BY <1>10, <2>1, <2>2, WireStep DEF Rec, Idle
  <1>11. Known1(Zero)
    BY DEF TypeOK, ManEntry, Vec, Zero
  <1>12. ASSUME NEW n \in Node, rec'[n].st \notin {"idle", "diff"} PROVE Known1(rec'[n].vec)
    <2>1. CASE rec'[n] = rec[n]
      BY <1>9, <1>12, <2>1
    <2>2. CASE Fetched(n)
      BY <1>2, <1>8, <1>9, <1>11, <2>2 DEF Fetched
    <2> QED
      BY <1>12, <2>1, <2>2, WireStep DEF Rec, Idle
  <1>13. ASSUME NEW n \in Node PROVE Known1(kept'[n].entry.vec)
    <2>1. kept[n].entry.vec \in Vec /\ Known(kept[n].entry.vec)
      BY DEF TypeOK, ManEntry, OriginOwnsCounter
    <2>2. CASE kept'[n] = [entry |-> man'[n], clean |-> clean'[n]]
      <3>1. kept'[n].entry = man'[n]
        BY <2>2
      <3> QED
        BY <1>3, <3>1
    <2>3. CASE kept'[n].entry = kept[n].entry
      BY <1>1, <2>1, <2>3
    <2> QED
      BY <2>2, <2>3, KeptStep
  <1> QED
    BY <1>3, <1>5, <1>6, <1>7, <1>10, <1>12, <1>13 DEF OriginOwnsCounter, Known

(* Everything at once, when no body is over the cap.                       *)
IInv == TypeOK /\ ReconcileWaits /\ AppliesForward /\ OriginOwnsCounter

LEMMA InductiveInv == ASSUME Over = {} PROVE Spec => []IInv
  <1>1. Init => IInv
    <2>1. Init => TypeOK /\ ReconcileWaits /\ AppliesForward
      BY ContentAssumption, BoundAssumption
      DEF Init, TypeOK, ReconcileWaits, AppliesForward, Absent, Zero, ManEntry, Vec, Body,
          Idle, NoApply
    <2>2. Init => OriginOwnsCounter
      BY DEF Init, OriginOwnsCounter, Known, Absent, Zero, Idle
    <2> QED
      BY <2>1, <2>2 DEF IInv
  <1>2. IInv /\ [Next]_vars => IInv'
    BY TypeStep, WaitsStep, ForwardStep, OwnStep DEF IInv
  <1> QED
    BY <1>1, <1>2, PTL DEF Spec

(* Bump's promise: a component is only ever advanced by its own node, and  *)
(* no vector anywhere - recorded, on file, being applied, on the wire, in  *)
(* a stale snapshot - is ahead of what that node has stamped, through any  *)
(* crash and restart that finds on file the manifest the node had.         *)
THEOREM OriginOwns == ASSUME Over = {} PROVE Spec => []OriginOwnsCounter
  <1>1. IInv => OriginOwnsCounter
    BY DEF IInv
  <1> QED
    BY <1>1, InductiveInv, PTL

(* The heart of ApplyRemote's promise.  Unseen content has just been       *)
(* stamped, so the local version has a component the incoming one cannot   *)
(* have: it is stale or concurrent, never a plain replacement.             *)
LEMMA UnseenIsConcurrent ==
    ASSUME TypeOK, NEW n \in Node \ reverted, Unseen(n), NEW vec \in Vec, Known(vec),
           NEW body \in Body
    PROVE  LET out == Decide(Local(n), file[n], vec, body)
           IN  \/ out.how \notin Writes
               \/ out.how = "merged"
               \/ out.how = "resolved" /\ out.loser = file[n]
  <1> DEFINE rv == [vec |-> vec, deleted |-> body = NoFile]
             out == Decide(Local(n), file[n], vec, body)
             max == MaxVec(Local(n).vec, vec)
  <1>1. Local(n).vec[n] = man[n].vec[n] + 1 /\ ~Local(n).deleted
    BY LocalFacts
  <1>2. vec[n] <= man[n].vec[n] /\ vec[n] \in Nat /\ man[n].vec[n] \in Nat
    BY DEF Known, TypeOK, ManEntry, Vec
  <1>3. ~vecLeq(Local(n).vec, vec)
    BY <1>1, <1>2 DEF vecLeq
  <1>4. ~Dominates(rv, Local(n)) /\ ~SameVersion(Local(n), rv)
    BY <1>3 DEF Dominates, SameVersion
  <1>5. CASE Dominates(Local(n), rv)
    <2>1. out = Outcome("stale", file[n], Local(n).vec, NoFile)
      BY <1>5 DEF Decide
    <2> QED
      BY <2>1 DEF Outcome, Writes
  <1>6. CASE ~Dominates(Local(n), rv)
    <2>1. out = resolveConcurrent(Local(n), file[n], body, max)
      BY <1>4, <1>6 DEF Decide
    <2> QED
      BY <1>1, <2>1 DEF resolveConcurrent, resolveLive, Outcome, Writes
  <1> QED
    BY <1>5, <1>6

(* Content the manifest has not seen survives an incoming version, for any *)
(* mesh, any mergeable or plain file, any interleaving (no body over the   *)
(* cap): it stays, is merged, or is backed up before it is overwritten; it  *)
(* is lost only where that backup could not be written, or where the node  *)
(* had come up on an older manifest than it had pushed from.               *)
THEOREM UnseenSurvives == ASSUME Over = {} PROVE Spec => UnseenNotClobbered
  <1> DEFINE Safe(n) ==
        (pend[n] = NoApply /\ pend'[n] # NoApply /\ Unseen(n))
          => \/ pend'[n].step = "record"
             \/ file[n] \in saved'[n] \cup dropped'
             \/ pend'[n].how = "merged"
  <1>1. ASSUME TypeOK, NEW n \in Node \ reverted, Unseen(n), NEW vec \in Vec, Known(vec),
               NEW body \in Body, NEW by \in {"push", "reconcile"}, BeginApply(n, vec, body, by), pend'[n] # NoApply
        PROVE  \/ pend'[n].step = "record"
               \/ file[n] \in saved'[n] \cup dropped'
               \/ pend'[n].how = "merged"
    <2> DEFINE out == Decide(Local(n), file[n], vec, body)
    <2>1. \/ out.how \notin Writes
          \/ out.how = "merged"
          \/ out.how = "resolved" /\ out.loser = file[n]
      BY <1>1, UnseenIsConcurrent
    <2>2. /\ pend'[n].how = out.how
          /\ pend'[n].step = IF out.how \in Writes THEN "write" ELSE "record"
      BY <1>1, BeginApplyFacts
    <2>3. out.loser = file[n] => file[n] \in saved'[n] \cup dropped'
      BY <1>1, BeginApplyFacts DEF Unseen
    <2> HIDE DEF out
    <2> QED
      BY <2>1, <2>2, <2>3
  <1>2. ASSUME IInv, [Next]_vars, NEW n \in Node \ reverted PROVE Safe(n)
    <2> SUFFICES ASSUME pend[n] = NoApply, pend'[n] # NoApply, Unseen(n)
                 PROVE  \/ pend'[n].step = "record"
                        \/ file[n] \in saved'[n] \cup dropped'
                        \/ pend'[n].how = "merged"
      OBVIOUS
    <2>0. TypeOK /\ OriginOwnsCounter
      BY <1>2 DEF IInv
    <2>1. ASSUME NEW m \in net, BeginApply(n, m.vec, m.body, "push")
          PROVE  \/ pend'[n].step = "record"
                 \/ file[n] \in saved'[n] \cup dropped'
                 \/ pend'[n].how = "merged"
      <3>1. m.vec \in Vec /\ m.body \in Body /\ Known(m.vec)
        BY <2>0 DEF TypeOK, OriginOwnsCounter
      <3> QED
        BY <1>1, <2>0, <2>1, <3>1
    <2>2. CASE rec[n].st = "got" /\ BeginApply(n, rec[n].vec, rec[n].body, "reconcile")
      <3>1. rec[n] \in FetchStage
        BY <2>0, <2>2 DEF TypeOK, DiffStage, Idle
      <3>2. rec[n].vec \in Vec /\ rec[n].body \in Body
        BY <3>1 DEF FetchStage
      <3>3. Known(rec[n].vec)
        BY <2>0, <2>2 DEF OriginOwnsCounter
      <3> QED
        BY <1>1, <2>0, <2>2, <3>2, <3>3
    <2> QED
      BY <1>2, <2>0, <2>1, <2>2, PendStep
  <1>3. IInv /\ [Next]_vars => [\A n \in Node \ reverted : Safe(n)]_vars
    BY <1>2
  <1> QED
    BY <1>3, InductiveInv, PTL DEF Spec, UnseenNotClobbered

-----------------------------------------------------------------------------
(* No stamped body is lost.                                                *)

Stamps == [origin : Node, vec : Vec, body : Body]

(* Whoever knows the stamp e carries its body: on disk under a live entry, *)
(* in an apply that has it to write or has written it, in a push request,  *)
(* in a fetched answer.  Only a version without a body could lose it.      *)
Carried(e) ==
    /\ \A n \in Node : Knows(man[n].vec, e) => ~man[n].deleted /\ file[n] = e.body
    /\ \A n \in Node :
         pend[n] # NoApply /\ Knows(pend[n].vec, e)
           => pend[n].body = e.body /\ (pend[n].step = "record" => file[n] = e.body)
    /\ \A m \in net : Knows(m.vec, e) => m.body = e.body
    /\ \A n \in Node : rec[n].st = "diff" /\ Knows(rec[n].rv.vec, e) => ~rec[n].rv.deleted
    /\ \A n \in Node : rec[n].st = "got" /\ Knows(rec[n].vec, e) => rec[n].body = e.body

(* A push or a fetch that has read a version and not yet the body will     *)
(* find the body of that version on the disk, or of a later one.           *)
ReadsBehind ==
    /\ \A r \in reading : vecLeq(r.vec, man[r.from].vec)
    /\ \A n \in Node : rec[n].st = "read" => vecLeq(rec[n].vec, man[rec[n].peer].vec)

LogTyped == log \subseteq Stamps /\ \A e \in log : Known(e.vec)

(* All this as long as every node found on file the manifest it had.       *)
HistInv ==
    /\ IInv
    /\ reverted = {} =>
         LogTyped /\ ReadsBehind /\ \A e \in log : Accounted(e) \/ Carried(e)

(* ApplyRemote, without merging: whatever the two sides carry is what the  *)
(* outcome carries, or the loser it backs up.                              *)
LEMMA DecideCarries ==
    ASSUME Docs = {}, NEW local \in ManEntry, NEW disk \in Body, NEW vec \in Vec,
           NEW body \in Body, NEW e \in Stamps,
           Knows(local.vec, e) => ~local.deleted /\ disk = e.body,
           Knows(vec, e) => body = e.body,
           Decide(local, disk, vec, body).how # "stale",
           Knows(Decide(local, disk, vec, body).vec, e)
    PROVE  LET out == Decide(local, disk, vec, body)
           IN  \/ e.body = NoFile
               \/ out.loser = e.body
               \/ out.body = e.body /\ (out.how \notin Writes => disk = e.body)
  <1> DEFINE rv == [vec |-> vec, deleted |-> body = NoFile]
             max == MaxVec(local.vec, vec)
             out == Decide(local, disk, vec, body)
  <1>0. local.vec \in Vec /\ e.vec \in Vec /\ e.origin \in Node
    BY DEF ManEntry, Stamps
  <1>1. ~(SameVersion(local, rv) \/ Dominates(local, rv))
    <2>1. SameVersion(local, rv) \/ Dominates(local, rv) => out.how = "stale"
      BY DEF Decide, Outcome
    <2> QED
      BY <2>1
  <1>2. CASE Dominates(rv, local)
    <2>1. out = Outcome("applied", body, vec, NoFile)
      BY <1>1, <1>2 DEF Decide
    <2> QED
      BY <2>1 DEF Outcome, Writes
  <1>3. CASE ~Dominates(rv, local)
    <2>1. out = resolveConcurrent(local, disk, body, max)
      BY <1>1, <1>3 DEF Decide
    <2>2. out.vec = max
      BY <2>1, <1>0, MaxVecFacts, ResolveType
    <2>3. Knows(local.vec, e) \/ Knows(vec, e)
      BY <2>2, <1>0, MaxVecFacts DEF Knows
    <2> HIDE DEF max
    <2> QED
      BY <2>1, <2>3 DEF resolveConcurrent, resolveLive, Outcome, Writes
  <1> QED
    BY <1>2, <1>3

(* What accounts for a stamp accounts for it for ever.                     *)
LEMMA AccountedStays ==
    ASSUME TypeOK, HistNext, NEW e \in Stamps, Accounted(e)
    PROVE  Accounted(e)'
  <1>1. /\ \A n \in Node : saved[n] \subseteq saved'[n]
        /\ dropped \subseteq dropped'
    BY DiskStep DEF HistNext, Stamps
  <1>2. log \subseteq log' /\ seen \subseteq seen'
    BY DEF HistNext
  <1> QED
    BY <1>1, <1>2 DEF Accounted

(* A file that changes while its apply does not is a user's edit.          *)
LEMMA EditIsSeen ==
    ASSUME HistNext, NEW n \in Node, pend'[n] = pend[n], file'[n] # file[n]
    PROVE  file[n] \in seen'
  BY DEF HistNext, Replaced

(* What is read later is never behind what was read first.                 *)
LEMMA ReadsStep ==
    ASSUME IInv, IInv', [Next]_vars, Over = {}, ReadsBehind,
           reverted = {}, reverted' = {}
    PROVE  ReadsBehind'
  <1>0. TypeOK /\ TypeOK' /\ AppliesForward
    BY DEF IInv
  <1>1. ASSUME NEW k \in Node, NEW v \in Vec, vecLeq(v, man[k].vec)
        PROVE  vecLeq(v, man'[k].vec)
    <2> SUFFICES ASSUME NEW o \in Node PROVE v[o] <= man'[k].vec[o]
      BY DEF vecLeq
    <2>1. v[o] <= man[k].vec[o] /\ man[k].vec[o] <= man'[k].vec[o]
      BY <1>0, <1>1, EntryGrows DEF vecLeq
    <2>2. v[o] \in Nat /\ man[k].vec[o] \in Nat /\ man'[k].vec[o] \in Nat
      BY <1>0 DEF TypeOK, ManEntry, Vec
    <2> QED
      BY <2>1, <2>2
  <1>2. ASSUME NEW k \in Node PROVE man[k].vec \in Vec /\ vecLeq(man[k].vec, man[k].vec)
    BY <1>0 DEF TypeOK, ManEntry, Vec, vecLeq
  <1>3. ASSUME NEW r \in reading' PROVE vecLeq(r.vec, man'[r.from].vec)
    <2>1. r.from \in Node /\ r.vec \in Vec
      BY <1>0 DEF TypeOK
    <2>2. r \in reading \/ r.vec = man[r.from].vec
      BY <1>0, WireStep DEF Reading
    <2> QED
      BY <1>1, <1>2, <2>1, <2>2 DEF ReadsBehind
  <1>4. ASSUME NEW n \in Node, rec'[n].st = "read"
        PROVE  vecLeq(rec'[n].vec, man'[rec'[n].peer].vec)
    <2>1. CASE rec'[n] = rec[n]
      <3>1. rec[n] \in FetchStage
        BY <1>0, <1>4, <2>1 DEF TypeOK, DiffStage, Idle
      <3> QED
        BY <1>1, <1>4, <2>1, <3>1 DEF ReadsBehind, FetchStage
    <2>2. CASE Fetched(n)
      BY <1>1, <1>2, <1>4, <2>2 DEF Fetched
    <2> QED
      BY <1>0, <1>4, <2>1, <2>2, WireStep DEF Rec, Idle
  <1> QED
    BY <1>3, <1>4 DEF ReadsBehind

(* The manifest's part of Carried, after the step.                         *)
ManCarries(e) ==
    \A n \in Node : Knows(man'[n].vec, e) => ~man'[n].deleted /\ file'[n] = e.body

(* The steps of a file, of an apply and of the wire: if whoever knew e     *)
(* carried its body and the manifests go on to, everybody does, or e is    *)
(* accounted for.                                                          *)
LEMMA CarryStep ==
    ASSUME IInv, HistNext, Over = {}, Docs = {}, ReadsBehind,
           NEW e \in Stamps, Carried(e), ManCarries(e),
           reverted = {}, reverted' = {}
    PROVE  Accounted(e)' \/ Carried(e)'
  <1> SUFFICES ASSUME ~Accounted(e)' PROVE Carried(e)'
    OBVIOUS
  <1> USE DEF HistNext
  <1>0. TypeOK /\ e.body # NoFile /\ e.body \in Body /\ e.vec \in Vec /\ e.origin \in Node
    BY DEF IInv, Accounted, Stamps
  <1>1. ASSUME NEW n \in Node PROVE e.body \notin saved'[n] \cup dropped' /\ e.body \notin seen'
    BY DEF Accounted, Holds
  <1>2. ASSUME NEW n \in Node, NEW vec \in Vec, NEW body \in Body,
               NEW by \in {"push", "reconcile"}, BeginApply(n, vec, body, by),
               Knows(vec, e) => body = e.body,
               pend'[n] # NoApply, Knows(pend'[n].vec, e)
        PROVE  pend'[n].body = e.body /\ (pend'[n].step = "record" => file'[n] = e.body)
    <2> DEFINE out == Decide(Local(n), file[n], vec, body)
    <2>1. Local(n) \in ManEntry /\ file[n] \in Body
      BY <1>0, LocalFacts DEF TypeOK
    <2>2. /\ man'[n] = Local(n) /\ file' = file
          /\ out.loser # NoFile => out.loser \in saved'[n] \cup dropped'
          /\ pend'[n].vec = out.vec /\ pend'[n].body = out.body
          /\ pend'[n].step = IF out.how \in Writes THEN "write" ELSE "record"
          /\ out.how # "stale"
      BY <1>0, <1>2, BeginApplyFacts
    <2>3. Knows(Local(n).vec, e) => ~Local(n).deleted /\ file[n] = e.body
      BY <2>2 DEF ManCarries
    <2>4. \/ out.loser = e.body
          \/ out.body = e.body /\ (out.how \notin Writes => file[n] = e.body)
      <3>1. out.how # "stale" /\ Knows(out.vec, e)
        BY <1>2, <2>2 DEF Knows
      <3>2. \/ e.body = NoFile
            \/ out.loser = e.body
            \/ out.body = e.body /\ (out.how \notin Writes => file[n] = e.body)
        BY <1>2, <2>1, <2>3, <3>1, DecideCarries
      <3> QED
        BY <1>0, <3>2
    <2>5. out.loser # e.body
      BY <1>0, <1>1, <2>2
    <2> HIDE DEF out
    <2> QED
      BY <2>2, <2>4, <2>5
  <1>3. ASSUME NEW n \in Node, pend'[n] # NoApply, Knows(pend'[n].vec, e)
        PROVE  pend'[n].body = e.body /\ (pend'[n].step = "record" => file'[n] = e.body)
    <2>1. CASE pend'[n] = pend[n]
      <3>1. pend[n].body = e.body /\ (pend[n].step = "record" => file[n] = e.body)
        BY <1>3, <2>1 DEF Carried
      <3>2. file[n] # e.body \/ file'[n] = file[n]
        BY <1>1, <2>1, EditIsSeen
      <3> QED
        BY <2>1, <3>1, <3>2
    <2>2. CASE ApplyWrite(n)
      <3>1. pend[n] \in Pending
        BY <1>0, <2>2 DEF ApplyWrite, TypeOK
      <3>2. /\ pend'[n].vec = pend[n].vec /\ pend'[n].body = pend[n].body
            /\ pend[n] # NoApply /\ file'[n] = pend[n].body
        BY <1>0, <2>2, <3>1 DEF ApplyWrite, TypeOK, Pending
      <3> QED
        BY <1>3, <3>2 DEF Carried
    <2>3. ASSUME NEW m \in net, BeginApply(n, m.vec, m.body, "push")
          PROVE  pend'[n].body = e.body /\ (pend'[n].step = "record" => file'[n] = e.body)
      <3>1. m.vec \in Vec /\ m.body \in Body
        BY <1>0 DEF TypeOK
      <3>2. Knows(m.vec, e) => m.body = e.body
        BY DEF Carried
      <3> QED
        BY <1>2, <1>3, <2>3, <3>1, <3>2
    <2>4. CASE rec[n].st = "got" /\ BeginApply(n, rec[n].vec, rec[n].body, "reconcile")
      <3>1. rec[n] \in FetchStage
        BY <1>0, <2>4 DEF TypeOK, DiffStage, Idle
      <3>2. rec[n].vec \in Vec /\ rec[n].body \in Body
        BY <3>1 DEF FetchStage
      <3>3. Knows(rec[n].vec, e) => rec[n].body = e.body
        BY <2>4 DEF Carried
      <3> QED
        BY <1>2, <1>3, <2>4, <3>2, <3>3
    <2> QED
      BY <1>0, <1>3, <2>1, <2>2, <2>3, <2>4, DiskStep
  <1>4. ASSUME NEW k \in Node, NEW v \in Vec, vecLeq(v, man[k].vec), Knows(v, e)
        PROVE  file[k] = e.body /\ ~man[k].deleted
    <2>1. v[e.origin] <= man[k].vec[e.origin] /\ e.vec[e.origin] <= v[e.origin]
      BY <1>0, <1>4 DEF vecLeq, Knows
    <2>2. /\ v[e.origin] \in Nat /\ man[k].vec[e.origin] \in Nat
          /\ e.vec[e.origin] \in Nat
      BY <1>0 DEF TypeOK, ManEntry, Vec
    <2>3. Knows(man[k].vec, e)
      BY <2>1, <2>2 DEF Knows
    <2> QED
      BY <2>3 DEF Carried
  <1>5. ASSUME NEW m \in net', Knows(m.vec, e) PROVE m.body = e.body
    <2>1. CASE m \in net
      BY <1>5, <2>1 DEF Carried
    <2>2. ASSUME NEW k \in Node, m.vec = man[k].vec, man[k].deleted PROVE FALSE
      BY <1>5, <2>2 DEF Carried
    <2>3. ASSUME NEW r \in reading, m.vec = r.vec, m.body = file[r.from] PROVE m.body = e.body
      <3>1. r.from \in Node /\ r.vec \in Vec /\ vecLeq(r.vec, man[r.from].vec)
        BY <1>0 DEF TypeOK, ReadsBehind
      <3> QED
        BY <1>4, <1>5, <2>3, <3>1
    <2> QED
      BY <1>0, <2>1, <2>2, <2>3, WireStep DEF Net
  <1>6. ASSUME NEW n \in Node, rec'[n].st = "diff", Knows(rec'[n].rv.vec, e)
        PROVE  ~rec'[n].rv.deleted
    <2>1. CASE rec'[n] = rec[n]
      BY <1>6, <2>1 DEF Carried
    <2>2. ASSUME NEW k \in Node, rec'[n].rv = ver(man[k]) PROVE ~rec'[n].rv.deleted
      BY <1>6, <2>2 DEF Carried, ver
    <2> QED
      BY <1>0, <1>6, <2>1, <2>2, WireStep DEF Rec, Idle
  <1>7. ASSUME NEW n \in Node, rec'[n].st = "got", Knows(rec'[n].vec, e)
        PROVE  rec'[n].body = e.body
    <2>1. CASE rec'[n] = rec[n]
      BY <1>7, <2>1 DEF Carried
    <2>2. CASE rec[n].st = "diff" /\ rec[n].rv.deleted /\ rec'[n].vec = rec[n].rv.vec
      BY <1>7, <2>2 DEF Carried
    <2>3. CASE /\ rec[n].st = "read" /\ rec'[n].vec = rec[n].vec
               /\ rec'[n].body = file[rec[n].peer]
      <3>1. rec[n] \in FetchStage
        BY <1>0, <2>3 DEF TypeOK, DiffStage, Idle
      <3>2. /\ rec[n].peer \in Node /\ rec[n].vec \in Vec
            /\ vecLeq(rec[n].vec, man[rec[n].peer].vec)
        BY <2>3, <3>1 DEF FetchStage, ReadsBehind
      <3> QED
        BY <1>4, <1>7, <2>3, <3>2
    <2> QED
      BY <1>0, <1>7, <2>1, <2>2, <2>3, WireStep DEF Rec, Fetched, Idle
  <1> QED
    BY <1>3, <1>5, <1>6, <1>7 DEF Carried, ManCarries

(* A stamp already in the log.  A node that knew of it and stamps again    *)
(* accounts for it; man.Apply records where the body has been written.     *)
LEMMA OldStamp ==
    ASSUME IInv, HistNext, Over = {}, LogTyped, NEW e \in log, Carried(e),
           reverted = {}, reverted' = {}
    PROVE  Accounted(e)' \/ ManCarries(e)
  <1> SUFFICES ASSUME ~Accounted(e)', NEW n \in Node, Knows(man'[n].vec, e)
               PROVE  ~man'[n].deleted /\ file'[n] = e.body
    BY DEF ManCarries
  <1> USE DEF HistNext
  <1>0. /\ TypeOK /\ AppliesForward /\ e.body # NoFile
        /\ e \in Stamps /\ e.vec \in Vec /\ e.origin \in Node /\ Known(e.vec)
    BY DEF IInv, Accounted, LogTyped, Stamps
  <1>1. file[n] = e.body => pend'[n] # pend[n] \/ file'[n] = file[n]
    <2>1. e.body \notin seen'
      BY DEF Accounted, Holds
    <2> QED
      BY <2>1, EditIsSeen
  <1>2. CASE man'[n] = man[n]
    <2>1. ~man[n].deleted /\ file[n] = e.body
      BY <1>2 DEF Carried
    <2>2. CASE pend'[n] = pend[n]
      BY <1>1, <1>2, <2>1, <2>2
    <2>3. CASE ApplyWrite(n)
      <3>1. pend[n] # NoApply /\ pend[n] \in Pending /\ file'[n] = pend[n].body
        BY <1>0, <2>3 DEF ApplyWrite, TypeOK
      <3>2. e.vec[e.origin] <= man[n].vec[e.origin] /\ man[n].vec[e.origin] <= pend[n].vec[e.origin]
        BY <1>0, <1>2, <3>1 DEF Knows, AppliesForward, vecLeq
      <3>3. /\ e.vec[e.origin] \in Nat /\ man[n].vec[e.origin] \in Nat
            /\ pend[n].vec[e.origin] \in Nat
        BY <1>0, <3>1 DEF TypeOK, ManEntry, Pending, Vec
      <3>4. Knows(pend[n].vec, e)
        BY <3>2, <3>3 DEF Knows
      <3> QED
        BY <1>2, <2>1, <3>1, <3>4 DEF Carried
    <2>4. CASE file'[n] = file[n]
      BY <1>2, <2>1, <2>4
    <2>5. ASSUME NEW vec, NEW body, NEW by, BeginApply(n, vec, body, by) PROVE file' = file
      BY <2>5 DEF BeginApply
    <2> QED
      BY <1>0, <2>2, <2>3, <2>4, <2>5, DiskStep
  <1>3. ASSUME NEW c \in Body, man'[n] = Bumped(n, c) PROVE FALSE
    <2> DEFINE f == [origin |-> n, vec |-> man'[n].vec,
                     body |-> IF man'[n].deleted THEN NoFile ELSE file'[n]]
    <2>1. man'[n].vec[n] = man[n].vec[n] + 1 /\ man[n].vec[n] \in Nat
      BY <1>0, <1>3, BumpFacts DEF TypeOK, ManEntry, Vec
    <2>2. f \in Stamped
      BY <2>1 DEF Stamped
    <2>3. f \in log'
      BY <2>2
    <2>4. e.vec[n] <= man[n].vec[n] /\ e.vec[n] \in Nat
      BY <1>0 DEF Known, Vec
    <2>5. f # e
      BY <2>1, <2>4
    <2>6. Knows(f.vec, e)
      BY DEF Knows
    <2> HIDE DEF f
    <2> QED
      BY <2>3, <2>5, <2>6 DEF Accounted
  <1>4. CASE /\ pend[n] # NoApply /\ pend[n].step = "record"
             /\ man'[n].vec = pend[n].vec /\ man'[n].deleted = Tombstone(pend[n])
    <2>1. pend[n].body = e.body /\ file[n] = e.body
      BY <1>4 DEF Carried, Knows
    <2>2. ~man'[n].deleted
      BY <1>0, <1>4, <2>1 DEF Tombstone
    <2>3. file'[n] = file[n]
      <3>1. ~ApplyWrite(n)
        BY <1>4 DEF ApplyWrite
      <3>2. ASSUME NEW vec, NEW body, NEW by PROVE ~BeginApply(n, vec, body, by)
        BY <1>4 DEF BeginApply
      <3> QED
        BY <1>0, <1>1, <2>1, <3>1, <3>2, DiskStep
    <2> QED
      BY <2>1, <2>2, <2>3
  <1> QED
    BY <1>0, <1>2, <1>3, <1>4, ManStep

(* A new stamp.  Nobody knew of it, and after the step its origin alone    *)
(* knows, whose file it describes.                                         *)
LEMMA NewStamp ==
    ASSUME IInv, HistNext, Over = {}, NEW e \in Stamped,
           reverted = {}, reverted' = {}
    PROVE  /\ e \in Stamps /\ \A o \in Node : e.vec[o] <= man'[o].vec[o]
           /\ Carried(e)
           /\ Accounted(e)' \/ ManCarries(e)
  <1> USE DEF HistNext
  <1>0. TypeOK /\ OriginOwnsCounter
    BY DEF IInv
  <1>1. PICK n \in Node :
          /\ man'[n].vec[n] > man[n].vec[n]
          /\ e = [origin |-> n, vec |-> man'[n].vec,
                  body |-> IF man'[n].deleted THEN NoFile ELSE file'[n]]
    BY DEF Stamped
  <1>2. TypeOK' /\ OriginOwnsCounter'
    BY TypeStep, OwnStep DEF IInv
  <1>3. e \in Stamps
    BY <1>1, <1>2 DEF TypeOK, ManEntry, Stamps, Body
  <1>4. \A o \in Node : e.vec[o] <= man'[o].vec[o]
    BY <1>1, <1>2 DEF OriginOwnsCounter, Known
  <1>5. man'[n].vec[n] \in Nat /\ man[n].vec[n] \in Nat
    BY <1>0, <1>2 DEF TypeOK, ManEntry, Vec
  <1>6. ASSUME NEW v \in Vec, Known(v) PROVE ~Knows(v, e)
    <2>1. v[n] <= man[n].vec[n] /\ v[n] \in Nat
      BY <1>6 DEF Known, Vec
    <2> QED
      BY <1>1, <1>5, <2>1 DEF Knows
  <1>7. ASSUME NEW k \in Node PROVE ~Knows(man[k].vec, e)
    BY <1>0, <1>6 DEF TypeOK, ManEntry, OriginOwnsCounter
  <1>8. ASSUME NEW k \in Node, pend[k] # NoApply PROVE ~Knows(pend[k].vec, e)
    BY <1>0, <1>6, <1>8 DEF TypeOK, Pending, OriginOwnsCounter
  <1>9. Carried(e)
    <2>1. ASSUME NEW m \in net PROVE ~Knows(m.vec, e)
      BY <1>0, <1>6 DEF TypeOK, OriginOwnsCounter
    <2>2. ASSUME NEW k \in Node, rec[k].st = "diff" PROVE ~Knows(rec[k].rv.vec, e)
      <3>1. rec[k] \in DiffStage
        BY <1>0, <2>2 DEF TypeOK, FetchStage, Idle
      <3> QED
        BY <1>0, <1>6, <2>2, <3>1 DEF DiffStage, OriginOwnsCounter
    <2>3. ASSUME NEW k \in Node, rec[k].st = "got" PROVE ~Knows(rec[k].vec, e)
      <3>1. rec[k] \in FetchStage
        BY <1>0, <2>3 DEF TypeOK, DiffStage, Idle
      <3> QED
        BY <1>0, <1>6, <2>3, <3>1 DEF FetchStage, OriginOwnsCounter
    <2> QED
      BY <1>7, <1>8, <2>1, <2>2, <2>3 DEF Carried
  <1>10. ASSUME ~Accounted(e)', NEW k \in Node, Knows(man'[k].vec, e)
         PROVE  ~man'[k].deleted /\ file'[k] = e.body
    <2>1. CASE k = n
      BY <1>1, <1>10, <2>1 DEF Accounted
    <2>2. CASE k # n
      <3>1. ASSUME NEW c \in Body, man'[k] = Bumped(k, c) PROVE FALSE
        <4>1. man'[k].vec[n] = man[k].vec[n]
          BY <1>0, <2>2, <3>1, BumpFacts
        <4> QED
          BY <1>1, <1>7, <1>10, <4>1 DEF Knows
      <3>2. CASE man'[k] = man[k]
        BY <1>7, <1>10, <3>2
      <3>3. CASE pend[k] # NoApply /\ man'[k].vec = pend[k].vec
        BY <1>8, <1>10, <3>3 DEF Knows
      <3> QED
        BY <1>0, <3>1, <3>2, <3>3, ManStep
    <2> QED
      BY <2>1, <2>2
  <1> QED
    BY <1>3, <1>4, <1>9, <1>10 DEF ManCarries

(* What holds of the history whatever the bodies.                          *)
LEMMA LogStep ==
    ASSUME IInv, LogTyped, ReadsBehind, HistNext, Over = {}, reverted = {}, reverted' = {}
    PROVE  IInv' /\ LogTyped' /\ ReadsBehind'
  <1>0. [Next]_vars
    BY DEF HistNext
  <1>1. IInv'
    BY <1>0, TypeStep, WaitsStep, ForwardStep, OwnStep DEF IInv
  <1>2. ReadsBehind'
    BY <1>0, <1>1, ReadsStep
  <1>3. LogTyped'
    <2>1. ASSUME NEW e \in log PROVE e \in Stamps /\ Known(e.vec)'
      <3>1. e \in Stamps /\ e.vec \in Vec /\ Known(e.vec)
        BY DEF LogTyped, Stamps
      <3>2. \A o \in Node : e.vec[o] <= man'[o].vec[o]
        BY <1>0, <1>1, <3>1, KnownGrows DEF IInv
      <3> QED
        BY <3>1, <3>2 DEF Known
    <2>2. ASSUME NEW e \in Stamped PROVE e \in Stamps /\ Known(e.vec)'
      BY NewStamp DEF Known
    <2>3. log' = log \cup Stamped
      BY DEF HistNext
    <2> QED
      BY <2>1, <2>2, <2>3 DEF LogTyped
  <1> QED
    BY <1>1, <1>2, <1>3

(* HistInv is inductive.                                                   *)
LEMMA HistStep ==
    ASSUME HistInv, [HistNext]_histVars, Over = {}, Docs = {}
    PROVE  HistInv'
  <1>1. CASE HistNext
    <2>0. [Next]_vars /\ IInv
      BY <1>1 DEF HistNext, HistInv
    <2>1. IInv'
      BY <2>0, TypeStep, WaitsStep, ForwardStep, OwnStep DEF IInv
    <2>2. ASSUME reverted' = {} PROVE reverted = {} /\ LogTyped /\ ReadsBehind
      BY <2>0, <2>2, RevertedStep DEF HistInv
    <2>3. ASSUME reverted' = {} PROVE LogTyped' /\ ReadsBehind'
      BY <1>1, <2>0, <2>2, <2>3, LogStep
    <2>4. ASSUME reverted' = {}, NEW e \in log' PROVE Accounted(e)' \/ Carried(e)'
      <3>0. reverted = {} /\ LogTyped /\ ReadsBehind
        BY <2>2, <2>4
      <3>1. CASE e \in log
        <4>1. CASE Accounted(e)
          BY <1>1, <2>0, <3>0, <3>1, <4>1, AccountedStays DEF IInv, LogTyped
        <4>2. CASE Carried(e)
          BY <1>1, <2>0, <2>4, <3>0, <3>1, <4>2, OldStamp, CarryStep DEF LogTyped
        <4> QED
          BY <3>0, <3>1, <4>1, <4>2 DEF HistInv
      <3>2. CASE e \in Stamped
        BY <1>1, <2>0, <2>4, <3>0, <3>2, NewStamp, CarryStep
      <3> QED
        BY <1>1, <2>4, <3>1, <3>2 DEF HistNext
    <2> QED
      BY <2>1, <2>3, <2>4 DEF HistInv
  <1>2. CASE UNCHANGED histVars
    BY <1>2
    DEF histVars, vars, HistInv, IInv, TypeOK, ReconcileWaits, AppliesForward,
        OriginOwnsCounter, Known, LogTyped, ReadsBehind, Accounted, Carried
  <1> QED
    BY <1>1, <1>2

(* No stamped body is lost, for any mesh of plain files under the cap,     *)
(* with any number of edits, crashes, failed writes and lost or replayed   *)
(* requests: the node that stamped it either still has it on disk or the   *)
(* body is backed up (or that write failed, which the daemon only logs),   *)
(* replaced by a user, or superseded by a later stamp - until a node comes *)
(* up on an older manifest, its later ones not having been saved.          *)
THEOREM NoStampIsLost ==
    ASSUME Over = {}, Docs = {}
    PROVE  HistSpec => []WritesSurvive
  <1>1. HistInit => HistInv
    <2>1. Init => IInv
      BY ContentAssumption, BoundAssumption
      DEF Init, IInv, TypeOK, ReconcileWaits, AppliesForward, OriginOwnsCounter, Known,
          Absent, Zero, ManEntry, Vec, Body, Idle, NoApply
    <2> QED
      BY <2>1 DEF HistInit, HistInv, LogTyped, ReadsBehind, Init, Idle
  <1>2. HistInv /\ [HistNext]_histVars => HistInv'
    BY HistStep
  <1>3. HistInv => WritesSurvive
    <2> SUFFICES ASSUME HistInv, reverted = {}, NEW e \in log, Carried(e)
                 PROVE  \E n \in Node : file[n] = e.body
      BY DEF HistInv, WritesSurvive, Holds
    <2>1. e.origin \in Node /\ Knows(man[e.origin].vec, e)
      BY DEF HistInv, LogTyped, Stamps, Known, Knows
    <2> QED
      BY <2>1 DEF Carried
  <1> QED
    BY <1>1, <1>2, <1>3, PTL DEF HistSpec

-----------------------------------------------------------------------------
(* Mergeable documents: what is saved is in every copy that knows of it.   *)

(* In the order in which merging is the least upper bound.                 *)
Below(x, y) == Merge(x, y) = y

(* Merging is idempotent, commutes and associates, as MergesCommute and    *)
(* MergesAssociate say of mergeItems and mergeDrafts, and what the guard   *)
(* lets a save write is at or above what it replaces (SaveIsAbove).        *)
MergesWell ==
    /\ \A x \in Docs : Merge(x, x) = x
    /\ \A x, y \in Docs : Merge(x, y) = Merge(y, x)
    /\ \A x, y, z \in Docs : Merge(Merge(x, y), z) = Merge(x, Merge(y, z))
    /\ \A x \in Docs, y \in Saves : Below(x, Guard(x, y))

(* An app's documents: they parse, are under the cap, and change by the    *)
(* app's saves alone.                                                      *)
OnlySaves ==
    /\ EditKinds \subseteq {"write"}
    /\ Saves \subseteq Docs
    /\ InitFiles \subseteq Docs \cup {NoFile}
    /\ Over = {}

(* The order's laws.                                                       *)
LEMMA BelowFacts ==
    ASSUME MergesWell, NEW x \in Docs, NEW y \in Docs
    PROVE  /\ Merge(x, y) \in Docs
           /\ Below(x, x)
           /\ Below(x, y) /\ Below(y, x) => x = y
           /\ Below(x, Merge(x, y)) /\ Below(y, Merge(x, y))
  <1>1. Merge(x, y) \in Docs /\ Merge(x, x) = x /\ Merge(y, y) = y
    BY ContentAssumption DEF MergesWell
  <1>2. Merge(x, y) = Merge(y, x)
    BY DEF MergesWell
  <1>3. Merge(Merge(x, x), y) = Merge(x, Merge(x, y))
    BY DEF MergesWell
  <1>4. Merge(Merge(y, y), x) = Merge(y, Merge(y, x))
    BY DEF MergesWell
  <1> QED
    BY <1>1, <1>2, <1>3, <1>4 DEF Below

(* It is transitive, and a merge is the least of what is above both.       *)
LEMMA BelowTrans ==
    ASSUME MergesWell, NEW x \in Docs, NEW y \in Docs, NEW z \in Docs, Below(y, z)
    PROVE  /\ Below(x, y) => Below(x, z)
           /\ Below(x, z) => Below(Merge(x, y), z)
  <1>1. Merge(Merge(x, y), z) = Merge(x, Merge(y, z))
    BY DEF MergesWell
  <1> QED
    BY <1>1 DEF Below

(* Among the stamps in L: c is at or above all that vec knows of, and      *)
(* holds nothing that was not saved.                                       *)
Covers(L, vec, c) == \A e \in L : Knows(vec, e) => Below(e.body, c)
Least(L, c) == \A x \in Docs : (\A e \in L : Below(e.body, x)) => Below(c, x)
Joins(L, vec, c) == c \in Docs /\ Covers(L, vec, c) /\ Least(L, c)

(* A version and the documents that go with it.                            *)
JoinInv ==
    /\ \A e \in log : e.body \in Docs /\ e.vec[e.origin] > 0
    /\ \A n \in Node :
         /\ dav[n] = "none" /\ ~man[n].deleted
         /\ file[n] \in Docs \cup {NoFile}
         /\ clean[n] => man[n].vec # Zero
         /\ kept[n].clean => kept[n].entry.vec # Zero
         /\ man[n].vec # Zero => Joins(log, man[n].vec, file[n])
         /\ pend[n] # NoApply =>
              /\ pend[n].vec # Zero
              /\ Joins(log, pend[n].vec, pend[n].body)
              /\ pend[n].step = "record" => file[n] = pend[n].body
         /\ rec[n].st = "diff" => ~rec[n].rv.deleted
         /\ rec[n].st = "read" => rec[n].vec # Zero
         /\ rec[n].st = "got" => Joins(log, rec[n].vec, rec[n].body)
    /\ \A r \in reading : r.vec # Zero
    /\ \A m \in net : Joins(log, m.vec, m.body)

(* The merge of two versions' documents goes with their maximum.           *)
LEMMA MergeJoins ==
    ASSUME MergesWell, NEW L \in SUBSET Stamps, \A e \in L : e.body \in Docs,
           NEW u \in Vec, NEW v \in Vec, NEW c, NEW d,
           Joins(L, u, c), Joins(L, v, d)
    PROVE  Joins(L, MaxVec(u, v), Merge(c, d))
  <1>1. c \in Docs /\ d \in Docs
    BY DEF Joins
  <1>2. Merge(c, d) \in Docs /\ Below(c, Merge(c, d)) /\ Below(d, Merge(c, d))
    BY <1>1, BelowFacts
  <1>3. ASSUME NEW e \in L, Knows(MaxVec(u, v), e) PROVE Below(e.body, Merge(c, d))
    <2>1. Knows(u, e) \/ Knows(v, e)
      BY <1>3, MaxVecFacts DEF Knows, Stamps
    <2>2. Below(e.body, c) \/ Below(e.body, d)
      BY <2>1 DEF Joins, Covers
    <2> QED
      BY <1>1, <1>2, <2>2, BelowTrans
  <1>4. ASSUME NEW x \in Docs, \A e \in L : Below(e.body, x) PROVE Below(Merge(c, d), x)
    <2>1. Below(c, x) /\ Below(d, x)
      BY <1>4 DEF Joins, Least
    <2> QED
      BY <1>1, <2>1, BelowTrans
  <1> QED
    BY <1>2, <1>3, <1>4 DEF Joins, Covers, Least

(* ApplyRemote, merging: what goes with the two sides' versions goes, put  *)
(* together, with the version it records.                                  *)
LEMMA DecideJoins ==
    ASSUME MergesWell, NEW L \in SUBSET Stamps, \A e \in L : e.body \in Docs,
           NEW local \in ManEntry, ~local.deleted, NEW disk \in Body,
           IF local.vec = Zero THEN disk = NoFile ELSE Joins(L, local.vec, disk),
           NEW vec \in Vec, NEW body, Joins(L, vec, body),
           Decide(local, disk, vec, body).how # "stale"
    PROVE  LET out == Decide(local, disk, vec, body)
           IN  /\ out.vec # Zero
               /\ Joins(L, out.vec, out.body)
               /\ out.how \notin Writes => out.body = disk
  <1> DEFINE rv == [vec |-> vec, deleted |-> body = NoFile]
             max == MaxVec(local.vec, vec)
             out == Decide(local, disk, vec, body)
  <1>0. local.vec \in Vec /\ Zero \in Vec /\ body \in Docs /\ body # NoFile
    BY ContentAssumption DEF ManEntry, Joins, Zero, Vec
  <1>1. ~(SameVersion(local, rv) \/ Dominates(local, rv))
    <2>1. SameVersion(local, rv) \/ Dominates(local, rv) => out.how = "stale"
      BY DEF Decide, Outcome
    <2> QED
      BY <2>1
  <1>2. CASE Dominates(rv, local)
    <2>1. out = Outcome("applied", body, vec, NoFile)
      BY <1>1, <1>2 DEF Decide
    <2>2. vec # Zero
      <3>1. ~vecLeq(vec, local.vec)
        BY <1>2 DEF Dominates
      <3>2. vecLeq(Zero, local.vec)
        BY <1>0 DEF vecLeq, Zero, Vec
      <3> QED
        BY <3>1, <3>2
    <2> QED
      BY <2>1, <2>2 DEF Outcome, Writes
  <1>3. CASE ~Dominates(rv, local)
    <2>1. ~vecLeq(local.vec, vec)
      <3>1. vecLeq(local.vec, vec) => Dominates(rv, local) \/ SameVersion(local, rv)
        BY <1>0 DEF Dominates, SameVersion, ManEntry
      <3> QED
        BY <1>1, <1>3, <3>1
    <2>2. local.vec # Zero
      <3>1. vecLeq(Zero, vec)
        BY DEF vecLeq, Zero, Vec
      <3> QED
        BY <2>1, <3>1
    <2>3. disk \in Docs /\ Joins(L, local.vec, disk)
      BY <2>2 DEF Joins
    <2>4. out = resolveLive(disk, body, max)
      BY <1>0, <1>1, <1>3 DEF Decide, resolveConcurrent
    <2>5. /\ out.vec = max /\ out.body = Merge(disk, body)
          /\ out.how \notin Writes => out.body = disk
      BY <1>0, <2>3, <2>4 DEF resolveLive, Outcome, Writes
    <2>6. max # Zero
      <3>1. max \in Vec /\ vecLeq(local.vec, max)
        BY <1>0, MaxVecFacts
      <3> HIDE DEF max
      <3>2. max = Zero => vecLeq(local.vec, vec)
        <4> SUFFICES ASSUME max = Zero, NEW o \in Node PROVE local.vec[o] <= vec[o]
          BY DEF vecLeq
        <4>1. local.vec[o] <= 0 /\ local.vec[o] \in Nat /\ vec[o] \in Nat
          BY <1>0, <3>1 DEF vecLeq, Zero, Vec
        <4> QED
          BY <4>1
      <3> QED
        BY <2>1, <3>2
    <2>7. Joins(L, max, Merge(disk, body))
      BY <1>0, <2>3, MergeJoins
    <2> QED
      BY <2>5, <2>6, <2>7
  <1> QED
    BY <1>2, <1>3

(* What a step does to the document on n's disk, when it changes by saves  *)
(* only: nothing; a stamp on what is there, a save or a scan; or a step of *)
(* the apply that holds the lock.                                          *)
SaveStep(n) ==
    \/ man'[n] = man[n] /\ file'[n] = file[n] /\ (clean'[n] => man[n].vec # Zero)
    \/ /\ pend[n] = NoApply
       /\ file'[n] \in Docs /\ man'[n] = Bumped(n, file'[n])
       /\ file[n] = NoFile \/ Below(file[n], file'[n])
    \/ ApplyWrite(n)
    \/ Record(n)

(* Every step is one of these: one step per action.                        *)
LEMMA SavesOnly ==
    ASSUME TypeOK, MergesWell, OnlySaves, JoinInv, [Next]_vars, NEW n \in Node,
           reverted' = {}
    PROVE  SaveStep(n) /\ dav'[n] = "none"
  <1> USE ContentAssumption DEF OnlySaves, JoinInv
  <1> DEFINE Goal == SaveStep(n) /\ dav'[n] = "none"
             Same == /\ man'[n] = man[n] /\ file'[n] = file[n] /\ dav'[n] = "none"
                     /\ clean'[n] => man[n].vec # Zero
  <1>0. Same => Goal
    BY DEF SaveStep
  <1>1. CASE UNCHANGED <<file, man, clean, dav>>
    BY <1>0, <1>1
  <1>2. ASSUME NEW k \in Node, NEW c \in Saves, ApiWrite(k, c) PROVE Goal
    <2>1. CASE k # n
      BY <1>0, <1>2, <2>1 DEF ApiWrite, StampAndPush, TypeOK
    <2>2. CASE k = n
      <3> DEFINE w == IF file[n] \in Docs /\ c \in Docs THEN Guard(file[n], c) ELSE c
      <3>1. w \in Docs /\ (file[n] = NoFile \/ Below(file[n], w))
        BY DEF MergesWell
      <3>2. pend[n] = NoApply /\ file'[n] = w /\ dav' = dav /\ StampAndPush(n, w)
        BY <1>2, <2>2 DEF ApiWrite, TypeOK
      <3> HIDE DEF w
      <3> QED
        BY <3>1, <3>2 DEF StampAndPush, SaveStep, TypeOK
    <2> QED
      BY <2>1, <2>2
  <1>3. ASSUME NEW k \in Node, ApiDelete(k) PROVE Goal
    BY <1>3 DEF ApiDelete, Edit
  <1>4. ASSUME NEW k \in Node, NEW c \in Saves \cup {NoFile}, DirectEdit(k, c) PROVE Goal
    BY <1>4 DEF DirectEdit, Edit
  <1>5. ASSUME NEW k \in Node, NEW c \in Saves \cup {NoFile}, DavChange(k, c) PROVE Goal
    BY <1>5 DEF DavChange, Edit
  <1>6. ASSUME NEW k \in Node, DavChanged(k) PROVE Goal
    BY <1>6 DEF DavChanged
  <1>7. ASSUME NEW k \in Node, Scan(k) PROVE Goal
    <2>1. dav' = dav /\ file' = file /\ pend[k] = NoApply
      BY <1>7 DEF Scan
    <2>2. CASE k # n \/ UNCHANGED <<man, clean>>
      BY <1>0, <1>7, <2>1, <2>2 DEF Scan, scanRoot, StampAndPush, TypeOK
    <2>3. CASE k = n /\ ~UNCHANGED <<man, clean>>
      <3>1. man[n].vec # Zero => file[n] # NoFile
        BY DEF Joins
      <3>2. StampAndPush(n, file[n]) /\ file[n] # NoFile
        BY <1>7, <2>3, <3>1 DEF Scan, scanRoot
      <3>3. Below(file[n], file[n])
        BY <3>2, BelowFacts
      <3> QED
        BY <2>1, <2>3, <3>2, <3>3 DEF StampAndPush, SaveStep, TypeOK
    <2> QED
      BY <2>2, <2>3
  <1>8. ASSUME NEW k \in Node, NEW vec, NEW body, NEW by, BeginApply(k, vec, body, by)
        PROVE  Goal
    <2>1. /\ dav' = dav /\ file' = file /\ pend[k] = NoApply
          /\ man' = [man EXCEPT ![k] = Local(k)] /\ clean' = [clean EXCEPT ![k] = @ \/ Unseen(k)]
      BY <1>8 DEF BeginApply
    <2>2. CASE k # n
      BY <1>0, <2>1, <2>2 DEF TypeOK
    <2>3. CASE k = n /\ ~Unseen(n)
      BY <1>0, <2>1, <2>3 DEF TypeOK, Local
    <2>4. CASE k = n /\ Unseen(n)
      <3>1. file[n] \in Docs /\ man'[n] = Bumped(n, file'[n])
        BY <2>1, <2>4 DEF TypeOK, Local, Unseen
      <3>2. Below(file[n], file[n])
        BY <3>1, BelowFacts
      <3> QED
        BY <2>1, <2>4, <3>1, <3>2 DEF SaveStep
    <2> QED
      BY <2>2, <2>3, <2>4
  <1>9. ASSUME NEW m \in net, Receive(m) PROVE Goal
    BY <1>8, <1>9 DEF Receive, TypeOK
  <1>10. ASSUME NEW k \in Node, RecApply(k) PROVE Goal
    BY <1>8, <1>10 DEF RecApply
  <1>11. ASSUME NEW k \in Node, ApplyWrite(k) PROVE Goal
    BY <1>0, <1>11 DEF ApplyWrite, SaveStep, TypeOK
  <1>12. ASSUME NEW k \in Node, Record(k) PROVE Goal
    BY <1>0, <1>12 DEF Record, SaveStep, TypeOK
  <1>13. ASSUME NEW k \in Node, RecordPanics(k) PROVE Goal
    BY <1>1, <1>13 DEF RecordPanics
  <1>14. ASSUME NEW k \in Node, Dies(k) PROVE Goal
    <2>1. Restart(k)
      BY <1>14 DEF Dies, Crash, LoopPanics
    <2>2. kept[k].entry = man[k]
      BY <2>1 DEF Restart
    <2> QED
      BY <1>0, <2>1, <2>2 DEF Restart, TypeOK
  <1>15. ASSUME NEW k \in Node, ApplyFails(k) PROVE Goal
    BY <1>1, <1>15 DEF ApplyFails
  <1>16. ASSUME NEW k \in Node, FetchFails(k) \/ RecDiff(k) \/ RecAsk(k) \/ RecRead(k)
         PROVE  Goal
    BY <1>1, <1>16 DEF FetchFails, RecDiff, RecAsk, RecRead, fileUnchanged
  <1>17. ASSUME NEW k \in Node, NEW p \in Node,
                RecManifest(k, p) \/ RecUnreachable(k, p) \/ PushVersion(k, p)
         PROVE  Goal
    BY <1>1, <1>17 DEF RecManifest, RecUnreachable, PushVersion, fileUnchanged
  <1>18. ASSUME NEW r \in reading, PushBody(r) PROVE Goal
    BY <1>1, <1>18 DEF PushBody
  <1>19. CASE UNCHANGED vars
    BY <1>1, <1>19 DEF vars
  <1> QED
    BY <1>2, <1>3, <1>4, <1>5, <1>6, <1>7, <1>9, <1>10, <1>11, <1>12, <1>13, <1>14,
       <1>15, <1>16, <1>17, <1>18, <1>19
    DEF Next, Step, Loop, Apply

(* A new stamp describes the disk of its origin, and no version in         *)
(* circulation knows of it.                                                *)
LEMMA FreshStamp ==
    ASSUME IInv, MergesWell, OnlySaves, JoinInv, HistNext, NEW e \in Stamped,
           reverted = {}, reverted' = {}
    PROVE  /\ e \in Stamps /\ e.body \in Docs
           /\ pend[e.origin] = NoApply
           /\ e.vec = man'[e.origin].vec /\ e.body = file'[e.origin]
           /\ man'[e.origin] = Bumped(e.origin, file'[e.origin])
           /\ e.vec[e.origin] > 0
           /\ \A v \in Vec : Known(v) => ~Knows(v, e)
  <1>0. TypeOK /\ OriginOwnsCounter /\ [Next]_vars /\ Over = {}
    BY DEF IInv, HistNext, OnlySaves
  <1>1. PICK n \in Node :
          /\ man'[n].vec[n] > man[n].vec[n]
          /\ e = [origin |-> n, vec |-> man'[n].vec,
                  body |-> IF man'[n].deleted THEN NoFile ELSE file'[n]]
    BY DEF Stamped
  <1>2. man[n].vec[n] \in Nat /\ man[n].vec \in Vec
    BY <1>0 DEF TypeOK, ManEntry, Vec
  <1>3. ~ApplyWrite(n)
    BY <1>1, <1>2 DEF ApplyWrite
  <1>4. ~Record(n)
    <2> SUFFICES ASSUME Record(n) PROVE FALSE
      OBVIOUS
    <2>1. man'[n].vec = pend[n].vec /\ pend[n] # NoApply
      BY <1>0 DEF Record, TypeOK
    <2>2. pend[n].vec[n] <= man[n].vec[n] /\ pend[n].vec[n] \in Nat
      BY <1>0, <2>1 DEF OriginOwnsCounter, Known, TypeOK, Pending, Vec
    <2> QED
      BY <1>1, <1>2, <2>1, <2>2
  <1>5. /\ pend[n] = NoApply /\ file'[n] \in Docs
        /\ man'[n] = Bumped(n, file'[n])
    BY <1>0, <1>1, <1>2, <1>3, <1>4, SavesOnly DEF SaveStep
  <1>6. /\ man'[n] \in ManEntry /\ man'[n].vec[n] = man[n].vec[n] + 1 /\ ~man'[n].deleted
        /\ file'[n] \in Body
    <2>1. file'[n] \in Body /\ file'[n] # NoFile
      BY <1>5, ContentAssumption DEF Body
    <2> QED
      BY <1>0, <1>5, <2>1, BumpFacts
  <1>7. ASSUME NEW v \in Vec, Known(v) PROVE ~Knows(v, e)
    <2>1. v[n] <= man[n].vec[n] /\ v[n] \in Nat
      BY <1>7 DEF Known, Vec
    <2> QED
      BY <1>1, <1>2, <1>6, <2>1 DEF Knows
  <1> QED
    BY <1>1, <1>2, <1>5, <1>6, <1>7 DEF Stamps, ManEntry

(* What goes with a version goes on with it.                               *)
LEMMA JoinsStay ==
    ASSUME IInv, MergesWell, OnlySaves, JoinInv, HistNext,
           NEW vec \in Vec, Known(vec), NEW c, Joins(log, vec, c),
           reverted = {}, reverted' = {}
    PROVE  Joins(log', vec, c)
  <1>1. log' = log \cup Stamped
    BY DEF HistNext
  <1>2. ASSUME NEW e \in Stamped PROVE ~Knows(vec, e)
    BY FreshStamp
  <1> QED
    BY <1>1, <1>2 DEF Joins, Covers, Least

(* What is on a node's disk goes with the version it has recorded, a new   *)
(* stamp or an old one.                                                    *)
LEMMA ManJoins ==
    ASSUME IInv, LogTyped, MergesWell, OnlySaves, JoinInv, HistNext, NEW n \in Node,
           reverted = {}, reverted' = {}
    PROVE  /\ ~man'[n].deleted /\ file'[n] \in Docs \cup {NoFile}
           /\ clean'[n] => man'[n].vec # Zero
           /\ man'[n].vec # Zero => Joins(log', man'[n].vec, file'[n])
  <1> DEFINE Goal ==
        /\ ~man'[n].deleted /\ file'[n] \in Docs \cup {NoFile}
        /\ clean'[n] => man'[n].vec # Zero
        /\ man'[n].vec # Zero => Joins(log', man'[n].vec, file'[n])
  <1>0. /\ TypeOK /\ OriginOwnsCounter /\ AppliesForward /\ [Next]_vars
        /\ man[n].vec \in Vec /\ Known(man[n].vec)
    BY DEF IInv, HistNext, OriginOwnsCounter, TypeOK, ManEntry
  <1>1. CASE man'[n] = man[n] /\ file'[n] = file[n] /\ (clean'[n] => man[n].vec # Zero)
    BY <1>0, <1>1, JoinsStay DEF JoinInv
  <1>2. CASE /\ file'[n] \in Docs /\ man'[n] = Bumped(n, file'[n])
             /\ file[n] = NoFile \/ Below(file[n], file'[n])
    <2>1. /\ man'[n] \in ManEntry /\ man'[n].vec[n] = man[n].vec[n] + 1 /\ ~man'[n].deleted
          /\ \A o \in Node \ {n} : man'[n].vec[o] = man[n].vec[o]
          /\ man[n].vec[n] \in Nat
      <3>1. file'[n] \in Body /\ file'[n] # NoFile
        BY <1>2, ContentAssumption DEF Body
      <3>2. man[n].vec[n] \in Nat
        BY <1>0 DEF Vec
      <3>3. /\ Bumped(n, file'[n]) \in ManEntry
            /\ Bumped(n, file'[n]).vec[n] = man[n].vec[n] + 1
            /\ \A o \in Node \ {n} : Bumped(n, file'[n]).vec[o] = man[n].vec[o]
            /\ ~Bumped(n, file'[n]).deleted
        BY <1>0, <3>1, BumpFacts
      <3> QED
        BY <1>2, <3>2, <3>3
    <2>2. man'[n].vec # Zero
      BY <2>1 DEF Zero
    <2> DEFINE f == [origin |-> n, vec |-> man'[n].vec, body |-> file'[n]]
    <2>3. f \in log' /\ log' = log \cup Stamped
      <3>1. f \in Stamped
        BY <2>1 DEF Stamped
      <3> QED
        BY <3>1 DEF HistNext
    <2>4. Least(log', file'[n])
      BY <2>3 DEF Least
    <2>5. ASSUME NEW e \in log, Knows(man'[n].vec, e) PROVE Below(e.body, file'[n])
      <3>1. e \in Stamps /\ Known(e.vec) /\ e.body \in Docs /\ e.vec[e.origin] > 0
        BY DEF LogTyped, JoinInv
      <3>2. Knows(man[n].vec, e)
        BY <2>1, <2>5, <3>1 DEF Knows, Known, Stamps
      <3>3. man[n].vec # Zero
        BY <3>1, <3>2 DEF Knows, Zero, Stamps, Vec
      <3>4. file[n] \in Docs /\ Below(e.body, file[n])
        BY <3>2, <3>3 DEF JoinInv, Joins, Covers
      <3>5. Below(file[n], file'[n])
        BY <1>2, <3>4, ContentAssumption
      <3> QED
        BY <1>2, <3>1, <3>4, <3>5, BelowTrans
    <2>6. ASSUME NEW e \in Stamped, Knows(man'[n].vec, e) PROVE Below(e.body, file'[n])
      <3>1. e.origin \in Node /\ e.body = file'[e.origin] /\ ~Knows(man[n].vec, e)
        BY <1>0, FreshStamp DEF Stamps
      <3>2. e.origin = n
        BY <2>1, <2>6, <3>1 DEF Knows
      <3> QED
        BY <1>2, <3>1, <3>2, BelowFacts
    <2> HIDE DEF f
    <2> QED
      BY <1>2, <2>1, <2>2, <2>3, <2>4, <2>5, <2>6 DEF Joins, Covers
  <1>3. CASE ApplyWrite(n)
    <2>1. /\ man'[n] = man[n] /\ file'[n] = pend[n].body /\ ~clean'[n]
          /\ pend[n] # NoApply /\ pend[n] \in Pending
      BY <1>0, <1>3 DEF ApplyWrite, TypeOK
    <2>2. /\ Joins(log, pend[n].vec, pend[n].body) /\ ~man[n].deleted
          /\ vecLeq(man[n].vec, pend[n].vec) /\ pend[n].vec \in Vec
      BY <2>1, <1>0 DEF JoinInv, AppliesForward, Pending
    <2>3. Joins(log, man[n].vec, pend[n].body)
      <3>1. ASSUME NEW e \in log, Knows(man[n].vec, e) PROVE Knows(pend[n].vec, e)
        <4>1. e \in Stamps
          BY DEF LogTyped
        <4>2. /\ e.vec[e.origin] <= man[n].vec[e.origin]
              /\ man[n].vec[e.origin] <= pend[n].vec[e.origin]
          BY <2>2, <3>1, <4>1 DEF Knows, vecLeq, Stamps
        <4>3. /\ e.vec[e.origin] \in Nat /\ man[n].vec[e.origin] \in Nat
              /\ pend[n].vec[e.origin] \in Nat
          BY <1>0, <2>2, <4>1 DEF Stamps, Vec
        <4> QED
          BY <4>2, <4>3 DEF Knows
      <3> QED
        BY <2>2, <3>1 DEF Joins, Covers
    <2>4. Joins(log', man[n].vec, pend[n].body)
      BY <1>0, <2>3, JoinsStay
    <2> QED
      BY <2>1, <2>2, <2>4 DEF Joins
  <1>4. CASE Record(n)
    <2>1. /\ man'[n].vec = pend[n].vec /\ man'[n].deleted = Tombstone(pend[n])
          /\ file'[n] = file[n] /\ pend[n] # NoApply /\ pend[n] \in Pending
          /\ pend[n].step = "record"
      BY <1>0, <1>4 DEF Record, TypeOK
    <2>2. /\ Joins(log, pend[n].vec, pend[n].body) /\ file[n] = pend[n].body
          /\ pend[n].vec # Zero /\ pend[n].vec \in Vec /\ Known(pend[n].vec)
      BY <1>0, <2>1 DEF JoinInv, Pending, OriginOwnsCounter
    <2>3. pend[n].body \in Docs /\ pend[n].body # NoFile
      BY <2>2, ContentAssumption DEF Joins
    <2>4. Joins(log', pend[n].vec, pend[n].body)
      BY <2>2, JoinsStay
    <2> QED
      BY <2>1, <2>2, <2>3, <2>4 DEF Tombstone
  <1> QED
    BY <1>0, <1>1, <1>2, <1>3, <1>4, SavesOnly DEF SaveStep

(* An apply in progress goes with the version it is going to record.       *)
LEMMA PendJoins ==
    ASSUME IInv, LogTyped, MergesWell, OnlySaves, JoinInv, HistNext, NEW n \in Node,
           pend'[n] # NoApply, reverted = {}, reverted' = {}
    PROVE  /\ pend'[n].vec # Zero
           /\ Joins(log', pend'[n].vec, pend'[n].body)
           /\ pend'[n].step = "record" => file'[n] = pend'[n].body
  <1> DEFINE Goal == /\ pend'[n].vec # Zero
                     /\ Joins(log', pend'[n].vec, pend'[n].body)
                     /\ pend'[n].step = "record" => file'[n] = pend'[n].body
  <1>0. TypeOK /\ OriginOwnsCounter /\ [Next]_vars
    BY DEF IInv, HistNext
  <1>1. ASSUME pend[n] # NoApply
        PROVE  /\ pend[n] \in Pending /\ pend[n].vec # Zero
               /\ Joins(log', pend[n].vec, pend[n].body)
               /\ pend[n].step = "record" => file[n] = pend[n].body
    <2>1. pend[n] \in Pending /\ pend[n].vec \in Vec /\ Known(pend[n].vec)
      BY <1>0, <1>1 DEF TypeOK, Pending, OriginOwnsCounter
    <2>2. Joins(log, pend[n].vec, pend[n].body)
      BY <1>1 DEF JoinInv
    <2> QED
      BY <1>1, <2>1, <2>2, JoinsStay DEF JoinInv
  <1>2. CASE pend'[n] = pend[n]
    <2>1. pend[n].step = "record" => file'[n] = file[n] \/ file'[n] = pend[n].body
      BY <1>0, <1>2, SavesOnly DEF SaveStep, ApplyWrite, Record
    <2> QED
      BY <1>1, <1>2, <2>1
  <1>3. CASE ApplyWrite(n)
    <2>1. pend[n] # NoApply /\ pend[n] \in Pending
      BY <1>0, <1>3 DEF ApplyWrite, TypeOK
    <2>2. /\ pend'[n].vec = pend[n].vec /\ pend'[n].body = pend[n].body
          /\ file'[n] = pend[n].body
      BY <1>0, <1>3, <2>1 DEF ApplyWrite, TypeOK, Pending
    <2> QED
      BY <1>1, <2>1, <2>2
  <1>4. ASSUME NEW vec \in Vec, Known(vec), NEW body \in Body, Joins(log, vec, body),
               NEW by \in {"push", "reconcile"}, BeginApply(n, vec, body, by)
        PROVE  Goal
    <2> DEFINE out == Decide(Local(n), file[n], vec, body)
    <2>1. Local(n) \in ManEntry /\ file[n] \in Body
      BY <1>0, LocalFacts DEF TypeOK
    <2>2. /\ man'[n] = Local(n) /\ file' = file
          /\ pend'[n].vec = out.vec /\ pend'[n].body = out.body
          /\ pend'[n].step = IF out.how \in Writes THEN "write" ELSE "record"
          /\ out.how # "stale"
      BY <1>0, <1>4, BeginApplyFacts
    <2>3. /\ ~Local(n).deleted
          /\ Local(n).vec # Zero => Joins(log', Local(n).vec, file[n])
      BY <2>2, ManJoins
    <2>4. Local(n).vec = Zero => file[n] = NoFile
      <3> SUFFICES ASSUME Local(n).vec = Zero, file[n] # NoFile PROVE FALSE
        OBVIOUS
      <3>1. CASE Unseen(n)
        <4>1. Local(n).vec[n] = man[n].vec[n] + 1 /\ man[n].vec[n] \in Nat
          BY <1>0, <3>1, LocalFacts DEF TypeOK, ManEntry, Vec
        <4> QED
          BY <4>1 DEF Zero
      <3>2. CASE ~Unseen(n)
        BY <3>2 DEF Local, Unseen, JoinInv
      <3> QED
        BY <3>1, <3>2
    <2>5. Joins(log', vec, body)
      BY <1>4, JoinsStay
    <2>6. log' \in SUBSET Stamps /\ \A e \in log' : e.body \in Docs
      BY FreshStamp DEF HistNext, LogTyped, JoinInv
    <2>7. /\ out.vec # Zero /\ Joins(log', out.vec, out.body)
          /\ out.how \notin Writes => out.body = file[n]
      <3>1. IF Local(n).vec = Zero THEN file[n] = NoFile
                                   ELSE Joins(log', Local(n).vec, file[n])
        BY <2>3, <2>4
      <3>2. out.how # "stale"
        BY <2>2
      <3> QED
        BY <2>1, <2>3, <2>5, <2>6, <3>1, <3>2, DecideJoins
    <2> HIDE DEF out
    <2> QED
      BY <2>2, <2>7
  <1>5. ASSUME NEW m \in net, BeginApply(n, m.vec, m.body, "push") PROVE Goal
    <2>1. /\ m.vec \in Vec /\ Known(m.vec) /\ m.body \in Body
          /\ Joins(log, m.vec, m.body)
      BY <1>0 DEF TypeOK, OriginOwnsCounter, JoinInv
    <2> QED
      BY <1>4, <1>5, <2>1
  <1>6. CASE rec[n].st = "got" /\ BeginApply(n, rec[n].vec, rec[n].body, "reconcile")
    <2>1. rec[n] \in FetchStage
      BY <1>0, <1>6 DEF TypeOK, DiffStage, Idle
    <2>2. /\ rec[n].vec \in Vec /\ Known(rec[n].vec) /\ rec[n].body \in Body
          /\ Joins(log, rec[n].vec, rec[n].body)
      BY <1>0, <1>6, <2>1 DEF FetchStage, OriginOwnsCounter, JoinInv
    <2> QED
      BY <1>4, <1>6, <2>2
  <1> QED
    BY <1>0, <1>2, <1>3, <1>5, <1>6, DiskStep

(* What is read of a document after a version goes with that version.      *)
LEMMA ReadJoins ==
    ASSUME IInv, LogTyped, MergesWell, OnlySaves, JoinInv, HistNext,
           NEW k \in Node, NEW v \in Vec, v # Zero, vecLeq(v, man[k].vec),
           reverted = {}, reverted' = {}
    PROVE  Joins(log', v, file[k])
  <1>0. man[k].vec \in Vec /\ Known(man[k].vec)
    BY DEF IInv, TypeOK, ManEntry, OriginOwnsCounter
  <1>1. man[k].vec # Zero
    <2> SUFFICES ASSUME man[k].vec = Zero PROVE v = Zero
      OBVIOUS
    <2>1. ASSUME NEW o \in Node PROVE v[o] = 0
      <3>1. v[o] <= 0 /\ v[o] \in Nat
        BY DEF vecLeq, Zero, Vec
      <3> QED
        BY <3>1
    <2> QED
      BY <2>1 DEF Zero, Vec
  <1>2. Joins(log', man[k].vec, file[k])
    BY <1>0, <1>1, JoinsStay DEF JoinInv
  <1>3. ASSUME NEW e \in log', Knows(v, e) PROVE Knows(man[k].vec, e)
    <2>1. e \in Stamps
      BY FreshStamp DEF HistNext, LogTyped
    <2>2. e.vec[e.origin] <= v[e.origin] /\ v[e.origin] <= man[k].vec[e.origin]
      BY <1>3, <2>1 DEF Knows, vecLeq, Stamps
    <2>3. e.vec[e.origin] \in Nat /\ v[e.origin] \in Nat /\ man[k].vec[e.origin] \in Nat
      BY <1>0, <2>1 DEF Stamps, Vec
    <2> QED
      BY <2>2, <2>3 DEF Knows
  <1> QED
    BY <1>2, <1>3 DEF Joins, Covers

(* JoinInv is kept, by the invariants of the section above.                *)
LEMMA JoinStep ==
    ASSUME IInv, LogTyped, ReadsBehind, MergesWell, OnlySaves, JoinInv, HistNext,
           reverted = {}, reverted' = {}
    PROVE  JoinInv'
  <1>0. TypeOK /\ OriginOwnsCounter /\ [Next]_vars
    BY DEF IInv, HistNext
  <1>1. ASSUME NEW e \in log' PROVE e.body \in Docs /\ e.vec[e.origin] > 0
    BY FreshStamp DEF HistNext, JoinInv
  <1>2. ASSUME NEW n \in Node, rec'[n].st = "diff" PROVE ~rec'[n].rv.deleted
    <2>1. CASE rec'[n] = rec[n]
      BY <1>2, <2>1 DEF JoinInv
    <2>2. ASSUME NEW k \in Node, rec'[n].rv = ver(man[k]) PROVE ~rec'[n].rv.deleted
      BY <2>2 DEF JoinInv, ver
    <2> QED
      BY <1>0, <1>2, <2>1, <2>2, WireStep DEF Rec, Idle
  <1>3. ASSUME NEW n \in Node, rec'[n].st = "read" PROVE rec'[n].vec # Zero
    <2>1. CASE rec'[n] = rec[n]
      BY <1>3, <2>1 DEF JoinInv
    <2>2. CASE rec'[n] # rec[n]
      BY <1>0, <1>3, <2>2, WireStep DEF Rec, Fetched, Idle
    <2> QED
      BY <2>1, <2>2
  <1>4. ASSUME NEW n \in Node, rec'[n].st = "got"
        PROVE  Joins(log', rec'[n].vec, rec'[n].body)
    <2>1. ASSUME rec[n].st \in {"read", "got"}
          PROVE  rec[n] \in FetchStage /\ rec[n].vec \in Vec /\ Known(rec[n].vec)
      <3>1. rec[n] \in FetchStage
        BY <1>0, <2>1 DEF TypeOK, DiffStage, Idle
      <3> QED
        BY <1>0, <2>1, <3>1 DEF FetchStage, OriginOwnsCounter
    <2>2. CASE rec'[n] = rec[n]
      BY <1>4, <2>1, <2>2, JoinsStay DEF JoinInv
    <2>3. CASE rec[n].st = "diff" /\ rec[n].rv.deleted
      BY <2>3 DEF JoinInv
    <2>4. CASE /\ rec[n].st = "read" /\ rec'[n].vec = rec[n].vec
               /\ rec'[n].body = file[rec[n].peer]
      <3>1. /\ rec[n].peer \in Node /\ rec[n].vec \in Vec /\ rec[n].vec # Zero
            /\ vecLeq(rec[n].vec, man[rec[n].peer].vec)
        BY <2>1, <2>4 DEF FetchStage, ReadsBehind, JoinInv
      <3>2. Joins(log', rec[n].vec, file[rec[n].peer])
        BY <3>1, ReadJoins
      <3> QED
        BY <2>4, <3>2
    <2> QED
      BY <1>0, <1>4, <2>2, <2>3, <2>4, WireStep DEF Rec, Fetched, Idle
  <1>5. ASSUME NEW r \in reading' PROVE r.vec # Zero
    BY <1>0, WireStep DEF Reading, JoinInv
  <1>6. ASSUME NEW m \in net' PROVE Joins(log', m.vec, m.body)
    <2>1. CASE m \in net
      <3>1. m.vec \in Vec /\ Known(m.vec) /\ Joins(log, m.vec, m.body)
        BY <1>0, <2>1 DEF TypeOK, OriginOwnsCounter, JoinInv
      <3> QED
        BY <3>1, JoinsStay
    <2>2. ASSUME NEW r \in reading, m.vec = r.vec, m.body = file[r.from]
          PROVE  Joins(log', m.vec, m.body)
      <3>1. /\ r.from \in Node /\ r.vec \in Vec /\ r.vec # Zero
            /\ vecLeq(r.vec, man[r.from].vec)
        BY <1>0 DEF TypeOK, ReadsBehind, JoinInv
      <3>2. Joins(log', r.vec, file[r.from])
        BY <3>1, ReadJoins
      <3> QED
        BY <2>2, <3>2
    <2> QED
      BY <1>0, <2>1, <2>2, WireStep DEF Net, JoinInv
  <1>7. ASSUME NEW n \in Node PROVE dav'[n] = "none"
    BY <1>0, SavesOnly
  <1>8. ASSUME NEW n \in Node, kept'[n].clean PROVE kept'[n].entry.vec # Zero
    <2>1. CASE kept'[n] = [entry |-> man'[n], clean |-> clean'[n]]
      BY <1>8, <2>1, ManJoins
    <2>2. CASE kept'[n].entry = kept[n].entry /\ kept[n].clean
      BY <2>2 DEF JoinInv
    <2> QED
      BY <1>0, <1>8, <2>1, <2>2, KeptStep
  <1> QED
    BY <1>1, <1>2, <1>3, <1>4, <1>5, <1>6, <1>7, <1>8, ManJoins, PendJoins DEF JoinInv

(* The invariants of this section and of the one above, but for what only  *)
(* plain files have.                                                       *)
MergeInv == IInv /\ (reverted = {} => LogTyped /\ ReadsBehind /\ JoinInv)

(* It holds from the first state on.                                       *)
LEMMA MergesInv == ASSUME MergesWell, OnlySaves PROVE HistSpec => []MergeInv
  <1>0. Over = {}
    BY DEF OnlySaves
  <1>1. HistInit => MergeInv
    <2>1. Init => IInv
      BY ContentAssumption, BoundAssumption
      DEF Init, IInv, TypeOK, ReconcileWaits, AppliesForward, OriginOwnsCounter, Known,
          Absent, Zero, ManEntry, Vec, Body, Idle, NoApply
    <2>2. HistInit => LogTyped /\ ReadsBehind
      BY DEF HistInit, LogTyped, ReadsBehind, Init, Idle
    <2>3. HistInit => JoinInv
      BY DEF HistInit, Init, JoinInv, OnlySaves, Absent, Idle
    <2> QED
      BY <2>1, <2>2, <2>3 DEF HistInit, MergeInv
  <1>2. MergeInv /\ [HistNext]_histVars => MergeInv'
    <2> SUFFICES ASSUME MergeInv, [HistNext]_histVars PROVE MergeInv'
      OBVIOUS
    <2>1. CASE HistNext
      <3>1. [Next]_vars /\ IInv
        BY <2>1 DEF HistNext, MergeInv
      <3>2. IInv'
        BY <1>0, <3>1, TypeStep, WaitsStep, ForwardStep, OwnStep DEF IInv
      <3>3. ASSUME reverted' = {} PROVE LogTyped' /\ ReadsBehind' /\ JoinInv'
        <4>1. reverted = {} /\ LogTyped /\ ReadsBehind /\ JoinInv
          BY <3>1, <3>3, RevertedStep DEF MergeInv
        <4>2. LogTyped' /\ ReadsBehind'
          BY <1>0, <2>1, <3>1, <3>3, <4>1, LogStep
        <4> QED
          BY <2>1, <3>1, <3>3, <4>1, <4>2, JoinStep
      <3> QED
        BY <3>2, <3>3 DEF MergeInv
    <2>2. CASE UNCHANGED histVars
      BY <2>2
      DEF histVars, vars, MergeInv, IInv, TypeOK, ReconcileWaits, AppliesForward,
          OriginOwnsCounter, Known, LogTyped, ReadsBehind, JoinInv
    <2> QED
      BY <2>1, <2>2
  <1> QED
    BY <1>1, <1>2, PTL DEF HistSpec

(* Who knows of a save's version has the save in the file, as long as      *)
(* every node found on file the manifest it had.                           *)
SavesAreIn ==
    reverted = {} =>
        \A n \in Node, e \in log : Knows(man[n].vec, e) => Holds(file[n], e.body)

(* No save of a document is lost, for any number of nodes, saves, crashes, *)
(* failed writes and lost, late or replayed requests: it is in the file of *)
(* whoever knows of its version, and its writer does - until a node comes  *)
(* up on an older manifest, its later ones not having been saved.          *)
THEOREM NoSaveIsLost ==
    ASSUME MergesWell, OnlySaves
    PROVE  HistSpec => [](SavesAreIn /\ WritesSurvive)
  <1>1. MergeInv => SavesAreIn
    <2> SUFFICES ASSUME MergeInv, reverted = {}, NEW n \in Node, NEW e \in log,
                        Knows(man[n].vec, e)
                 PROVE  Holds(file[n], e.body)
      BY DEF SavesAreIn
    <2>1. e.vec[e.origin] > 0 /\ e.origin \in Node /\ e.vec \in Vec
      BY DEF MergeInv, JoinInv, LogTyped, Stamps
    <2>2. man[n].vec # Zero
      BY <2>1 DEF Knows, Zero, Vec
    <2> QED
      BY <2>2 DEF MergeInv, JoinInv, Joins, Covers, Below, Holds
  <1>2. MergeInv /\ SavesAreIn => WritesSurvive
    <2> SUFFICES ASSUME MergeInv, SavesAreIn, reverted = {}, NEW e \in log
                 PROVE  \E n \in Node : Holds(file[n], e.body)
      BY DEF WritesSurvive
    <2>1. e.origin \in Node /\ Knows(man[e.origin].vec, e)
      BY DEF MergeInv, LogTyped, Stamps, Known, Knows
    <2> QED
      BY <2>1 DEF SavesAreIn
  <1> QED
    BY <1>1, <1>2, MergesInv, PTL

(* Nodes that know of all that was saved have the same file.               *)
LEMMA LeastIsOne ==
    ASSUME MergeInv, reverted = {}, MergesWell, NEW n \in Node, NEW p \in Node,
           man[n].vec # Zero, man[p].vec # Zero,
           \A e \in log : Knows(man[n].vec, e) /\ Knows(man[p].vec, e)
    PROVE  file[n] = file[p]
  <1>1. Joins(log, man[n].vec, file[n]) /\ Joins(log, man[p].vec, file[p])
    BY DEF MergeInv, JoinInv
  <1>2. Below(file[n], file[p]) /\ Below(file[p], file[n])
    BY <1>1 DEF Joins, Covers, Least
  <1> QED
    BY <1>1, <1>2, BelowFacts DEF Joins

(* One version all over the mesh is one document all over the mesh, unless *)
(* a node came up on an older manifest: its number for a document and a    *)
(* peer's number for another are then one version.                         *)
OneVersionOneFile ==
    (reverted = {} /\ \A n, p \in Node : man[n].vec = man[p].vec /\ man[n].vec # Zero)
        => \A n, p \in Node : file[n] = file[p]

(* When a mesh has come to one version, which is what VectorsConverge says *)
(* it does, it has come to one document: the merge of all that was saved,  *)
(* whatever the order in which the versions met.                           *)
THEOREM MeshAgrees == ASSUME MergesWell, OnlySaves PROVE HistSpec => []OneVersionOneFile
  <1>1. MergeInv => OneVersionOneFile
    <2> SUFFICES ASSUME MergeInv,
                        reverted = {},
                        \A n, p \in Node : man[n].vec = man[p].vec /\ man[n].vec # Zero,
                        NEW n \in Node, NEW p \in Node
                 PROVE  file[n] = file[p]
      BY DEF OneVersionOneFile
    <2>1. ASSUME NEW k \in Node, NEW e \in log PROVE Knows(man[k].vec, e)
      <3>1. e.origin \in Node /\ Knows(man[e.origin].vec, e)
        BY DEF MergeInv, LogTyped, Stamps, Known, Knows
      <3> QED
        BY <3>1 DEF Knows
    <2> QED
      BY <2>1, LeastIsOne
  <1> QED
    BY <1>1, MergesInv, PTL

(* Of two nodes, each knows of its own saves, so that already a version    *)
(* they share is one document, as long as both found on file the manifest  *)
(* they had.                                                               *)
THEOREM PairAgrees ==
    ASSUME MergesWell, OnlySaves, NEW a, NEW b, Node = {a, b}
    PROVE  HistSpec => [](reverted = {} => SameVersionSameFile)
  <1>1. MergeInv => (reverted = {} => SameVersionSameFile)
    <2> SUFFICES ASSUME MergeInv, reverted = {}, NEW n \in Node, NEW p \in Node, AtRest(n), AtRest(p),
                        man[n].vec = man[p].vec
                 PROVE  file[n] = file[p]
      BY DEF SameVersionSameFile
    <2>1. CASE n = p
      BY <2>1
    <2>2. CASE man[n].vec = Zero
      <3>1. file[n] = NoFile /\ file[p] = NoFile
        BY <2>2 DEF AtRest, MergeInv, JoinInv
      <3> QED
        BY <3>1
    <2>3. CASE n # p /\ man[n].vec # Zero
      <3>1. ASSUME NEW e \in log PROVE Knows(man[n].vec, e)
        <4>1. e.origin \in {n, p} /\ Knows(man[e.origin].vec, e)
          BY <2>3 DEF MergeInv, LogTyped, Stamps, Known, Knows
        <4> QED
          BY <4>1 DEF Knows
      <3> QED
        BY <2>3, <3>1, LeastIsOne
    <2> QED
      BY <2>1, <2>2, <2>3
  <1> QED
    BY <1>1, MergesInv, PTL
=============================================================================
