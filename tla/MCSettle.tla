------------------------------ MODULE MCSettle ------------------------------
(* What has to settle by itself between paired nodes and between the       *)
(* windows of one desk, for TLC: the sync of a mergeable document          *)
(* (PeerSync, with DocMerge's merge and guard), the windows of a document  *)
(* app (AppDocs) and the mesh (PeerMesh).  The three share no state, so a  *)
(* behaviour runs one of them: the one part names.                         *)
EXTENDS PeerMesh, AppDocs, TLC

CONSTANTS a, b, w1, w2, NoFile, Old

VARIABLES part

VARIABLES file, man, clean, pend, saved, dropped, jobs, reading, net, rec, todo,
          dav, written, faults, kept, unsaved, reverted

-----------------------------------------------------------------------------
(* notes.json with one note.                                               *)
Note(text, updated, deleted, place, placed) ==
    [id \in {"n"} |-> [text |-> text, extra |-> 0, updated |-> updated,
                       deleted |-> deleted, place |-> place, placed |-> placed]]

(* Every document the nodes can come to hold, the one without notes too.   *)
MCContent ==
    {[id \in {} |-> {}]} \cup
    {Note(t, u, d, p, s) : t \in 1..2, u \in 1..2, d \in {0, Now}, p \in 0..2, s \in 0..2}

(* Two desks' edits: the text at the same stamp as a drag elsewhere, a     *)
(* drag of an older text, a deletion.                                      *)
MCSaves == {Note(1, 1, 0, 1, 1), Note(2, 1, 0, 2, 2), Note(1, 2, Now, 0, 0)}

MCHash(x) == 0

(* Two nodes that merge the document.                                      *)
Sync == INSTANCE PeerSync
            WITH Node <- {a, b}, Content <- MCContent, Over <- {}, Docs <- MCContent,
                 Hash <- MCHash, Merge <- mergeNotes, Guard <- GuardLocalWrite,
                 Saves <- MCSaves, InitFiles <- {NoFile}, EditKinds <- {"write", "delete"},
                 MaxEdits <- 2, MaxFaults <- 0, MaxUnsaved <- 0, MaxLoops <- 1,
                 edits <- written

-----------------------------------------------------------------------------
(* Two windows on one draft.  A peer may send an edit stamped between      *)
(* theirs: other words, with a draft it deleted long ago, or the words     *)
(* they began with.                                                        *)
Version(text, upd, del) ==
    [text |-> text, extra |-> 0, updated |-> upd, deleted |-> del, place |-> 0, placed |-> 0]

MCRemote ==
    {[id \in {Draft, Old} |-> IF id = Draft THEN Version(100, 6, 0) ELSE Version(0, 1, 1)],
     [id \in {Draft} |-> Version(Empty, 6, 0)]}

-----------------------------------------------------------------------------
SyncVars == <<file, man, clean, pend, saved, dropped, jobs, reading, net, rec,
              todo, dav, written, faults, kept, unsaved, reverted>>
AllVars  == <<part, SyncVars, appVars, vars>>

AllInit ==
    /\ part \in {"docs", "apps", "pairs"}
    /\ Sync!Init /\ AppInit /\ Init

AllNext ==
    /\ UNCHANGED part
    /\ \/ part = "docs" /\ Sync!Next /\ UNCHANGED <<appVars, vars>>
       \/ part = "apps" /\ AppNext /\ UNCHANGED <<SyncVars, vars>>
       \/ part = "pairs" /\ Next /\ UNCHANGED <<SyncVars, appVars>>

(* Fairness, the two modules' and the two FairSpecs', each for its part.   *)
AllFairness ==
    /\ \A n \in {a, b} : /\ SF_SyncVars(part = "docs" /\ Sync!Loop(n) /\ Sync!saveLocked)
                         /\ WF_SyncVars(part = "docs" /\ Sync!Apply(n) /\ Sync!saveLocked)
    /\ WF_appVars(part = "apps" /\ \E p \in puts : Put(p))
    /\ \A w \in {w1, w2} : WF_appVars(part = "apps" /\ Step(w))
    /\ \A n \in Node :
         /\ WF_vars(part = "pairs" /\ Loop(n))
         /\ \A p \in Node : WF_vars(part = "pairs" /\ LeaveDone(n, p))

AllSpec == AllInit /\ [][AllNext]_AllVars /\ AllFairness

-----------------------------------------------------------------------------
(* Conflicts that merge: the same version means the same document.         *)
SameVersionSameFile == Sync!SameVersionSameFile

(* In the end the two nodes know the same versions.                        *)
VectorsConverge == Sync!VectorsConverge
=============================================================================
