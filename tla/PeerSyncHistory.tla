-------------------------- MODULE PeerSyncHistory --------------------------
(* PeerSync with its past: two history variables, which no step of the     *)
(* code reads, remember every version that was stamped and every body a    *)
(* user's edit replaced, to say that no stamped body is ever lost.         *)
EXTENDS PeerSync

VARIABLES
    log,   \* the versions stamped so far
    seen   \* the bodies a user's edit has replaced on some disk

histVars == <<vars, log, seen>>

(* A stamp is an advance of the node's own component; what is on disk at   *)
(* that moment is the body it names.                                       *)
Stamped ==
    {[origin |-> n, vec |-> man'[n].vec,
      body |-> IF man'[n].deleted THEN NoFile ELSE file'[n]] :
        n \in {k \in Node : man'[k].vec[k] > man[k].vec[k]}}

(* An edit changes the disk and leaves the apply in progress alone.        *)
Replaced == {file[n] : n \in {k \in Node : file'[k] # file[k] /\ pend'[k] = pend[k]}}

HistInit == Init /\ log = {} /\ seen = {}

HistNext == Next /\ log' = log \cup Stamped /\ seen' = seen \cup Replaced

HistSpec == HistInit /\ [][HistNext]_histVars

-----------------------------------------------------------------------------
(* The version vec has seen the stamp e.                                   *)
Knows(vec, e) == e.vec[e.origin] <= vec[e.origin]

(* The file c has the body b in it: it is b, or merging b changes nothing. *)
Holds(c, b) == c = b \/ (c \in Docs /\ b \in Docs /\ Merge(b, c) = c)

(* e's body is backed up or that backup could not be written, a user       *)
(* replaced it, or a node that knew of e stamped something else since.     *)
Accounted(e) ==
    \/ e.body = NoFile
    \/ e.body \in dropped \/ \E n \in Node : e.body \in saved[n]
    \/ \E c \in seen : Holds(c, e.body)
    \/ \E f \in log : f # e /\ Knows(f.vec, e)

(* backupConflict and the order ApplyRemote works in: no body that was     *)
(* stamped disappears from the mesh.  It is on some disk or under some     *)
(* sync-conflicts, unless its backup could not be written, a user replaced *)
(* it or a node that knew its version stamped another.  Two stamps of one  *)
(* number cannot be told apart that way, so it says nothing of a mesh in   *)
(* which a node came up on an older manifest than the one it pushed from.  *)
WritesSurvive ==
    reverted = {} =>
        \A e \in log : Accounted(e) \/ \E n \in Node : Holds(file[n], e.body)
=============================================================================
