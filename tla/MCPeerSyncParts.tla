-------------------------- MODULE MCPeerSyncParts --------------------------
(* PeerSync's safety for TLC, in five settings; part names the one a       *)
(* behaviour runs in:                                                      *)
(*   edits   API saves and deletes and direct edits on two paired nodes,   *)
(*           two reconcile loops running at once;                          *)
(*   faults  one crash, failed write or failed request anywhere;           *)
(*   unsaved a save of a manifest fails and a daemon crashes, anywhere in  *)
(*           three edits; pushes only;                                     *)
(*   dav     WebDAV changes announced after the fact, a body over the size *)
(*           cap, a crash; pushes only;                                    *)
(*   docs    a document that merges: saves, deletes and direct edits;      *)
(*           pushes only.                                                  *)
EXTENDS PeerSyncHistory, TLC

CONSTANTS a, b

VARIABLE part

Symmetry == Permutations(Node)

(* A body is the set of its records, a plain one has a single record that  *)
(* ranks it by its hash; the empty body ranks between the first two, so    *)
(* that losing to it and beating it both happen.                           *)
MCDocs == {{x, y, z} : x, y, z \in 1..3}
MCContent == MCDocs \cup {{10}, {20}, {30}}
MCHash(x) == IF x = NoFile THEN 15 ELSE CHOOSE r \in x : TRUE
MCMerge(x, y) == x \cup y

(* The constants of the cfg are those of edits.                            *)
Faults == INSTANCE PeerSyncHistory
             WITH Saves <- {{10}}, EditKinds <- {"write", "direct"},
                  MaxFaults <- 1, MaxLoops <- 1

Unsaved == INSTANCE PeerSyncHistory
             WITH Saves <- {{10}}, EditKinds <- {"write", "direct"},
                  MaxEdits <- 3, MaxFaults <- 1, MaxUnsaved <- 1, MaxLoops <- 0

Dav == INSTANCE PeerSyncHistory
             WITH Saves <- {{10}, {30}}, Over <- {{30}},
                  EditKinds <- {"write", "dav"},
                  MaxEdits <- 3, MaxFaults <- 1, MaxLoops <- 0

Merged == INSTANCE PeerSyncHistory
             WITH Saves <- {{1}, {2}, {3}}, MaxEdits <- 3, MaxLoops <- 0

partVars == <<histVars, part>>

PartsInit == HistInit /\ part \in {"edits", "faults", "unsaved", "dav", "docs"}

PartsNext ==
    /\ UNCHANGED part
    /\ \/ part = "edits" /\ HistNext
       \/ part = "faults" /\ Faults!HistNext
       \/ part = "unsaved" /\ Unsaved!HistNext
       \/ part = "dav" /\ Dav!HistNext
       \/ part = "docs" /\ Merged!HistNext

PartsSpec == PartsInit /\ [][PartsNext]_partVars
=============================================================================
