------------------------------ MODULE AppDocs ------------------------------
(***************************************************************************)
(* One record-bearing app document on a node - Blue Pencil's drafts.json - *)
(* and the windows that edit it (internal/server/apps.go, appevents.go,    *)
(* sysapps/bluepencil/index.html).  Every window holds a copy of the whole *)
(* document, PUTs it whole after a pause, flushes it when its page hides,  *)
(* reads it again when the daemon announces somebody else's change, and    *)
(* keeps what was typed meanwhile.  The daemon judges a save record by     *)
(* record (DocMerge) and drops one that a later save of the same window    *)
(* overtook; the sync engine merges a peer's version in.                   *)
(***************************************************************************)
EXTENDS DocMerge, Sequences, FiniteSets

CONSTANTS
    Window,      \* open Blue Pencil windows, each behind a client tag
    NoTag,       \* the empty client tag: a change no window here made
    Draft,       \* the draft the windows share
    Remote,      \* versions of the document a peer may send
    Cap,         \* capacity of a subscriber's event channel (16)
    MaxEdits,    \* bound: keystrokes, deletions and corrections together
    MaxReads,    \* bound: reads a window has in flight when it asks on an event
    MaxMishaps,  \* bound: pages hidden, daemon restarts and peers' versions
    MaxActs      \* bound: edits and mishaps together

ASSUME AppAssumption == MaxEdits \in Nat /\ \A doc \in Remote : IsDoc(doc)

VARIABLES
    disk,      \* drafts.json
    marks,     \* appSeq: window -> newest content timestamp accepted
    events,    \* window -> change events in its channel: the writers' tags
    puts,      \* PUT requests on their way
    copy,      \* window -> doc.drafts
    cache,     \* window -> the texts it has corrections for
    seen,      \* window -> draft -> the disk version it last read or sent
    timer,     \* window -> docT: a save is scheduled
    saving,    \* window -> docSaving, with the answer when it is there
    again,     \* window -> docAgain
    lastSeq,   \* window -> lastSeq
    reads,     \* window -> reads in flight: number -> <<>>, or <<its answer>>
    hidden,    \* window -> the page is out of sight, frozen
    edits, mishaps   \* counted against their bounds

desk == <<copy, cache, seen, timer, saving, again, lastSeq, reads, hidden>>
appVars == <<disk, marks, events, puts, desk, edits, mishaps>>

-----------------------------------------------------------------------------
Live(doc, id) == id \in DOMAIN doc /\ doc[id].deleted = 0

Rec(text, upd) == [text |-> text, extra |-> Empty, updated |-> upd,
                   deleted |-> 0, place |-> 0, placed |-> 0]

(* stamp: Date.now() or one past the record's stamp.  Desks' clocks differ *)
(* either way; no two edits get the same millisecond.                      *)
Tick == MaxEdits + 1
Stamps(r) == {s \in r.updated + 1 .. r.updated + 2 * Tick : s % Tick = edits'}

(* normDraft: a tombstone read from disk loses its words.                  *)
normDraft(r) == IF r.deleted # 0 THEN [r EXCEPT !.text = 0, !.extra = 0] ELSE r

(* docJSON: corrections come from the cache, never from the record.        *)
docJSON(w) ==
    [id \in {i \in DOMAIN copy[w] : ~Expired(copy[w][i])} |->
        IF Live(copy[w], id)
        THEN [copy[w][id] EXCEPT !.extra = IF copy[w][id].text \in cache[w]
                                           THEN 2 ELSE Empty]
        ELSE copy[w][id]]

(* see: the words of each live draft of doc; a deleted one is forgotten.   *)
see(known, doc) ==
    [id \in {i \in DOMAIN known \cup DOMAIN doc : i \in DOMAIN doc => doc[i].deleted = 0} |->
        IF id \in DOMAIN doc THEN [text |-> doc[id].text, updated |-> doc[id].updated]
                             ELSE known[id]]

-----------------------------------------------------------------------------
(* The daemon.                                                             *)

(* BroadcastAppData: a full channel drops the event.  A window passes over *)
(* its own tag.                                                            *)
Broadcast(tag) ==
    events' = [w \in Window |->
        IF Len(events[w]) < Cap THEN Append(events[w], tag) ELSE events[w]]

Mishap == mishaps < MaxMishaps /\ edits + mishaps < MaxActs /\ mishaps' = mishaps + 1

Newer(p) == p.seq > marks[p.from]

Replied(p, answer) ==
    saving' = IF p.awaited THEN [saving EXCEPT ![p.from] = answer] ELSE saving

(* handleAppDataPut under the file lock; any request on its way may be the *)
(* next to arrive.                                                         *)
Put(p) ==
    /\ puts' = puts \ {p}
    /\ Replied(p, "ok")
    /\ \/ ~Newer(p) /\ UNCHANGED <<disk, marks, events>>
       \/ /\ Newer(p)
          /\ disk' = GuardLocalWrite(disk, p.doc)
          /\ marks' = [marks EXCEPT ![p.from] = p.seq]
          /\ Broadcast(IF disk' = p.doc THEN p.from ELSE NoTag)
    /\ UNCHANGED <<copy, cache, seen, timer, again, lastSeq, reads, hidden,
                   edits, mishaps>>

(* A peer's version is merged in: OnApply announces it without a tag.      *)
RemoteMerge(doc) ==
    /\ Mishap
    /\ disk' = mergeDrafts(disk, doc)
    /\ Broadcast(NoTag)
    /\ UNCHANGED <<marks, puts, desk, edits>>

(* handleAppDataGet: the file as it is now.                                *)
Answer(w, i) ==
    /\ reads[w][i] = <<>>
    /\ reads' = [reads EXCEPT ![w][i] = <<[id \in DOMAIN disk |-> normDraft(disk[id])]>>]
    /\ UNCHANGED <<disk, marks, events, puts, copy, cache, seen, timer, saving,
                   again, lastSeq, hidden, edits, mishaps>>

-----------------------------------------------------------------------------
(* A window.                                                               *)

Reading(w) == DOMAIN reads[w] # {}

(* One more read is out.                                                   *)
Asked(rs) ==
    LET i == CHOOSE n \in 1..Cardinality(DOMAIN rs) + 1 : n \notin DOMAIN rs
    IN  [n \in DOMAIN rs \cup {i} |-> IF n = i THEN <<>> ELSE rs[n]]

(* reloadFromDisk asks.                                                    *)
AskedBy(w) == reads' = [reads EXCEPT ![w] = Asked(@)]

Room(w) == Cardinality(DOMAIN reads[w]) < MaxReads

Awake(w) == ~hidden[w]

Edit == edits < MaxEdits /\ edits + mishaps < MaxActs /\ edits' = edits + 1

Changed(w, doc) == copy' = [copy EXCEPT ![w] = doc] /\ timer' = [timer EXCEPT ![w] = TRUE]

(* What is typed: new words, or the ones last seen again (an undo).        *)
Typed(w, id) ==
    ({edits' + 2} \cup {seen[w][i].text : i \in {id} \cap DOMAIN seen[w]}) \ {copy[w][id].text}

(* The input event: other words in an open draft.                          *)
Type(w, id) ==
    /\ Edit
    /\ Awake(w)
    /\ Live(copy[w], id)
    /\ \E s \in Stamps(copy[w][id]), t \in Typed(w, id) :
          Changed(w, [copy[w] EXCEPT ![id] = Rec(t, s)])
    /\ UNCHANGED <<disk, marks, events, puts, cache, seen, saving, again,
                   lastSeq, reads, hidden, mishaps>>

(* dropDraft.                                                              *)
Drop(w, id) ==
    /\ Edit
    /\ Awake(w)
    /\ Live(copy[w], id)
    /\ \E s \in Stamps(copy[w][id]) :
          Changed(w, [copy[w] EXCEPT ![id].updated = s, ![id].deleted = Now,
                                     ![id].text = 0, ![id].extra = 0])
    /\ UNCHANGED <<disk, marks, events, puts, cache, seen, saving, again,
                   lastSeq, reads, hidden, mishaps>>

(* The pencil's correction for the words arrives: saved, but no new stamp. *)
Correct(w, id) ==
    /\ Edit
    /\ Awake(w)
    /\ Live(copy[w], id)
    /\ copy[w][id].text \notin cache[w]
    /\ cache' = [cache EXCEPT ![w] = @ \cup {copy[w][id].text}]
    /\ timer' = [timer EXCEPT ![w] = TRUE]
    /\ UNCHANGED <<disk, marks, events, puts, copy, seen, saving, again,
                   lastSeq, reads, hidden, mishaps>>

Snapshot(w, awaited) ==
    [from |-> w, seq |-> lastSeq[w] + 1, doc |-> docJSON(w), awaited |-> awaited]

Sent(w) ==
    /\ seen' = [seen EXCEPT ![w] = see(@, docJSON(w))]
    /\ lastSeq' = [lastSeq EXCEPT ![w] = @ + 1]

(* saveDoc: it waits for reads in flight; with a save under way it only    *)
(* notes that another is due.                                              *)
saveDoc(w) ==
    /\ Awake(w)
    /\ timer[w]
    /\ ~Reading(w)
    /\ timer' = [timer EXCEPT ![w] = FALSE]
    /\ Sent(w)
    /\ \/ /\ saving[w] = "no"
          /\ saving' = [saving EXCEPT ![w] = "sent"]
          /\ puts' = puts \cup {Snapshot(w, TRUE)}
          /\ UNCHANGED again
       \/ /\ saving[w] # "no"
          /\ again' = [again EXCEPT ![w] = TRUE]
          /\ UNCHANGED <<saving, puts>>
    /\ UNCHANGED <<disk, marks, events, copy, cache, reads, hidden, edits,
                   mishaps>>

(* Mutant: nothing resets docSaving when the request fails.                *)
BugSaveDone(w) ==
    /\ Awake(w)
    /\ saving[w] = "ok"
    /\ again' = [again EXCEPT ![w] = FALSE]
    /\ \/ /\ again[w] /\ ~Reading(w)
          /\ timer' = [timer EXCEPT ![w] = FALSE]
          /\ saving' = [saving EXCEPT ![w] = "sent"]
          /\ puts' = puts \cup {Snapshot(w, TRUE)}
          /\ Sent(w)
       \/ /\ ~again[w] \/ Reading(w)
          /\ timer' = [timer EXCEPT ![w] = @ \/ again[w]]
          /\ saving' = [saving EXCEPT ![w] = "no"]
          /\ UNCHANGED <<puts, seen, lastSeq>>
    /\ UNCHANGED <<disk, marks, events, copy, cache, reads, hidden, edits,
                   mishaps>>

(* The save's answer.  A failed one is tried again; one that is due starts *)
(* at once, unless a read is in flight.                                    *)
SaveDone(w) ==
    /\ Awake(w)
    /\ saving[w] \in {"ok", "failed"}
    /\ again' = [again EXCEPT ![w] = FALSE]
    /\ \/ /\ again[w] /\ ~Reading(w)
          /\ timer' = [timer EXCEPT ![w] = FALSE]
          /\ saving' = [saving EXCEPT ![w] = "sent"]
          /\ puts' = puts \cup {Snapshot(w, TRUE)}
          /\ Sent(w)
       \/ /\ ~again[w] \/ Reading(w)
          /\ timer' = [timer EXCEPT ![w] = @ \/ again[w] \/ saving[w] = "failed"]
          /\ saving' = [saving EXCEPT ![w] = "no"]
          /\ UNCHANGED <<puts, seen, lastSeq>>
    /\ UNCHANGED <<disk, marks, events, copy, cache, reads, hidden, edits,
                   mishaps>>

(* The page goes out of sight: whatever is unsaved is flushed past the     *)
(* save under way, and nobody waits for the answer.                        *)
Hide(w) ==
    /\ Mishap
    /\ Awake(w)
    /\ hidden' = [hidden EXCEPT ![w] = TRUE]
    /\ \/ /\ timer[w] \/ saving[w] # "no"
          /\ timer' = [timer EXCEPT ![w] = FALSE]
          /\ puts' = puts \cup {Snapshot(w, FALSE)}
          /\ Sent(w)
       \/ /\ ~timer[w] /\ saving[w] = "no"
          /\ UNCHANGED <<timer, puts, seen, lastSeq>>
    /\ UNCHANGED <<disk, marks, events, copy, cache, saving, again, reads,
                   edits>>

(* A frozen page's events are gone; coming back it reads the document.     *)
Show(w) ==
    /\ hidden[w]
    /\ hidden' = [hidden EXCEPT ![w] = FALSE]
    /\ events' = [events EXCEPT ![w] = <<>>]
    /\ AskedBy(w)
    /\ UNCHANGED <<disk, marks, puts, copy, cache, seen, timer, saving, again,
                   lastSeq, edits, mishaps>>

(* The change stream delivers: data-changed.                               *)
Notice(w) ==
    /\ Awake(w)
    /\ events[w] # <<>>
    /\ events' = [events EXCEPT ![w] = Tail(@)]
    /\ \/ Head(events[w]) = w /\ UNCHANGED reads
       \/ Head(events[w]) # w /\ Room(w) /\ AskedBy(w)
    /\ UNCHANGED <<disk, marks, puts, copy, cache, seen, timer, saving, again,
                   lastSeq, hidden, edits, mishaps>>

(* Mutant: the stamps alone decide.                                        *)
BugUnread(w, got, id) == FALSE

(* Two edits of the same words that never met: disk has gone past the      *)
(* version this window saw, and so has its own copy.                       *)
Unread(w, got, id) ==
    /\ Live(got, id) /\ Live(copy[w], id) /\ id \in DOMAIN seen[w]
    /\ got[id].updated > seen[w][id].updated
    /\ got[id].text # seen[w][id].text
    /\ copy[w][id].text \notin {seen[w][id].text, got[id].text}

(* Our copy has something disk lacks.                                      *)
Ahead(w, got, id) ==
    /\ id \in DOMAIN copy[w]
    /\ id \notin DOMAIN got \/ copy[w][id].updated > got[id].updated
    /\ ~(id \in DOMAIN got /\ Unread(w, got, id))

(* newId: an id that is nowhere yet, for a draft made of id's words.       *)
NewId(w, k, id) == <<w, k, id>>
IsNew(w, k, id, got) == NewId(w, k, id) \notin DOMAIN copy[w] \cup DOMAIN got

(* reloadFromDisk gets its answer (reads may overtake one another).        *)
Reload(w, i) ==
    /\ Awake(w)
    /\ reads[w][i] # <<>>
    /\ LET got == reads[w][i][1]
           forked == {id \in DOMAIN copy[w] \cap DOMAIN got : Unread(w, got, id)}
           k == CHOOSE n \in 1..MaxEdits : \A id \in forked : IsNew(w, n, id, got)
           forks == {NewId(w, k, id) : id \in forked}
           mine == {id \in DOMAIN copy[w] : Ahead(w, got, id)}
           doc == [id \in DOMAIN got \cup DOMAIN copy[w] \cup forks |->
                     IF id \in forks THEN Rec(copy[w][id[3]].text, Now)
                     ELSE IF id \in mine THEN copy[w][id] ELSE got[id]]
       IN  /\ \A id \in forked : IsNew(w, k, id, got)
           /\ copy' = [copy EXCEPT ![w] = doc]
           /\ seen' = [seen EXCEPT ![w] =
                         see(@, [id \in DOMAIN got \ mine |-> got[id]])]
           /\ cache' = [cache EXCEPT ![w] = @ \cup
                          {doc[id].text : id \in {d \in DOMAIN doc : doc[d].extra = 2}}]
           /\ timer' = [timer EXCEPT ![w] = @ \/ mine \cup forks # {}]
    /\ reads' = [reads EXCEPT ![w] = [n \in DOMAIN @ \ {i} |-> @[n]]]
    /\ UNCHANGED <<disk, marks, events, puts, saving, again, lastSeq, hidden,
                   edits, mishaps>>

Answered(w) == [i \in {n \in DOMAIN reads[w] : reads[w][n] # <<>>} |-> reads[w][i]]

(* The daemon restarts: its marks and channels are gone, reads fail, saves *)
(* on their way may be lost, and every desk's change stream reopens (data-resync).  *)
RestartDaemon(lost) ==
    /\ Mishap
    /\ marks' = [w \in Window |-> 0]
    /\ events' = [w \in Window |-> <<>>]
    /\ puts' = puts \ lost
    /\ saving' = [w \in Window |->
          IF \E p \in lost : p.from = w /\ p.awaited THEN "failed" ELSE saving[w]]
    /\ reads' = [w \in Window |-> IF Awake(w) THEN Asked(Answered(w)) ELSE Answered(w)]
    /\ UNCHANGED <<disk, copy, cache, seen, timer, again, lastSeq, hidden,
                   edits>>

-----------------------------------------------------------------------------
(* loadDoc has settled in every window.                                    *)
AppInit ==
    /\ disk = [id \in {Draft} |-> Rec(Empty, Tick)]
    /\ marks = [w \in Window |-> 0]
    /\ events = [w \in Window |-> <<>>]
    /\ puts = {}
    /\ copy = [w \in Window |-> disk]
    /\ cache = [w \in Window |-> {}]
    /\ seen = [w \in Window |-> [id \in {Draft} |-> [text |-> Empty, updated |-> Tick]]]
    /\ timer = [w \in Window |-> FALSE]
    /\ saving = [w \in Window |-> "no"]
    /\ again = [w \in Window |-> FALSE]
    /\ lastSeq = [w \in Window |-> 0]
    /\ reads = [w \in Window |-> <<>>]
    /\ hidden = [w \in Window |-> FALSE]
    /\ edits = 0 /\ mishaps = 0

Step(w) ==
    \/ saveDoc(w) \/ SaveDone(w) \/ Show(w) \/ Notice(w)
    \/ \E i \in DOMAIN reads[w] : Answer(w, i) \/ Reload(w, i)

AppNext ==
    \/ \E p \in puts : Put(p)
    \/ \E w \in Window : Step(w) \/ Hide(w) \/ \E id \in DOMAIN copy[w] : Type(w, id) \/ Drop(w, id) \/ Correct(w, id)
    \/ \E doc \in Remote : RemoteMerge(doc)
    \/ \E lost \in SUBSET puts : RestartDaemon(lost)

AppSpec == AppInit /\ [][AppNext]_appVars

(* The browser runs a page's timers, answers and events, and requests that *)
(* are not lost arrive.                                                    *)
AppFairSpec ==
    /\ AppSpec
    /\ WF_appVars(\E p \in puts : Put(p))
    /\ \A w \in Window : WF_appVars(Step(w))

-----------------------------------------------------------------------------
(* Properties.                                                             *)

Words(r) == IF r.deleted # 0 THEN <<r.updated, "deleted">> ELSE <<r.updated, r.text>>

(* A peer's version may hold a newer tombstone that is past the TTL.       *)
Buried(id) ==
    \E doc \in Remote : id \in DOMAIN doc /\ Expired(doc[id]) /\ doc[id].updated >= disk[id].updated

(* GuardLocalWrite and mergeDrafts: whatever a window that slept saves, a  *)
(* record on disk is never replaced by an older one and never left out,    *)
(* until its tombstone is past the TTL.                                    *)
DiskNeverOlder ==
    [][\A id \in DOMAIN disk :
         \/ Expired(disk[id])
         \/ id \in DOMAIN disk' /\ disk'[id].updated >= disk[id].updated
         \/ id \notin DOMAIN disk' /\ Buried(id)]_appVars

(* reloadFromDisk, "settled without loss": words typed here that were      *)
(* never sent are still in the window's document after a read, in their    *)
(* draft or in one of their own - unless their draft was deleted           *)
(* elsewhere, or is back at the words last seen here, under a newer stamp: *)
(* those are not taken for an unread version, and replace what was typed.  *)
TypedWordsKept ==
    [][\A w \in Window : \A id \in DOMAIN seen[w] \cap DOMAIN copy[w] :
         (edits' = edits /\ Live(copy[w], id) /\ copy[w][id].text # seen[w][id].text)
           => \/ copy'[w][id].deleted # 0
              \/ copy'[w][id].text = seen[w][id].text
              \/ \E d \in DOMAIN copy'[w] : copy'[w][d].text = copy[w][id].text]_appVars

Quiet(w) ==
    /\ Awake(w) /\ ~timer[w] /\ saving[w] = "no" /\ ~Reading(w) /\ events[w] = <<>>
    /\ \A p \in puts : p.from # w

(* "app and daemon never disagree into an endless save->merge->push loop": *)
(* once nobody types, the saves and the reads they cause come to an end,   *)
(* and then every window on view shows what is on disk: no change went     *)
(* unannounced to one that needed it, no save was dropped that nobody      *)
(* repeats.                                                                *)
SavesSettle ==
    <>[](\A w \in Window :
           /\ Quiet(w)
           /\ DOMAIN copy[w] = DOMAIN disk
           /\ \A id \in DOMAIN disk : Words(copy[w][id]) = Words(disk[id]))
=============================================================================
