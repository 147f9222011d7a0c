------------------------------ MODULE DocMerge ------------------------------
(***************************************************************************)
(* The record-bearing app documents (todos, notes, clocks, places,         *)
(* drafts): how two nodes' versions are merged record by record            *)
(* (internal/peer/merge.go) and how an app's own save is judged against    *)
(* the copy on disk (internal/peer/guard.go).                              *)
(*                                                                         *)
(* A document is a function from the ids it holds to records.  A record    *)
(* has a stamp `updated`, its words `text`, one more field the apps grew   *)
(* later (`extra`: a note's colour, a draft's corrections), a tombstone    *)
(* stamp `deleted` and, for notes, a place on the desk with a stamp of its *)
(* own.  In every field 0 means that the record does not carry it.         *)
(***************************************************************************)
EXTENDS Integers

CONSTANTS
    Now,            \* time.Now() during the behaviour, in the stamps' unit
    TombstoneTTL    \* 30 days in that unit

ASSUME ClockAssumption == Now \in Nat /\ TombstoneTTL \in Nat

(* A record: 0 in a field that it does not carry.                          *)
Record == [text : Nat, extra : Nat, updated : Nat, deleted : Nat, place : Nat, placed : Nat]

IsDoc(doc) == doc \in [DOMAIN doc -> Record]

Fields == {"text", "extra", "updated", "deleted", "place", "placed"}

(* A text field that is there and empty; a `checked` that is there and {}. *)
Empty == 1

Expired(r) == r.deleted # 0 /\ Now - r.deleted > TombstoneTTL

(* pickJSON: the serialized records compared byte by byte, first text, ... *)
(* An absent field sorts after a present one: the key that follows, or the *)
(* closing brace, is the greater byte.                                     *)
JsonGeq(x, y) == x = y \/ (x # 0 /\ y # 0 /\ x > y) \/ (x = 0 /\ y # 0)

pickJSON(a, b) ==
    LET order == <<"text", "extra", "deleted", "place", "placed">>
        differ == {i \in 1..5 : a[order[i]] # b[order[i]]}
    IN  \A i \in differ :
            (\A j \in differ : i <= j) => JsonGeq(a[order[i]], b[order[i]])

(* wins: the higher stamp; on a tie the tombstone; then the bytes.         *)
wins(cand, cur) ==
    \/ cand.updated > cur.updated
    \/ /\ cand.updated = cur.updated
       /\ \/ cand.deleted # 0 /\ cur.deleted = 0
          \/ (cand.deleted # 0 <=> cur.deleted # 0) /\ ~pickJSON(cur, cand)

-----------------------------------------------------------------------------
(* Merging two documents.                                                  *)

Union(a, b, pick(_, _)) ==
    [id \in DOMAIN a \cup DOMAIN b |->
        IF id \notin DOMAIN b THEN a[id]
        ELSE IF id \notin DOMAIN a THEN b[id] ELSE pick(a[id], b[id])]

Collected(m, strip(_)) ==
    [id \in {i \in DOMAIN m : ~Expired(m[i])} |-> strip(m[id])]

mergeItem(old, n) == IF wins(n, old) THEN n ELSE old

AsIs(r) == r

(* mergeTodos, mergeClocks, mergePlaces: whole records.                    *)
mergeItems(a, b) == Collected(Union(a, b, mergeItem), AsIs)

(* A tombstone draft keeps only id and stamps; an empty map is not         *)
(* written, a text always is.                                              *)
StripDraft(r) ==
    [r EXCEPT !.text = IF r.deleted # 0 \/ @ = 0 THEN Empty ELSE @,
              !.extra = IF r.deleted # 0 \/ @ = Empty THEN 0 ELSE @]

mergeDrafts(a, b) == Collected(Union(a, b, mergeItem), StripDraft)

(* takePlace: the place and its stamp go together.                         *)
takePlace(dst, src) == [dst EXCEPT !.place = src.place, !.placed = src.placed]

(* A note's place goes by its own stamp, whichever side the text is from.  *)
mergeNote(old, n) ==
    LET pick == IF wins(n, old) THEN n ELSE old
        other == IF wins(n, old) THEN old ELSE n
    IN  IF other.placed > pick.placed THEN takePlace(pick, other) ELSE pick

StripNote(r) == IF r.deleted # 0 THEN [r EXCEPT !.place = 0, !.placed = 0] ELSE r

mergeNotes(a, b) == Collected(Union(a, b, mergeNote), StripNote)

-----------------------------------------------------------------------------
(* GuardLocalWrite, record by record: rec is sent, d is on disk.           *)

(* At an equal stamp a field the save does not carry is taken from disk.   *)
FillIn(rec, d) ==
    [f \in Fields |->
        IF f \in {"text", "extra", "deleted"} /\ rec[f] = 0 THEN d[f] ELSE rec[f]]

(* Mutant: the save's records are taken as sent.                           *)
BugGuardRecord(rec, d) == rec

guardRecord(rec, d) ==
    IF rec.updated < d.updated
    THEN IF rec.placed > d.placed THEN takePlace(d, rec) ELSE d
    ELSE LET kept == IF rec.updated = d.updated THEN FillIn(rec, d) ELSE rec
         IN  IF d.placed > rec.placed THEN takePlace(kept, d) ELSE kept

(* Records the save leaves out stay, except expired tombstones.            *)
GuardLocalWrite(disk, sent) ==
    [id \in DOMAIN sent \cup {i \in DOMAIN disk : ~Expired(disk[i])} |->
        IF id \notin DOMAIN sent THEN disk[id]
        ELSE IF id \notin DOMAIN disk THEN sent[id]
        ELSE guardRecord(sent[id], disk[id])]
=============================================================================
