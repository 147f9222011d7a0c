----------------------------- MODULE AppProofs -----------------------------
(***************************************************************************)
(* What holds of the record-bearing documents whatever they contain, and   *)
(* of AppDocs for any number of windows, edits and peers' versions: two    *)
(* versions merge to one result in either order, a save taken twice is a   *)
(* save taken once, no record on disk goes back or comes back, and what    *)
(* was typed and not sent outlives every read.  The inductive invariant is *)
(* Docs (whatever holds a document holds records) with SeenBefore (unsent  *)
(* words carry a later stamp than the version last seen).                  *)
(***************************************************************************)
EXTENDS AppDocs, TLAPS

-----------------------------------------------------------------------------
(* The merge of two records.                                               *)

(* cur stands against cand: pickJSON, field after field.                   *)
LEMMA FirstDifference ==
    ASSUME NEW a \in Record, NEW b \in Record
    PROVE  pickJSON(a, b) <=>
             \/ a.text # b.text /\ JsonGeq(a.text, b.text)
             \/ /\ a.text = b.text
                /\ \/ a.extra # b.extra /\ JsonGeq(a.extra, b.extra)
                   \/ /\ a.extra = b.extra
                      /\ \/ a.deleted # b.deleted /\ JsonGeq(a.deleted, b.deleted)
                         \/ /\ a.deleted = b.deleted
                            /\ \/ a.place # b.place /\ JsonGeq(a.place, b.place)
                               \/ a.place = b.place /\ (a.placed = b.placed \/ JsonGeq(a.placed, b.placed))
<1> DEFINE order == <<"text", "extra", "deleted", "place", "placed">>
           D(i) == a[order[i]] # b[order[i]]
           G(i) == JsonGeq(a[order[i]], b[order[i]])
<1>1. pickJSON(a, b) <=> \A i \in {k \in 1..5 : D(k)} : (\A j \in {k \in 1..5 : D(k)} : i <= j) => G(i)
  BY DEF pickJSON
<1>2. /\ D(1) <=> a.text # b.text
      /\ D(2) <=> a.extra # b.extra
      /\ D(3) <=> a.deleted # b.deleted
      /\ D(4) <=> a.place # b.place
      /\ D(5) <=> a.placed # b.placed
  OBVIOUS
<1>3. /\ G(1) <=> JsonGeq(a.text, b.text)
      /\ G(2) <=> JsonGeq(a.extra, b.extra)
      /\ G(3) <=> JsonGeq(a.deleted, b.deleted)
      /\ G(4) <=> JsonGeq(a.place, b.place)
      /\ G(5) <=> JsonGeq(a.placed, b.placed)
  OBVIOUS
<1> HIDE DEF D, G, order
<1>4. pickJSON(a, b) <=>
        /\ D(1) => G(1)
        /\ ~D(1) /\ D(2) => G(2)
        /\ ~D(1) /\ ~D(2) /\ D(3) => G(3)
        /\ ~D(1) /\ ~D(2) /\ ~D(3) /\ D(4) => G(4)
        /\ ~D(1) /\ ~D(2) /\ ~D(3) /\ ~D(4) /\ D(5) => G(5)
  <2>1. \A i \in 1..5 : i = 1 \/ i = 2 \/ i = 3 \/ i = 4 \/ i = 5
    OBVIOUS
  <2> QED BY <1>1, <2>1
<1> QED BY <1>2, <1>3, <1>4

(* A tie is broken the same way from both sides.                           *)
LEMMA JsonOrder ==
    /\ \A x, y \in Nat : JsonGeq(x, y) \/ JsonGeq(y, x)
    /\ \A x, y \in Nat : JsonGeq(x, y) /\ JsonGeq(y, x) => x = y
    /\ \A x, y, z \in Nat : JsonGeq(x, y) /\ JsonGeq(y, z) => JsonGeq(x, z)
  BY DEF JsonGeq

(* A record is its six fields.                                             *)
LEMMA Fieldwise ==
    ASSUME NEW r \in Record, NEW s \in Record, r.text = s.text, r.extra = s.extra, r.updated = s.updated,
           r.deleted = s.deleted, r.place = s.place, r.placed = s.placed
    PROVE  r = s
  BY DEF Record

(* Of two records one wins, unless they are the same record.               *)
LEMMA OneWins ==
    ASSUME NEW r \in Record, NEW s \in Record
    PROVE  /\ ~wins(r, r)
           /\ wins(r, s) => ~wins(s, r)
           /\ ~wins(r, s) /\ ~wins(s, r) => r = s
<1>1. /\ r.text \in Nat /\ r.extra \in Nat /\ r.updated \in Nat /\ r.deleted \in Nat /\ r.place \in Nat /\ r.placed \in Nat
      /\ s.text \in Nat /\ s.extra \in Nat /\ s.updated \in Nat /\ s.deleted \in Nat /\ s.place \in Nat /\ s.placed \in Nat
  BY DEF Record
<1>2. pickJSON(r, r)
  BY FirstDifference
<1>3. pickJSON(r, s) \/ pickJSON(s, r)
  BY <1>1, FirstDifference, JsonOrder
<1>4. pickJSON(r, s) /\ pickJSON(s, r) /\ r.updated = s.updated => r = s
  BY <1>1, FirstDifference, JsonOrder, Fieldwise
<1>5. ~wins(r, r)
  BY <1>1, <1>2 DEF wins
<1>6. wins(r, s) => ~wins(s, r)
  BY <1>1, <1>3 DEF wins
<1>7. ~wins(r, s) /\ ~wins(s, r) => r = s
  BY <1>1, <1>4 DEF wins
<1> QED BY <1>5, <1>6, <1>7

(* Who wins against the winner wins against the loser.                     *)
LEMMA WinsTransitive ==
    ASSUME NEW r \in Record, NEW s \in Record, NEW t \in Record, ~wins(s, r), ~wins(t, s)
    PROVE  ~wins(t, r)
<1>1. /\ r.text \in Nat /\ r.extra \in Nat /\ r.updated \in Nat /\ r.deleted \in Nat /\ r.place \in Nat /\ r.placed \in Nat
      /\ s.text \in Nat /\ s.extra \in Nat /\ s.updated \in Nat /\ s.deleted \in Nat /\ s.place \in Nat /\ s.placed \in Nat
      /\ t.text \in Nat /\ t.extra \in Nat /\ t.updated \in Nat /\ t.deleted \in Nat /\ t.place \in Nat /\ t.placed \in Nat
  BY DEF Record
<1>2. pickJSON(r, s) /\ pickJSON(s, t) => pickJSON(r, t)
  BY <1>1, FirstDifference, JsonOrder
<1> QED BY <1>1, <1>2 DEF wins

-----------------------------------------------------------------------------
(* The merge of two documents.                                             *)

(* Two records merge to one result in either order, not older than         *)
(* either.                                                                 *)
LEMMA RecordsMerge ==
    ASSUME NEW r \in Record, NEW s \in Record
    PROVE  /\ mergeItem(r, s) = mergeItem(s, r) /\ mergeNote(r, s) = mergeNote(s, r)
           /\ mergeItem(r, s) \in {r, s} /\ mergeNote(r, s) \in Record
           /\ mergeNote(r, s).updated = mergeItem(r, s).updated
           /\ mergeItem(r, s).updated >= r.updated
           /\ mergeItem(r, s).updated >= s.updated
<1>1. r.updated \in Nat /\ s.updated \in Nat /\ r.placed \in Nat /\ s.placed \in Nat
  BY DEF Record
<1>2. mergeItem(r, s) = mergeItem(s, r)
  BY OneWins DEF mergeItem
<1>3. mergeNote(r, s) = mergeNote(s, r)
  <2>1. CASE r = s
    BY <2>1
  <2>2. CASE wins(s, r)
    BY <2>2, <1>1, OneWins DEF mergeNote
  <2>3. CASE wins(r, s)
    BY <2>3, <1>1, OneWins DEF mergeNote
  <2> QED BY <2>1, <2>2, <2>3, OneWins
<1>4. mergeItem(r, s) \in {r, s}
  BY DEF mergeItem
<1>5. \A x, y \in Record : /\ takePlace(x, y) \in Record /\ takePlace(x, y).updated = x.updated
                           /\ takePlace(x, y).deleted = x.deleted
  BY DEF takePlace, Record
<1>6. mergeNote(r, s) \in Record /\ mergeNote(r, s).updated = mergeItem(r, s).updated
  BY <1>5 DEF mergeNote, mergeItem
<1>7. mergeItem(r, s).updated >= r.updated /\ mergeItem(r, s).updated >= s.updated
  BY <1>1 DEF mergeItem, wins
<1> QED BY <1>2, <1>3, <1>4, <1>6, <1>7

(* Two nodes that merge each other's version hold the same document,       *)
(* whichever calls the other's version incoming (resolveConcurrent: "every *)
(* node converges").                                                       *)
THEOREM MergesCommute ==
    ASSUME NEW a, NEW b, IsDoc(a), IsDoc(b)
    PROVE  /\ mergeItems(a, b) = mergeItems(b, a)
           /\ mergeDrafts(a, b) = mergeDrafts(b, a)
           /\ mergeNotes(a, b) = mergeNotes(b, a)
<1>1. \A id \in DOMAIN a : a[id] \in Record
  BY DEF IsDoc
<1>2. \A id \in DOMAIN b : b[id] \in Record
  BY DEF IsDoc
<1>3. Union(a, b, mergeItem) = Union(b, a, mergeItem)
  BY <1>1, <1>2, RecordsMerge DEF Union
<1>4. Union(a, b, mergeNote) = Union(b, a, mergeNote)
  BY <1>1, <1>2, RecordsMerge DEF Union
<1> QED BY <1>3, <1>4 DEF mergeItems, mergeDrafts, mergeNotes

(* A document without a tombstone that is due to go; a draft document as   *)
(* the app and the merge write it.                                         *)
NoneExpired(doc) == \A id \in DOMAIN doc : ~Expired(doc[id])
Stripped(doc) == \A id \in DOMAIN doc : StripDraft(doc[id]) = doc[id]

(* Before a tombstone is due to go, nothing is collected and nothing       *)
(* stripped: a merge is the union, winner by winner.                       *)
LEMMA PlainMerge ==
    ASSUME NEW a, NEW b, IsDoc(a), IsDoc(b), NoneExpired(a), NoneExpired(b)
    PROVE  /\ IsDoc(mergeItems(a, b)) /\ NoneExpired(mergeItems(a, b))
           /\ mergeItems(a, b) = Union(a, b, mergeItem)
           /\ Stripped(a) /\ Stripped(b) => /\ mergeDrafts(a, b) = mergeItems(a, b)
                                            /\ Stripped(mergeItems(a, b))
<1> DEFINE u == Union(a, b, mergeItem)
<1>1. /\ \A id \in DOMAIN a : a[id] \in Record
      /\ \A id \in DOMAIN b : b[id] \in Record
  BY DEF IsDoc
<1>2. /\ DOMAIN u = DOMAIN a \cup DOMAIN b
      /\ \A id \in DOMAIN u : (id \in DOMAIN a /\ u[id] = a[id]) \/ (id \in DOMAIN b /\ u[id] = b[id])
  BY <1>1, RecordsMerge DEF Union
<1>3. NoneExpired(u)
  BY <1>2 DEF NoneExpired
<1>4. u = [id \in DOMAIN u |-> u[id]]
  BY DEF Union
<1>5. mergeItems(a, b) = u
  BY <1>3, <1>4 DEF mergeItems, Collected, AsIs, NoneExpired
<1>6. IsDoc(u)
  BY <1>1, <1>2, <1>4 DEF IsDoc
<1>7. Stripped(a) /\ Stripped(b) => Stripped(u)
  BY <1>2 DEF Stripped
<1>8. Stripped(u) => mergeDrafts(a, b) = u
  BY <1>3, <1>4 DEF mergeDrafts, Collected, Stripped, NoneExpired
<1> QED BY <1>3, <1>5, <1>6, <1>7, <1>8

(* The best of three records is the same in whatever order they meet.      *)
LEMMA ItemAssociates ==
    ASSUME NEW r \in Record, NEW s \in Record, NEW t \in Record
    PROVE  mergeItem(mergeItem(r, s), t) = mergeItem(r, mergeItem(s, t))
BY OneWins, WinsTransitive DEF mergeItem

(* The order in which a node hears of the others' versions makes no        *)
(* difference, before a tombstone is past the TTL.                         *)
THEOREM MergesAssociate ==
    ASSUME NEW a, NEW b, NEW c, IsDoc(a), IsDoc(b), IsDoc(c),
           NoneExpired(a), NoneExpired(b), NoneExpired(c)
    PROVE  /\ mergeItems(mergeItems(a, b), c) = mergeItems(a, mergeItems(b, c))
           /\ Stripped(a) /\ Stripped(b) /\ Stripped(c)
                => mergeDrafts(mergeDrafts(a, b), c) = mergeDrafts(a, mergeDrafts(b, c))
<1>1. /\ \A id \in DOMAIN a : a[id] \in Record
      /\ \A id \in DOMAIN b : b[id] \in Record
      /\ \A id \in DOMAIN c : c[id] \in Record
  BY DEF IsDoc
<1>2. Union(Union(a, b, mergeItem), c, mergeItem) = Union(a, Union(b, c, mergeItem), mergeItem)
  BY <1>1, ItemAssociates DEF Union
<1>3. mergeItems(mergeItems(a, b), c) = mergeItems(a, mergeItems(b, c))
  BY <1>2, PlainMerge
<1>4. Stripped(a) /\ Stripped(b) /\ Stripped(c)
        => mergeDrafts(mergeDrafts(a, b), c) = mergeDrafts(a, mergeDrafts(b, c))
  BY <1>3, PlainMerge
<1> QED BY <1>3, <1>4

-----------------------------------------------------------------------------
(* A save judged against the disk.                                         *)

(* A saved record judged against the disk's: not older, not a deleted one  *)
(* brought back at its own stamp, and judged again it is itself.           *)
LEMMA RecordsGuarded ==
    ASSUME NEW r \in Record, NEW d \in Record
    PROVE  /\ guardRecord(r, d) \in Record /\ guardRecord(r, d).updated >= d.updated
           /\ d.deleted # 0 => guardRecord(r, d).deleted # 0 \/ guardRecord(r, d).updated > d.updated
           /\ guardRecord(r, guardRecord(r, d)) = guardRecord(r, d)
<1>1. /\ r.text \in Nat /\ r.extra \in Nat /\ r.updated \in Nat /\ r.deleted \in Nat /\ r.place \in Nat /\ r.placed \in Nat
      /\ d.text \in Nat /\ d.extra \in Nat /\ d.updated \in Nat /\ d.deleted \in Nat /\ d.place \in Nat /\ d.placed \in Nat
  BY DEF Record
<1>2. /\ FillIn(r, d) \in Record /\ FillIn(r, d).updated = r.updated
      /\ d.deleted # 0 => FillIn(r, d).deleted # 0
      /\ FillIn(r, d).placed = r.placed /\ FillIn(r, d).place = r.place
      /\ \A f \in {"text", "extra", "deleted"} : FillIn(r, d)[f] = IF r[f] = 0 THEN d[f] ELSE r[f]
  BY <1>1 DEF FillIn, Record, Fields
<1>3. \A x, y \in Record : /\ takePlace(x, y) \in Record /\ takePlace(x, y).updated = x.updated
                           /\ takePlace(x, y).deleted = x.deleted /\ takePlace(x, y).text = x.text
                           /\ takePlace(x, y).extra = x.extra
                           /\ takePlace(x, y).place = y.place /\ takePlace(x, y).placed = y.placed
  BY DEF takePlace, Record
<1> DEFINE k == IF r.updated = d.updated THEN FillIn(r, d) ELSE r
           g == guardRecord(r, d)
<1>4. k \in Record /\ k.updated = r.updated /\ k.placed = r.placed /\ k.place = r.place
  BY <1>2
<1>5. g = IF r.updated < d.updated THEN IF r.placed > d.placed THEN takePlace(d, r) ELSE d
                                   ELSE IF d.placed > r.placed THEN takePlace(k, d) ELSE k
  BY DEF guardRecord
<1> HIDE DEF k, g
<1>6. g \in Record
  BY <1>3, <1>4, <1>5
<1>7. g.updated >= d.updated
  BY <1>1, <1>3, <1>4, <1>5
<1>8. d.deleted # 0 => g.deleted # 0 \/ g.updated > d.updated
  BY <1>1, <1>2, <1>3, <1>4, <1>5 DEF k
<1>9. guardRecord(r, g) = g
  <2>1. CASE r.updated < d.updated
    <3>1. g.updated = d.updated /\ ~(r.placed > g.placed)
      BY <2>1, <1>1, <1>3, <1>5
    <3> QED BY <2>1, <3>1 DEF guardRecord
  <2>2. CASE ~(r.updated < d.updated)
    <3>1. /\ g.updated = r.updated /\ g.text = k.text /\ g.extra = k.extra /\ g.deleted = k.deleted
          /\ g.placed \in Nat /\ g.placed >= r.placed /\ (g.placed = r.placed => g.place = r.place)
      BY <2>2, <1>1, <1>3, <1>4, <1>5, <1>6 DEF Record
    <3>2. \A f \in {"text", "extra", "deleted"} : r[f] # 0 => g[f] = r[f]
      BY <1>2, <3>1 DEF k
    <3>3. /\ FillIn(r, g) \in Record /\ FillIn(r, g).updated = r.updated
          /\ FillIn(r, g).text = g.text /\ FillIn(r, g).extra = g.extra /\ FillIn(r, g).deleted = g.deleted
          /\ FillIn(r, g).placed = r.placed /\ FillIn(r, g).place = r.place
      BY <1>1, <1>6, <3>2 DEF FillIn, Record, Fields
    <3>4. guardRecord(r, g) = IF g.placed > r.placed THEN takePlace(FillIn(r, g), g) ELSE FillIn(r, g)
      BY <3>1, <1>1 DEF guardRecord
    <3>5. CASE g.placed > r.placed
      BY <3>1, <3>3, <3>4, <3>5, <1>3, <1>6, Fieldwise
    <3>6. CASE ~(g.placed > r.placed)
      <4>1. g.placed = r.placed
        BY <3>1, <3>6, <1>1
      <4> QED BY <4>1, <3>1, <3>3, <3>4, <3>6, <1>6, Fieldwise
    <3> QED BY <3>5, <3>6
  <2> QED BY <2>1, <2>2
<1> QED BY <1>6, <1>7, <1>8, <1>9 DEF g

(* A save that arrives twice, or is tried again after it was taken, does   *)
(* not change the document a second time.                                  *)
THEOREM SaveTwice ==
    ASSUME NEW d, NEW sent, IsDoc(d), IsDoc(sent)
    PROVE  GuardLocalWrite(GuardLocalWrite(d, sent), sent) = GuardLocalWrite(d, sent)
<1> DEFINE once == GuardLocalWrite(d, sent)
<1>1. /\ \A id \in DOMAIN d : d[id] \in Record
      /\ \A id \in DOMAIN sent : sent[id] \in Record
  BY DEF IsDoc
<1>2. /\ DOMAIN once = DOMAIN sent \cup {i \in DOMAIN d : ~Expired(d[i])}
      /\ \A id \in DOMAIN once : once[id] = IF id \notin DOMAIN sent THEN d[id]
                                            ELSE IF id \notin DOMAIN d THEN sent[id]
                                            ELSE guardRecord(sent[id], d[id])
  BY DEF GuardLocalWrite
<1>3. \A r \in Record : guardRecord(r, r) = r
  <2> TAKE r \in Record
  <2>1. r.updated \in Nat /\ r.placed \in Nat
    BY DEF Record
  <2>2. FillIn(r, r) = r
    BY DEF FillIn, Record, Fields
  <2> QED BY <2>1, <2>2 DEF guardRecord
<1>4. \A id \in DOMAIN sent : guardRecord(sent[id], once[id]) = once[id]
  BY <1>1, <1>2, <1>3, RecordsGuarded
<1>5. DOMAIN once = DOMAIN sent \cup {i \in DOMAIN once : ~Expired(once[i])}
  BY <1>2
<1>6. once = [id \in DOMAIN once |-> once[id]]
  BY DEF GuardLocalWrite
<1> HIDE DEF once
<1>7. GuardLocalWrite(once, sent) = once
  BY <1>4, <1>5, <1>6 DEF GuardLocalWrite
<1> QED BY <1>7 DEF once

(* A document merged with itself is itself, before a tombstone is due.     *)
LEMMA MergeIsIdempotent ==
    ASSUME NEW d, IsDoc(d), NoneExpired(d)
    PROVE  mergeItems(d, d) = d /\ (Stripped(d) => mergeDrafts(d, d) = d)
<1>1. \A id \in DOMAIN d : mergeItem(d[id], d[id]) = d[id]
  BY DEF mergeItem
<1>2. d = [id \in DOMAIN d |-> d[id]]
  BY DEF IsDoc
<1>3. Union(d, d, mergeItem) = d
  BY <1>1, <1>2 DEF Union
<1> QED BY <1>3, PlainMerge

(* Items and drafts have no place.  A save that does not know of a newer   *)
(* edit, nor has one, carries at most what disk has at that stamp: an      *)
(* older window leaves out fields it does not know.                        *)
Unplaced(doc) == \A id \in DOMAIN doc : doc[id].place = 0 /\ doc[id].placed = 0

Echoes(sent, d) ==
    \A id \in DOMAIN sent \cap DOMAIN d :
        sent[id].updated = d[id].updated
          => \A f \in {"text", "extra", "deleted"} : sent[id][f] \in {0, d[id][f]}

LEMMA EchoGuarded ==
    ASSUME NEW r \in Record, NEW d \in Record,
           r.place = 0, r.placed = 0, d.place = 0, d.placed = 0,
           r.updated = d.updated => \A f \in {"text", "extra", "deleted"} : r[f] \in {0, d[f]}
    PROVE  guardRecord(r, d) \in {r, d} /\ mergeItem(d, guardRecord(r, d)) = guardRecord(r, d)
<1>1. r.updated \in Nat /\ d.updated \in Nat
  BY DEF Record
<1>2. CASE r.updated < d.updated
  <2>1. guardRecord(r, d) = d
    BY <1>2 DEF guardRecord
  <2> QED BY <2>1 DEF mergeItem
<1>3. CASE r.updated = d.updated
  <2>1. /\ FillIn(r, d) \in Record /\ FillIn(r, d).updated = r.updated
        /\ FillIn(r, d).place = r.place /\ FillIn(r, d).placed = r.placed
        /\ FillIn(r, d).text = d.text /\ FillIn(r, d).extra = d.extra
        /\ FillIn(r, d).deleted = d.deleted
    BY <1>3 DEF FillIn, Record, Fields
  <2>2. FillIn(r, d) = d
    BY <1>3, <2>1, Fieldwise
  <2>3. guardRecord(r, d) = d
    BY <1>1, <1>3, <2>2 DEF guardRecord
  <2> QED BY <2>3 DEF mergeItem
<1>4. CASE r.updated > d.updated
  <2>1. guardRecord(r, d) = r
    BY <1>1, <1>4 DEF guardRecord
  <2>2. wins(r, d)
    BY <1>4 DEF wins
  <2> QED BY <2>1, <2>2 DEF mergeItem
<1> QED BY <1>1, <1>2, <1>3, <1>4

(* What a save writes is at or above what it replaces: merging the old     *)
(* document in changes nothing.  With MergesCommute, MergesAssociate and   *)
(* MergeIsIdempotent that is what the sync of documents (MergesWell)       *)
(* rests on.                                                               *)
THEOREM SaveIsAbove ==
    ASSUME NEW d, NEW sent, IsDoc(d), IsDoc(sent), NoneExpired(d), NoneExpired(sent),
           Unplaced(d), Unplaced(sent), Echoes(sent, d)
    PROVE  LET w == GuardLocalWrite(d, sent)
           IN  /\ mergeItems(d, w) = w
               /\ Stripped(d) /\ Stripped(sent) => mergeDrafts(d, w) = w
<1> DEFINE w == GuardLocalWrite(d, sent)
<1>1. /\ \A id \in DOMAIN d : d[id] \in Record
      /\ \A id \in DOMAIN sent : sent[id] \in Record
  BY DEF IsDoc
<1>2. /\ DOMAIN w = DOMAIN sent \cup DOMAIN d
      /\ w = [id \in DOMAIN w |-> w[id]]
      /\ \A id \in DOMAIN w : w[id] = IF id \notin DOMAIN sent THEN d[id]
                                      ELSE IF id \notin DOMAIN d THEN sent[id]
                                      ELSE guardRecord(sent[id], d[id])
  BY DEF GuardLocalWrite, NoneExpired
<1> HIDE DEF w
<1>3. ASSUME NEW id \in DOMAIN d \cap DOMAIN sent
      PROVE  w[id] \in {sent[id], d[id]} /\ mergeItem(d[id], w[id]) = w[id]
  BY <1>1, <1>2, EchoGuarded DEF Unplaced, Echoes
<1>4. \A id \in DOMAIN w : (id \in DOMAIN d /\ w[id] = d[id]) \/ (id \in DOMAIN sent /\ w[id] = sent[id])
  BY <1>2, <1>3
<1>5. IsDoc(w) /\ NoneExpired(w) /\ (Stripped(d) /\ Stripped(sent) => Stripped(w))
  BY <1>1, <1>2, <1>4 DEF IsDoc, NoneExpired, Stripped
<1>6. \A id \in DOMAIN d : mergeItem(d[id], w[id]) = w[id]
  <2> TAKE id \in DOMAIN d
  <2>1. CASE id \in DOMAIN sent
    BY <1>3, <2>1
  <2>2. CASE id \notin DOMAIN sent
    BY <1>2, <2>2 DEF mergeItem
  <2> QED BY <2>1, <2>2
<1>7. Union(d, w, mergeItem) = w
  BY <1>2, <1>6 DEF Union
<1> QED BY <1>5, <1>7, PlainMerge DEF w

-----------------------------------------------------------------------------
(* The windows and the daemon.  Whatever holds a document holds records:   *)
(* the disk, the saves on their way, the windows' copies, the answers to   *)
(* their reads.                                                            *)
Docs ==
    /\ IsDoc(disk)
    /\ \A p \in puts : IsDoc(p.doc)
    /\ DOMAIN copy = Window /\ \A w \in Window : IsDoc(copy[w])
    /\ DOMAIN reads = Window
    /\ \A w \in Window : \A i \in DOMAIN reads[w] : reads[w][i] # <<>> => IsDoc(reads[w][i][1])
    /\ DOMAIN seen = Window
    /\ \A w \in Window : \A id \in DOMAIN seen[w] : seen[w][id].text \in Nat
    /\ edits \in Nat

(* What the helpers make of documents.                                     *)
LEMMA GuardedDoc ==
    ASSUME NEW d, NEW sent, IsDoc(d), IsDoc(sent)
    PROVE  IsDoc(GuardLocalWrite(d, sent))
<1>1. /\ \A id \in DOMAIN d : d[id] \in Record
      /\ \A id \in DOMAIN sent : sent[id] \in Record
  BY DEF IsDoc
<1> QED BY <1>1, RecordsGuarded DEF GuardLocalWrite, IsDoc

(* What StripDraft takes from a record is never its stamp or its           *)
(* tombstone.                                                              *)
LEMMA StrippedRecord ==
    ASSUME NEW r \in Record
    PROVE  StripDraft(r) \in Record /\ StripDraft(r).updated = r.updated /\ StripDraft(r).deleted = r.deleted
BY DEF StripDraft, Record, Empty

(* A merge leaves a document, and of each record here the winner -         *)
(* without one that is past the TTL.                                       *)
LEMMA MergedDoc ==
    ASSUME NEW a, NEW b, IsDoc(a), IsDoc(b)
    PROVE  /\ IsDoc(mergeDrafts(a, b))
           /\ \A id \in DOMAIN a :
                LET r == IF id \in DOMAIN b THEN mergeItem(a[id], b[id]) ELSE a[id]
                IN  IF Expired(r) THEN id \notin DOMAIN mergeDrafts(a, b)
                    ELSE id \in DOMAIN mergeDrafts(a, b) /\ mergeDrafts(a, b)[id] = StripDraft(r)
<1> DEFINE u == Union(a, b, mergeItem)
           m == mergeDrafts(a, b)
<1>1. /\ \A id \in DOMAIN a : a[id] \in Record
      /\ \A id \in DOMAIN b : b[id] \in Record
  BY DEF IsDoc
<1>2. /\ DOMAIN u = DOMAIN a \cup DOMAIN b
      /\ \A id \in DOMAIN u : u[id] \in Record
      /\ \A id \in DOMAIN a : u[id] = IF id \in DOMAIN b THEN mergeItem(a[id], b[id]) ELSE a[id]
  BY <1>1, RecordsMerge DEF Union
<1>3. m = [id \in {i \in DOMAIN u : ~Expired(u[i])} |-> StripDraft(u[id])]
  BY DEF mergeDrafts, Collected
<1> HIDE DEF u, m
<1>4. IsDoc(m)
  BY <1>2, <1>3, StrippedRecord DEF IsDoc
<1>5. \A id \in DOMAIN a : IF Expired(u[id]) THEN id \notin DOMAIN m
                           ELSE id \in DOMAIN m /\ m[id] = StripDraft(u[id])
  BY <1>2, <1>3
<1>6. \A id \in DOMAIN a :
        LET r == IF id \in DOMAIN b THEN mergeItem(a[id], b[id]) ELSE a[id]
        IN  IF Expired(r) THEN id \notin DOMAIN m ELSE id \in DOMAIN m /\ m[id] = StripDraft(r)
  BY <1>2, <1>5
<1> QED BY <1>4, <1>6 DEF m

(* A save sends a document.                                                *)
LEMMA SentDoc ==
    ASSUME Docs, NEW w \in Window
    PROVE  IsDoc(docJSON(w))
<1>1. IsDoc(copy[w]) /\ \A id \in DOMAIN copy[w] : copy[w][id] \in Record
  BY DEF Docs, IsDoc
<1>2. \A r \in Record, x \in {2, Empty} : [r EXCEPT !.extra = x] \in Record
  BY DEF Record, Empty
<1> QED BY <1>1, <1>2 DEF docJSON, IsDoc

(* What a window notes of a document are words.                            *)
LEMMA SeenTexts ==
    ASSUME NEW known, NEW doc, IsDoc(doc), \A id \in DOMAIN known : known[id].text \in Nat
    PROVE  \A id \in DOMAIN see(known, doc) : see(known, doc)[id].text \in Nat
<1>1. \A id \in DOMAIN doc : doc[id].text \in Nat
  BY DEF IsDoc, Record
<1> QED BY <1>1 DEF see

(* Asking again takes no answer out of another read.                       *)
LEMMA AskedReads ==
    ASSUME NEW rs, \A i \in DOMAIN rs : rs[i] # <<>> => IsDoc(rs[i][1])
    PROVE  \A i \in DOMAIN Asked(rs) : Asked(rs)[i] # <<>> => IsDoc(Asked(rs)[i][1])
BY DEF Asked

(* What an edit, a deletion and a read leave is a record.                  *)
LEMMA NewRecord ==
    /\ \A t, u \in Nat : Rec(t, u) \in Record
    /\ \A r \in Record, u \in Nat :
         [r EXCEPT !.updated = u, !.deleted = Now, !.text = 0, !.extra = 0] \in Record
    /\ \A r \in Record : normDraft(r) \in Record
  BY ClockAssumption DEF Rec, Record, Empty, normDraft

-----------------------------------------------------------------------------
(* Every step leaves documents where documents were, action by action.     *)
LEMMA DocsKept == Docs /\ [AppNext]_appVars => Docs'
<1> SUFFICES ASSUME Docs, [AppNext]_appVars PROVE Docs'
  OBVIOUS
<1>1. ASSUME NEW p \in puts, Put(p) PROVE Docs'
  <2>1. IsDoc(disk')
    BY <1>1, GuardedDoc DEF Put, Docs
  <2> QED BY <1>1, <2>1 DEF Put, Docs
<1>2. ASSUME NEW doc \in Remote, RemoteMerge(doc) PROVE Docs'
  <2>1. IsDoc(disk')
    BY <1>2, MergedDoc, AppAssumption DEF RemoteMerge, Docs
  <2> QED BY <1>2, <2>1 DEF RemoteMerge, Docs, desk
<1>3. ASSUME NEW w \in Window, NEW i \in DOMAIN reads[w], Answer(w, i) PROVE Docs'
  <2>1. IsDoc([id \in DOMAIN disk |-> normDraft(disk[id])])
    BY NewRecord DEF Docs, IsDoc
  <2>2. DOMAIN reads' = Window /\ \A v \in Window : \A k \in DOMAIN reads'[v] :
          reads'[v][k] # <<>> => IsDoc(reads'[v][k][1])
    BY <1>3, <2>1 DEF Answer, Docs
  <2> QED BY <1>3, <2>2 DEF Answer, Docs
<1>4. ASSUME NEW w \in Window, NEW id \in DOMAIN copy[w], Type(w, id) \/ Drop(w, id) PROVE Docs'
  <2>0. Edit /\ Live(copy[w], id) /\ UNCHANGED <<disk, puts, reads, seen>>
    <3>1. CASE Type(w, id)
      BY <3>1 DEF Type
    <3>2. CASE Drop(w, id)
      BY <3>2, Zenon DEF Drop
    <3> QED BY <1>4, <3>1, <3>2
  <2>1. PICK r : r \in Record /\ copy' = [copy EXCEPT ![w] = [copy[w] EXCEPT ![id] = r]]
    <3>1. /\ id \in DOMAIN copy[w] /\ copy[w][id] \in Record /\ edits' \in Nat
          /\ DOMAIN copy = Window /\ copy[w] \in [DOMAIN copy[w] -> Record]
      BY <2>0 DEF Edit, Live, Docs, IsDoc
    <3>2. Stamps(copy[w][id]) \subseteq Nat
      BY <3>1, AppAssumption DEF Stamps, Tick, Record
    <3>3. Typed(w, id) \subseteq Nat
      BY <3>1 DEF Typed, Docs
    <3>4. CASE Type(w, id)
      BY <3>2, <3>3, <3>4, NewRecord DEF Type, Changed
    <3>5. CASE Drop(w, id)
      <4>1. PICK s \in Stamps(copy[w][id]) :
              copy' = [copy EXCEPT ![w] = [copy[w] EXCEPT ![id].updated = s, ![id].deleted = Now,
                                                          ![id].text = 0, ![id].extra = 0]]
        BY <3>5 DEF Drop, Changed
      <4>2. PICK r : r = [copy[w][id] EXCEPT !.updated = s, !.deleted = Now, !.text = 0, !.extra = 0]
        OBVIOUS
      <4>3. [copy[w] EXCEPT ![id].updated = s, ![id].deleted = Now, ![id].text = 0, ![id].extra = 0]
              = [copy[w] EXCEPT ![id] = r]
        BY <4>2, <3>1
      <4>4. r \in Record
        BY <4>2, <3>1, <3>2, NewRecord
      <4> QED BY <4>1, <4>3, <4>4
    <3> QED BY <1>4, <3>4, <3>5
  <2>2. DOMAIN copy' = Window /\ \A v \in Window : IsDoc(copy'[v])
    BY <2>1 DEF Docs, IsDoc
  <2>3. UNCHANGED <<disk, puts, reads, seen>> /\ edits' \in Nat
    BY <2>0 DEF Edit, Docs
  <2> QED BY <2>2, <2>3 DEF Docs
<1>5. ASSUME NEW w \in Window, NEW id \in DOMAIN copy[w], Correct(w, id) PROVE Docs'
  BY <1>5 DEF Correct, Edit, Docs
<1>6. ASSUME NEW w \in Window, saveDoc(w) \/ SaveDone(w) \/ Hide(w) PROVE Docs'
  <2>1. UNCHANGED <<disk, copy, reads, edits>>
    BY <1>6 DEF saveDoc, SaveDone, Hide, Mishap
  <2>2. \A p \in puts' : p \in puts \/ p.doc = docJSON(w)
    BY <1>6 DEF saveDoc, SaveDone, Hide, Snapshot
  <2>3. seen' = seen \/ seen' = [seen EXCEPT ![w] = see(seen[w], docJSON(w))]
    BY <1>6 DEF saveDoc, SaveDone, Hide, Sent
  <2>4. DOMAIN seen' = Window /\ \A v \in Window : \A id \in DOMAIN seen'[v] : seen'[v][id].text \in Nat
    BY <2>3, SentDoc, SeenTexts DEF Docs
  <2>5. \A p \in puts' : IsDoc(p.doc)
    BY <2>2, SentDoc DEF Docs
  <2> QED BY <2>1, <2>4, <2>5 DEF Docs
<1>7. ASSUME NEW w \in Window, Show(w) \/ Notice(w) PROVE Docs'
  <2>1. UNCHANGED <<disk, puts, copy, seen, edits>> /\ (reads' = reads \/ reads' = [reads EXCEPT ![w] = Asked(reads[w])])
    BY <1>7 DEF Show, Notice, AskedBy
  <2>2. DOMAIN reads' = Window /\ \A v \in Window : \A k \in DOMAIN reads'[v] :
          reads'[v][k] # <<>> => IsDoc(reads'[v][k][1])
    BY <2>1, AskedReads DEF Docs
  <2> QED BY <2>1, <2>2 DEF Docs
<1>8. ASSUME NEW w \in Window, NEW i \in DOMAIN reads[w], Reload(w, i) PROVE Docs'
  <2> DEFINE got == reads[w][i][1]
             forked == {id \in DOMAIN copy[w] \cap DOMAIN got : Unread(w, got, id)}
             k == CHOOSE n \in 1..MaxEdits : \A id \in forked : IsNew(w, n, id, got)
             forks == {NewId(w, k, id) : id \in forked}
             mine == {id \in DOMAIN copy[w] : Ahead(w, got, id)}
             doc == [id \in DOMAIN got \cup DOMAIN copy[w] \cup forks |->
                       IF id \in forks THEN Rec(copy[w][id[3]].text, Now)
                       ELSE IF id \in mine THEN copy[w][id] ELSE got[id]]
  <2>1. /\ copy' = [copy EXCEPT ![w] = doc]
        /\ seen' = [seen EXCEPT ![w] = see(@, [id \in DOMAIN got \ mine |-> got[id]])]
        /\ reads' = [reads EXCEPT ![w] = [n \in DOMAIN @ \ {i} |-> @[n]]]
        /\ UNCHANGED <<disk, puts, edits>> /\ reads[w][i] # <<>>
    BY <1>8 DEF Reload
  <2>2. /\ IsDoc(got) /\ \A id \in DOMAIN got : got[id] \in Record
        /\ IsDoc(copy[w]) /\ \A id \in DOMAIN copy[w] : copy[w][id] \in Record
    BY <2>1 DEF Docs, IsDoc
  <2>3. \A id \in forks : Rec(copy[w][id[3]].text, Now) \in Record
    <3>1. \A id \in DOMAIN copy[w] : copy[w][id].text \in Nat
      BY <2>2 DEF Record
    <3>2. \A id \in forks : id[3] \in DOMAIN copy[w]
      BY DEF NewId
    <3> QED BY <3>1, <3>2, NewRecord, ClockAssumption
  <2>4. \A id \in DOMAIN copy[w] \ DOMAIN got : id \in mine
    BY DEF Ahead
  <2>5. IsDoc(doc)
    BY <2>2, <2>3, <2>4 DEF IsDoc
  <2>6. IsDoc([id \in DOMAIN got \ mine |-> got[id]])
    BY <2>2 DEF IsDoc
  <2> HIDE DEF got, forked, k, forks, mine, doc
  <2>7. DOMAIN copy' = Window /\ \A v \in Window : IsDoc(copy'[v])
    BY <2>1, <2>5 DEF Docs
  <2>8. DOMAIN seen' = Window /\ \A v \in Window : \A id \in DOMAIN seen'[v] : seen'[v][id].text \in Nat
    BY <2>1, <2>6, SeenTexts DEF Docs
  <2>9. DOMAIN reads' = Window /\ \A v \in Window : \A n \in DOMAIN reads'[v] :
          reads'[v][n] # <<>> => IsDoc(reads'[v][n][1])
    BY <2>1 DEF Docs
  <2> QED BY <2>1, <2>7, <2>8, <2>9 DEF Docs
<1>9. ASSUME NEW lost \in SUBSET puts, RestartDaemon(lost) PROVE Docs'
  <2>1. \A w \in Window : \A k \in DOMAIN Answered(w) : Answered(w)[k] # <<>> => IsDoc(Answered(w)[k][1])
    BY DEF Answered, Docs
  <2>2. DOMAIN reads' = Window /\ \A v \in Window : \A k \in DOMAIN reads'[v] :
          reads'[v][k] # <<>> => IsDoc(reads'[v][k][1])
    BY <1>9, <2>1, AskedReads DEF RestartDaemon
  <2> QED BY <1>9, <2>2 DEF RestartDaemon, Docs
<1>10. CASE UNCHANGED appVars
  BY <1>10 DEF appVars, desk, Docs
<1> QED BY <1>1, <1>2, <1>3, <1>4, <1>5, <1>6, <1>7, <1>8, <1>9, <1>10 DEF AppNext, Step

(* The windows open on the document the disk has.                          *)
LEMMA DocsInit == AppInit => Docs
<1> SUFFICES ASSUME AppInit PROVE Docs
  OBVIOUS
<1>0. Empty \in Nat /\ Tick \in Nat
  BY AppAssumption DEF Empty, Tick
<1>1. Rec(Empty, Tick) \in Record
  BY <1>0, NewRecord
<1>2. IsDoc(disk) /\ \A w \in Window : IsDoc(copy[w])
  BY <1>1 DEF AppInit, IsDoc
<1>3. \A w \in Window : DOMAIN reads[w] = {}
  BY DEF AppInit
<1> QED BY <1>2, <1>3 DEF AppInit, Docs, Empty

(* Docs is an invariant of its own: the theorems about the disk need no    *)
(* more.                                                                   *)
LEMMA DocsInv == AppSpec => []Docs
<1> QED BY DocsInit, DocsKept, PTL DEF AppSpec

-----------------------------------------------------------------------------
(* A step leaves the disk alone, or is a save or a merge.                  *)
LEMMA DiskStep ==
    ASSUME Docs, [AppNext]_appVars
    PROVE  \/ disk' = disk
           \/ \E p \in puts : disk' = GuardLocalWrite(disk, p.doc)
           \/ \E doc \in Remote : disk' = mergeDrafts(disk, doc)
<1>1. ASSUME NEW p \in puts, Put(p) PROVE disk' = disk \/ disk' = GuardLocalWrite(disk, p.doc)
  BY <1>1 DEF Put
<1>2. ASSUME NEW doc \in Remote, RemoteMerge(doc) PROVE disk' = mergeDrafts(disk, doc)
  BY <1>2 DEF RemoteMerge
<1>3. ASSUME NEW w \in Window, NEW i \in DOMAIN reads[w], Answer(w, i) PROVE disk' = disk
  BY <1>3 DEF Answer
<1>4. ASSUME NEW w \in Window, NEW i \in DOMAIN reads[w], Reload(w, i) PROVE disk' = disk
  BY <1>4 DEF Reload
<1>5. ASSUME NEW w \in Window, NEW id, Type(w, id) PROVE disk' = disk
  BY <1>5, Zenon DEF Type
<1>6. ASSUME NEW w \in Window, NEW id, Drop(w, id) PROVE disk' = disk
  BY <1>6, Zenon DEF Drop
<1>7. ASSUME NEW w \in Window, NEW id, Correct(w, id) PROVE disk' = disk
  BY <1>7, Zenon DEF Correct
<1>8. ASSUME NEW w \in Window, saveDoc(w) \/ SaveDone(w) \/ Hide(w) \/ Show(w) \/ Notice(w) PROVE disk' = disk
  BY <1>8 DEF saveDoc, SaveDone, Hide, Show, Notice
<1>9. ASSUME NEW lost \in SUBSET puts, RestartDaemon(lost) PROVE disk' = disk
  BY <1>9 DEF RestartDaemon
<1>10. CASE UNCHANGED appVars
  BY <1>10 DEF appVars
<1> QED BY <1>1, <1>2, <1>3, <1>4, <1>5, <1>6, <1>7, <1>8, <1>9, <1>10 DEF AppNext, Step

(* GuardLocalWrite, record by record.                                      *)
LEMMA SavedRecord ==
    ASSUME NEW d, NEW sent, IsDoc(d), IsDoc(sent), NEW id \in DOMAIN d, ~Expired(d[id])
    PROVE  LET e == GuardLocalWrite(d, sent)
           IN  /\ id \in DOMAIN e /\ e[id].updated >= d[id].updated
               /\ d[id].deleted # 0 => e[id].deleted # 0 \/ e[id].updated > d[id].updated
<1>1. d[id] \in Record /\ d[id].updated \in Nat /\ (id \in DOMAIN sent => sent[id] \in Record)
  BY DEF IsDoc, Record
<1> DEFINE e == GuardLocalWrite(d, sent)
<1>2. id \in DOMAIN e /\ e[id] = IF id \notin DOMAIN sent THEN d[id] ELSE guardRecord(sent[id], d[id])
  BY DEF GuardLocalWrite
<1> HIDE DEF e
<1>3. /\ e[id].updated >= d[id].updated
      /\ d[id].deleted # 0 => e[id].deleted # 0 \/ e[id].updated > d[id].updated
  BY <1>1, <1>2, RecordsGuarded
<1> QED BY <1>2, <1>3 DEF e

(* mergeDrafts, record by record: the record on disk goes only for a newer *)
(* tombstone that is past the TTL.                                         *)
LEMMA MergedRecord ==
    ASSUME NEW d, NEW doc, IsDoc(d), IsDoc(doc), NEW id \in DOMAIN d, ~Expired(d[id])
    PROVE  LET e == mergeDrafts(d, doc)
           IN  \/ /\ id \in DOMAIN e /\ e[id].updated >= d[id].updated
                  /\ d[id].deleted # 0 => e[id].deleted # 0 \/ e[id].updated > d[id].updated
               \/ id \notin DOMAIN e /\ id \in DOMAIN doc /\ Expired(doc[id]) /\ doc[id].updated >= d[id].updated
<1>1. /\ d[id] \in Record /\ d[id].updated \in Nat
      /\ id \in DOMAIN doc => doc[id] \in Record /\ doc[id].updated \in Nat
  BY DEF IsDoc, Record
<1> DEFINE e == mergeDrafts(d, doc)
<1>2. PICK r : r = IF id \in DOMAIN doc THEN mergeItem(d[id], doc[id]) ELSE d[id]
  OBVIOUS
<1>3. IF Expired(r) THEN id \notin DOMAIN e ELSE id \in DOMAIN e /\ e[id] = StripDraft(r)
  BY <1>2, MergedDoc
<1> HIDE DEF e
<1>4. r = d[id] \/ (id \in DOMAIN doc /\ r = doc[id])
  BY <1>2 DEF mergeItem
<1>5. /\ r \in Record /\ r.updated \in Nat /\ r.updated >= d[id].updated
      /\ d[id].deleted # 0 => r.deleted # 0 \/ r.updated > d[id].updated
  BY <1>1, <1>2, <1>4 DEF mergeItem, wins
<1>6. CASE Expired(r)
  BY <1>3, <1>4, <1>5, <1>6 DEF e
<1>7. CASE ~Expired(r)
  BY <1>3, <1>5, <1>7, StrippedRecord DEF e
<1> QED BY <1>6, <1>7

(* No step takes a record on disk back or brings a deleted one back: the   *)
(* step of the two theorems about the disk.                                *)
LEMMA RecordsStay ==
    ASSUME Docs, [AppNext]_appVars, NEW id \in DOMAIN disk, ~Expired(disk[id])
    PROVE  \/ /\ id \in DOMAIN disk' /\ disk'[id].updated >= disk[id].updated
              /\ disk[id].deleted # 0 => disk'[id].deleted # 0 \/ disk'[id].updated > disk[id].updated
           \/ id \notin DOMAIN disk' /\ Buried(id)
<1>1. IsDoc(disk) /\ disk[id].updated \in Nat
  BY DEF Docs, IsDoc, Record
<1>2. CASE disk' = disk
  BY <1>1, <1>2
<1>3. ASSUME NEW p \in puts, disk' = GuardLocalWrite(disk, p.doc)
      PROVE  /\ id \in DOMAIN disk' /\ disk'[id].updated >= disk[id].updated
             /\ disk[id].deleted # 0 => disk'[id].deleted # 0 \/ disk'[id].updated > disk[id].updated
  BY <1>1, <1>3, SavedRecord DEF Docs
<1>4. ASSUME NEW doc \in Remote, disk' = mergeDrafts(disk, doc)
      PROVE  \/ /\ id \in DOMAIN disk' /\ disk'[id].updated >= disk[id].updated
                /\ disk[id].deleted # 0 => disk'[id].deleted # 0 \/ disk'[id].updated > disk[id].updated
             \/ id \notin DOMAIN disk' /\ Buried(id)
  BY <1>1, <1>4, MergedRecord, AppAssumption DEF Buried
<1> QED BY <1>2, <1>3, <1>4, DiskStep

(* The disk keeps the newest version of every record it has had.           *)
THEOREM DiskGoesForward == AppSpec => DiskNeverOlder
<1>1. Docs /\ [AppNext]_appVars =>
        [\A id \in DOMAIN disk :
           \/ Expired(disk[id])
           \/ id \in DOMAIN disk' /\ disk'[id].updated >= disk[id].updated
           \/ id \notin DOMAIN disk' /\ Buried(id)]_appVars
  BY RecordsStay
<1> QED BY <1>1, DocsInv, PTL DEF AppSpec, DiskNeverOlder

(* A draft that was deleted comes back by a newer edit only, never by the  *)
(* save of a window that had it open (FillIn): until its tombstone is past *)
(* the TTL.                                                                *)
DeletedStays ==
    [][\A id \in DOMAIN disk :
         disk[id].deleted # 0 /\ ~Expired(disk[id])
           => \/ id \in DOMAIN disk' /\ (disk'[id].deleted # 0 \/ disk'[id].updated > disk[id].updated)
              \/ id \notin DOMAIN disk' /\ Buried(id)]_appVars

(* ... by whatever order saves, merges and restarts come in.               *)
THEOREM NothingRevived == AppSpec => DeletedStays
<1>1. Docs /\ [AppNext]_appVars =>
        [\A id \in DOMAIN disk :
           disk[id].deleted # 0 /\ ~Expired(disk[id])
             => \/ id \in DOMAIN disk' /\ (disk'[id].deleted # 0 \/ disk'[id].updated > disk[id].updated)
                \/ id \notin DOMAIN disk' /\ Buried(id)]_appVars
  BY RecordsStay
<1> QED BY <1>1, DocsInv, PTL DEF AppSpec, DeletedStays

-----------------------------------------------------------------------------
(* What a window has seen of a live draft is not newer than its own copy,  *)
(* and older where its words are others: unsent words carry a later stamp. *)
SeenIn(c, k) ==
    /\ DOMAIN k \subseteq DOMAIN c
    /\ \A id \in DOMAIN k :
         /\ k[id].updated \in Nat
         /\ Live(c, id) => /\ k[id].updated <= c[id].updated
                           /\ k[id].text # c[id].text => k[id].updated < c[id].updated

SeenBefore == \A w \in Window : SeenIn(copy[w], seen[w])

(* What a window has seen after it read or sent a document: that version   *)
(* of the document's records, and what it had seen of the others.          *)
LEMMA SeeFacts ==
    ASSUME NEW known, NEW doc
    PROVE  /\ DOMAIN see(known, doc) \subseteq DOMAIN known \cup DOMAIN doc
           /\ \A id \in DOMAIN see(known, doc) :
                IF id \in DOMAIN doc
                THEN see(known, doc)[id].text = doc[id].text /\ see(known, doc)[id].updated = doc[id].updated
                ELSE id \in DOMAIN known /\ see(known, doc)[id] = known[id]
BY DEF see

(* Sending a copy: what was sent is what the window has.                   *)
LEMMA SentSeen ==
    ASSUME Docs, NEW w \in Window, SeenIn(copy[w], seen[w])
    PROVE  SeenIn(copy[w], see(seen[w], docJSON(w)))
<1> DEFINE c == copy[w]
           d == docJSON(w)
           k == see(seen[w], d)
<1>1. /\ \A id \in DOMAIN c : c[id] \in Record /\ c[id].updated \in Nat
      /\ DOMAIN d = {i \in DOMAIN c : ~Expired(c[i])}
  BY DEF Docs, IsDoc, docJSON, Record
<1>2. \A id \in DOMAIN d : d[id].text = c[id].text /\ d[id].updated = c[id].updated
  <2>1. \A r \in Record, x \in {2, Empty} : /\ [r EXCEPT !.extra = x].text = r.text
                                            /\ [r EXCEPT !.extra = x].updated = r.updated
    BY DEF Record
  <2> QED BY <1>1, <2>1 DEF docJSON
<1>3. \A id \in DOMAIN c \ DOMAIN d : ~Live(c, id)
  BY <1>1 DEF Live, Expired
<1>4. /\ DOMAIN k \subseteq DOMAIN seen[w] \cup DOMAIN d
      /\ \A id \in DOMAIN k : IF id \in DOMAIN d THEN k[id].text = d[id].text /\ k[id].updated = d[id].updated
                                                 ELSE id \in DOMAIN seen[w] /\ k[id] = seen[w][id]
  BY SeeFacts
<1> HIDE DEF d, k
<1>5. DOMAIN k \subseteq DOMAIN c
  BY <1>1, <1>4 DEF SeenIn
<1> QED BY <1>1, <1>2, <1>3, <1>4, <1>5 DEF SeenIn, k, d

(* A read that is used: what the window adopts it has seen; the rest of    *)
(* its copy stays, and the drafts made of unsent words are new.            *)
Got(w, i) == reads[w][i][1]

Mine(w, i) == {id \in DOMAIN copy[w] : Ahead(w, Got(w, i), id)}

Adopts(w, i, new) ==
    /\ DOMAIN copy' = Window /\ \A v \in Window \ {w} : copy'[v] = copy[v]
    /\ DOMAIN seen' = Window /\ \A v \in Window \ {w} : seen'[v] = seen[v]
    /\ seen'[w] = see(seen[w], [id \in DOMAIN Got(w, i) \ Mine(w, i) |-> Got(w, i)[id]])
    /\ IsDoc(Got(w, i)) /\ new \cap (DOMAIN copy[w] \cup DOMAIN Got(w, i)) = {}
    /\ DOMAIN copy'[w] = DOMAIN copy[w] \cup DOMAIN Got(w, i) \cup new
    /\ \A id \in Mine(w, i) : copy'[w][id] = copy[w][id]
    /\ \A id \in DOMAIN Got(w, i) \ Mine(w, i) : copy'[w][id] = Got(w, i)[id]
    /\ \A id \in DOMAIN copy[w] \cap DOMAIN Got(w, i) :
         Unread(w, Got(w, i), id) => \E n \in new : copy'[w][n].text = copy[w][id].text

(* Reload does what Adopts says, with the drafts it makes of unsent words  *)
(* as the new ones.                                                        *)
LEMMA ReloadAdopts ==
    ASSUME Docs, NEW w \in Window, NEW i \in DOMAIN reads[w], Reload(w, i)
    PROVE  \E new : Adopts(w, i, new)
<1> DEFINE c == copy[w]
           g == Got(w, i)
           forked == {id \in DOMAIN c \cap DOMAIN g : Unread(w, g, id)}
           k == CHOOSE n \in 1..MaxEdits : \A id \in forked : IsNew(w, n, id, g)
           forks == {NewId(w, k, id) : id \in forked}
           mine == Mine(w, i)
           doc == [id \in DOMAIN g \cup DOMAIN c \cup forks |->
                     IF id \in forks THEN Rec(c[id[3]].text, Now)
                     ELSE IF id \in mine THEN c[id] ELSE g[id]]
<1>1. /\ \A id \in forked : IsNew(w, k, id, g)
      /\ copy' = [copy EXCEPT ![w] = doc]
      /\ seen' = [seen EXCEPT ![w] = see(seen[w], [id \in DOMAIN g \ mine |-> g[id]])]
      /\ reads[w][i] # <<>>
  BY DEF Reload, Got, Mine
<1>2. IsDoc(g)
  BY <1>1 DEF Docs, Got
<1>3. forks \cap (DOMAIN c \cup DOMAIN g) = {}
  BY <1>1 DEF IsNew
<1>4. \A id \in forked : NewId(w, k, id) \in forks /\ NewId(w, k, id)[3] = id
  BY DEF NewId
<1>5. DOMAIN doc = DOMAIN g \cup DOMAIN c \cup forks
  OBVIOUS
<1>6. \A id \in forked : doc[NewId(w, k, id)].text = c[id].text
  <2> TAKE id \in forked
  <2> HIDE DEF forked, k, forks
  <2>1. doc[NewId(w, k, id)] = Rec(c[NewId(w, k, id)[3]].text, Now)
    BY <1>4
  <2>2. NewId(w, k, id)[3] = id
    BY <1>4
  <2> QED BY <2>1, <2>2 DEF Rec
<1>7. \A id \in mine : doc[id] = c[id]
  BY <1>3 DEF Mine
<1>8. \A id \in DOMAIN g \ mine : doc[id] = g[id]
  BY <1>3
<1>9. \A id \in DOMAIN c \cap DOMAIN g : Unread(w, g, id) => \E n \in forks : doc[n].text = c[id].text
  BY <1>4, <1>6
<1> HIDE DEF forked, k, forks, doc
<1>10. copy'[w] = doc
  BY <1>1 DEF Docs
<1>11. Adopts(w, i, forks)
  BY <1>1, <1>2, <1>3, <1>5, <1>7, <1>8, <1>9, <1>10 DEF Adopts, Docs
<1> QED BY <1>11

(* After a read is used, what the window has not adopted still carries     *)
(* the later stamp.                                                        *)
LEMMA ReloadSeen ==
    ASSUME Docs, NEW w \in Window, NEW i \in DOMAIN reads[w], Reload(w, i), SeenIn(copy[w], seen[w])
    PROVE  SeenIn(copy'[w], seen'[w])
<1>0. PICK c, g, mine : c = copy[w] /\ g = Got(w, i) /\ mine = Mine(w, i)
  OBVIOUS
<1>1. PICK new : Adopts(w, i, new)
  BY ReloadAdopts
<1>2. \A id \in DOMAIN g : g[id].updated \in Nat
  BY <1>0, <1>1 DEF Adopts, IsDoc, Record
<1>3. PICK h : h = [id \in DOMAIN g \ mine |-> g[id]]
  OBVIOUS
<1>4. DOMAIN h = DOMAIN g \ mine /\ \A id \in DOMAIN h : h[id] = g[id]
  BY <1>3
<1>5. seen'[w] = see(seen[w], h)
  BY <1>0, <1>1, <1>3 DEF Adopts
<1>6. DOMAIN c \ DOMAIN g \subseteq mine
  BY <1>0 DEF Mine, Ahead
<1>7. SUFFICES ASSUME NEW id \in DOMAIN seen'[w]
               PROVE  /\ id \in DOMAIN copy'[w] /\ seen'[w][id].updated \in Nat
                      /\ Live(copy'[w], id) =>
                           /\ seen'[w][id].updated <= copy'[w][id].updated
                           /\ seen'[w][id].text # copy'[w][id].text => seen'[w][id].updated < copy'[w][id].updated
  BY DEF SeenIn
<1>8. CASE id \in DOMAIN h
  <2>1. seen'[w][id].text = g[id].text /\ seen'[w][id].updated = g[id].updated /\ copy'[w][id] = g[id]
    BY <1>0, <1>1, <1>4, <1>5, <1>8, SeeFacts DEF Adopts
  <2>2. id \in DOMAIN copy'[w]
    BY <1>0, <1>1, <1>4, <1>8 DEF Adopts
  <2> QED BY <2>1, <2>2, <1>2, <1>4, <1>8
<1>9. CASE id \notin DOMAIN h
  <2>1. id \in DOMAIN seen[w] /\ seen'[w][id] = seen[w][id]
    BY <1>5, <1>9, SeeFacts
  <2>2. id \in DOMAIN c /\ id \in mine
    BY <2>1, <1>0, <1>4, <1>6, <1>9 DEF SeenIn
  <2>3. copy'[w][id] = c[id] /\ id \in DOMAIN copy'[w]
    BY <2>2, <1>0, <1>1 DEF Adopts
  <2> QED BY <2>1, <2>2, <2>3, <1>0 DEF SeenIn, Live
<1> QED BY <1>8, <1>9

(* Typing and deleting raise the record's stamp; nothing else touches a    *)
(* copy but a read that is used.                                           *)
LEMMA EditSeen ==
    ASSUME Docs, NEW w \in Window, NEW id \in DOMAIN copy[w], Type(w, id) \/ Drop(w, id), SeenBefore
    PROVE  SeenBefore' /\ edits' # edits
<1>1. /\ id \in DOMAIN copy[w] /\ copy[w][id] \in Record /\ copy[w][id].updated \in Nat
      /\ DOMAIN copy = Window /\ copy[w] \in [DOMAIN copy[w] -> Record]
  BY DEF Docs, IsDoc, Record
<1>2. Edit /\ seen' = seen /\ Live(copy[w], id)
  <2>1. CASE Type(w, id)
    BY <2>1 DEF Type
  <2>2. CASE Drop(w, id)
    BY <2>2, Zenon DEF Drop
  <2> QED BY <2>1, <2>2
<1>3. edits' # edits /\ edits' \in Nat
  BY <1>2 DEF Edit, Docs
<1>4. \A s \in Stamps(copy[w][id]) : s \in Nat /\ s > copy[w][id].updated
  BY <1>1, AppAssumption DEF Stamps, Tick
<1>5. PICK r : r.updated \in Nat /\ r.updated > copy[w][id].updated /\ copy' = [copy EXCEPT ![w] = [copy[w] EXCEPT ![id] = r]]
  <2>1. CASE Type(w, id)
    <3>1. PICK s \in Stamps(copy[w][id]), t \in Typed(w, id) : copy' = [copy EXCEPT ![w] = [copy[w] EXCEPT ![id] = Rec(t, s)]]
      BY <2>1 DEF Type, Changed
    <3>2. Rec(t, s).updated = s
      BY DEF Rec
    <3> QED BY <3>1, <3>2, <1>4
  <2>2. CASE Drop(w, id)
    <3>1. PICK s \in Stamps(copy[w][id]) :
            copy' = [copy EXCEPT ![w] = [copy[w] EXCEPT ![id].updated = s, ![id].deleted = Now,
                                                        ![id].text = 0, ![id].extra = 0]]
      BY <2>2 DEF Drop, Changed
    <3>2. PICK r : r = [copy[w][id] EXCEPT !.updated = s, !.deleted = Now, !.text = 0, !.extra = 0]
      OBVIOUS
    <3>3. [copy[w] EXCEPT ![id].updated = s, ![id].deleted = Now, ![id].text = 0, ![id].extra = 0]
            = [copy[w] EXCEPT ![id] = r]
      BY <3>2, <1>1
    <3>4. r.updated = s
      BY <3>2, <1>1 DEF Record
    <3> QED BY <3>1, <3>3, <3>4, <1>4
  <2> QED BY <2>1, <2>2
<1>6. /\ \A v \in Window \ {w} : copy'[v] = copy[v]
      /\ DOMAIN copy'[w] = DOMAIN copy[w] /\ copy'[w][id] = r
      /\ \A j \in DOMAIN copy[w] \ {id} : copy'[w][j] = copy[w][j]
  BY <1>1, <1>5
<1>7. SeenIn(copy'[w], seen[w])
  <2>1. SeenIn(copy[w], seen[w])
    BY DEF SeenBefore
  <2>2. \A j \in DOMAIN seen[w] \ {id} : Live(copy'[w], j) => Live(copy[w], j) /\ copy'[w][j] = copy[w][j]
    BY <2>1, <1>6 DEF SeenIn, Live
  <2>3. id \in DOMAIN seen[w] => seen[w][id].updated < r.updated
    BY <2>1, <1>1, <1>2, <1>5 DEF SeenIn
  <2>4. SUFFICES ASSUME NEW j \in DOMAIN seen[w]
                 PROVE  /\ j \in DOMAIN copy'[w] /\ seen[w][j].updated \in Nat
                        /\ Live(copy'[w], j) =>
                             /\ seen[w][j].updated <= copy'[w][j].updated
                             /\ seen[w][j].text # copy'[w][j].text => seen[w][j].updated < copy'[w][j].updated
    BY DEF SeenIn
  <2>5. j \in DOMAIN copy'[w] /\ seen[w][j].updated \in Nat
    BY <2>1, <1>6 DEF SeenIn
  <2>6. CASE j = id
    BY <2>3, <2>5, <2>6, <1>5, <1>6
  <2>7. CASE j # id
    BY <2>1, <2>2, <2>5, <2>7 DEF SeenIn
  <2> QED BY <2>5, <2>6, <2>7
<1> QED BY <1>2, <1>3, <1>6, <1>7 DEF SeenBefore

(* Which steps change a copy or what a window has seen.                    *)
LEMMA DeskStep ==
    ASSUME Docs, [AppNext]_appVars
    PROVE  \/ copy' = copy /\ seen' = seen
           \/ \E w \in Window : copy' = copy /\ seen' = [seen EXCEPT ![w] = see(seen[w], docJSON(w))]
           \/ \E w \in Window : \E id \in DOMAIN copy[w] : Type(w, id) \/ Drop(w, id)
           \/ \E w \in Window : \E i \in DOMAIN reads[w] : Reload(w, i)
<1>1. ASSUME NEW p \in puts, Put(p) PROVE copy' = copy /\ seen' = seen
  BY <1>1 DEF Put
<1>2. ASSUME NEW doc \in Remote, RemoteMerge(doc) PROVE copy' = copy /\ seen' = seen
  BY <1>2 DEF RemoteMerge, desk
<1>3. ASSUME NEW w \in Window, NEW i \in DOMAIN reads[w], Answer(w, i) PROVE copy' = copy /\ seen' = seen
  BY <1>3 DEF Answer
<1>4. ASSUME NEW w \in Window, NEW id, Correct(w, id) PROVE copy' = copy /\ seen' = seen
  BY <1>4, Zenon DEF Correct
<1>5. ASSUME NEW w \in Window, saveDoc(w) \/ SaveDone(w) \/ Hide(w)
      PROVE  copy' = copy /\ (seen' = seen \/ seen' = [seen EXCEPT ![w] = see(seen[w], docJSON(w))])
  BY <1>5 DEF saveDoc, SaveDone, Hide, Sent
<1>6. ASSUME NEW w \in Window, Show(w) \/ Notice(w) PROVE copy' = copy /\ seen' = seen
  BY <1>6 DEF Show, Notice
<1>7. ASSUME NEW lost \in SUBSET puts, RestartDaemon(lost) PROVE copy' = copy /\ seen' = seen
  BY <1>7 DEF RestartDaemon
<1>8. CASE UNCHANGED appVars
  BY <1>8 DEF appVars, desk
<1> QED BY <1>1, <1>2, <1>3, <1>4, <1>5, <1>6, <1>7, <1>8 DEF AppNext, Step

(* Every step keeps SeenBefore: edits, sends and reads by their lemmas;    *)
(* no other step touches a copy or what was seen.                          *)
LEMMA SeenKept == Docs /\ SeenBefore /\ [AppNext]_appVars => SeenBefore'
<1> SUFFICES ASSUME Docs, SeenBefore, [AppNext]_appVars PROVE SeenBefore'
  OBVIOUS
<1>1. CASE copy' = copy /\ seen' = seen
  BY <1>1 DEF SeenBefore
<1>2. ASSUME NEW w \in Window, copy' = copy, seen' = [seen EXCEPT ![w] = see(seen[w], docJSON(w))]
      PROVE  SeenBefore'
  <2>1. SeenIn(copy[w], seen'[w])
    BY <1>2, SentSeen DEF SeenBefore, Docs
  <2>2. \A v \in Window \ {w} : seen'[v] = seen[v]
    BY <1>2 DEF Docs
  <2> QED BY <1>2, <2>1, <2>2 DEF SeenBefore
<1>3. ASSUME NEW w \in Window, NEW id \in DOMAIN copy[w], Type(w, id) \/ Drop(w, id) PROVE SeenBefore'
  BY <1>3, EditSeen
<1>4. ASSUME NEW w \in Window, NEW i \in DOMAIN reads[w], Reload(w, i) PROVE SeenBefore'
  <2>1. SeenIn(copy'[w], seen'[w])
    BY <1>4, ReloadSeen DEF SeenBefore
  <2>2. \A v \in Window \ {w} : copy'[v] = copy[v] /\ seen'[v] = seen[v]
    BY <1>4, ReloadAdopts DEF Adopts
  <2> QED BY <2>1, <2>2 DEF SeenBefore
<1> QED BY <1>1, <1>2, <1>3, <1>4, DeskStep

(* The windows have seen the version they opened on.                       *)
LEMMA SeenInit == AppInit => SeenBefore
<1>1. Tick \in Nat
  BY AppAssumption DEF Tick
<1> QED BY <1>1 DEF AppInit, SeenBefore, SeenIn, Live, Rec

(* The inductive invariant of the windows.                                 *)
LEMMA DeskInv == AppSpec => [](Docs /\ SeenBefore)
<1> QED BY DocsInit, SeenInit, DocsKept, SeenKept, PTL DEF AppSpec

(* What happens to unsent words when a read is used.                       *)
LEMMA WordsKept ==
    ASSUME Docs, SeenBefore, NEW w \in Window, NEW i \in DOMAIN reads[w], Reload(w, i),
           NEW id \in DOMAIN seen[w] \cap DOMAIN copy[w], Live(copy[w], id),
           copy[w][id].text # seen[w][id].text
    PROVE  \/ copy'[w][id].deleted # 0
           \/ copy'[w][id].text = seen[w][id].text
           \/ \E d \in DOMAIN copy'[w] : copy'[w][d].text = copy[w][id].text
<1>0. PICK c, g, mine : c = copy[w] /\ g = Got(w, i) /\ mine = Mine(w, i)
  OBVIOUS
<1>1. PICK new : Adopts(w, i, new)
  BY ReloadAdopts
<1>2. /\ c[id].updated \in Nat /\ seen[w][id].updated \in Nat
      /\ seen[w][id].updated < c[id].updated
      /\ \A j \in DOMAIN g : g[j].updated \in Nat
  BY <1>0, <1>1 DEF Docs, IsDoc, Record, SeenBefore, SeenIn, Adopts
<1>3. CASE id \in mine
  BY <1>0, <1>1, <1>3 DEF Adopts
<1>4. CASE id \in DOMAIN g /\ Unread(w, g, id)
  BY <1>0, <1>1, <1>4 DEF Adopts
<1>5. CASE id \notin mine /\ ~(id \in DOMAIN g /\ Unread(w, g, id))
  <2>1. id \in DOMAIN g /\ c[id].updated <= g[id].updated
    BY <1>0, <1>2, <1>5 DEF Mine, Ahead
  <2>2. copy'[w][id] = g[id]
    BY <1>0, <1>1, <1>5, <2>1 DEF Adopts
  <2>3. seen[w][id].updated < g[id].updated
    BY <1>2, <2>1
  <2>4. CASE g[id].deleted # 0
    BY <2>2, <2>4
  <2>5. CASE g[id].deleted = 0
    <3>1. g[id].text = seen[w][id].text \/ c[id].text = g[id].text
      BY <1>0, <1>2, <1>5, <2>1, <2>3, <2>5 DEF Unread, Live
    <3>2. id \in DOMAIN copy'[w]
      BY <1>0, <1>1, <2>1 DEF Adopts
    <3> QED BY <1>0, <3>1, <3>2, <2>2
  <2> QED BY <2>4, <2>5
<1> QED BY <1>3, <1>4, <1>5

(* Unsent words outlive every read, in whatever order reads, saves, peers' *)
(* versions and restarts come.                                             *)
THEOREM TypedWordsStay == AppSpec => TypedWordsKept
<1>1. ASSUME Docs, SeenBefore, [AppNext]_appVars, NEW w \in Window,
             NEW id \in DOMAIN seen[w] \cap DOMAIN copy[w],
             edits' = edits, Live(copy[w], id), copy[w][id].text # seen[w][id].text
      PROVE  \/ copy'[w][id].deleted # 0
             \/ copy'[w][id].text = seen[w][id].text
             \/ \E d \in DOMAIN copy'[w] : copy'[w][d].text = copy[w][id].text
  <2>1. CASE copy'[w] = copy[w]
    BY <2>1, <1>1
  <2>2. ASSUME NEW v \in Window, NEW i \in DOMAIN reads[v], Reload(v, i)
        PROVE  copy'[w] = copy[w] \/ v = w
    BY <2>2, <1>1, ReloadAdopts DEF Adopts
  <2>3. ASSUME NEW v \in Window, NEW j \in DOMAIN copy[v], Type(v, j) \/ Drop(v, j)
        PROVE  FALSE
    BY <2>3, <1>1, EditSeen
  <2>4. copy' = copy \/ \E v \in Window : \E i \in DOMAIN reads[v] : Reload(v, i)
    BY <1>1, <2>3, DeskStep
  <2> QED BY <1>1, <2>1, <2>2, <2>4, WordsKept
<1>2. Docs /\ SeenBefore /\ [AppNext]_appVars =>
        [\A w \in Window : \A id \in DOMAIN seen[w] \cap DOMAIN copy[w] :
           (edits' = edits /\ Live(copy[w], id) /\ copy[w][id].text # seen[w][id].text)
             => \/ copy'[w][id].deleted # 0
                \/ copy'[w][id].text = seen[w][id].text
                \/ \E d \in DOMAIN copy'[w] : copy'[w][d].text = copy[w][id].text]_appVars
  BY <1>1
<1> QED BY <1>2, DeskInv, PTL DEF AppSpec, TypedWordsKept
=============================================================================
