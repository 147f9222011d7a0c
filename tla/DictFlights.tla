---------------------------- MODULE DictFlights -----------------------------
(***************************************************************************)
(* The Dict app's lookups (src/internal/server/dict.go): an entry that is  *)
(* not kept is written by a flight, one session of the Codex CLI, and every*)
(* lookup that can share the flight reads its lines. Flights are listed    *)
(* under ids that say what they write and whether its spelling is settled; *)
(* a lookup joins by those ids, and a flight whose spelling pass settles on*)
(* a word another flight is writing follows that one.                      *)
(*                                                                         *)
(* One pair of languages; a text is a model value. What the session answers*)
(* is a choice: its verdict on a text is one of Verdicts[text], and any    *)
(* turn may fail. The lines a flight says are left out: a reader's answer  *)
(* is the flight's last line.                                              *)
(***************************************************************************)
EXTENDS Integers, Sequences, FiniteSets

CONSTANTS Text,       \* what readers type, as dictKey keeps it
          Reader,     \* lookups
          Verdicts,   \* Verdicts[t]: what the spelling pass may say of t: a text, t itself for "word", or "unknown"
          MaxFlights  \* sessions ever started

VARIABLES entries,    \* the entries table: the keys it keeps
          typos,      \* the typos table: the word a text was read as, or "none"
          flight,     \* the flights, in the order they were started
          listed,     \* s.dictFlights: an id's flight, 0 for none
          reader      \* the lookups under way

vars == <<entries, typos, flight, listed, reader>>

spellID(t) == <<"spell", t>>
entryID(t) == <<"entry", t>>
Id == {"spell", "entry"} \X Text

NoResult == [kind |-> "none"]
Entry(w) == [kind |-> "entry", word |-> w]
NotFound == [kind |-> "notfound"]
Failed == [kind |-> "error"]

\* A flight nobody can join any more: only its result counts.
Landed == [at |-> "done", key |-> "none", mode |-> "none", spelled |-> FALSE,
           ids |-> {}, follows |-> 0, result |-> NoResult]

NoLookup == [at |-> "typing", text |-> "none", exact |-> FALSE, word |-> "none", of |-> 0]

Flights == 1 .. Len(flight)

\* The tables are on disk, as earlier sessions left them; no session runs.
Init ==
    /\ entries \in SUBSET Text
    /\ typos \in [Text -> Text \union {"none"}]
    /\ \A t \in Text : typos[t] \in {"none"} \union (Verdicts[t] \ {t})
    /\ flight = <<>>
    /\ listed = [i \in Id |-> 0]
    /\ reader = [r \in Reader |-> NoLookup]

(***************************************************************************)
(* dictFind: the key a lookup reads or would write. An entry of its own    *)
(* comes first; then, unless it is exact, the word it is a known typo of.  *)
(***************************************************************************)
dictFind(key, exact) ==
    IF key \notin entries /\ ~exact /\ typos[key] \notin {"none", key} THEN typos[key] ELSE key

-----------------------------------------------------------------------------
\* The reader is answered, and may look something up again.
Answered(r) == reader' = [reader EXCEPT ![r] = NoLookup]

\* A lookup: dictBegin's dictFind, and the answer if the entry is kept.
dictBegin(r, text, exact) ==
    /\ reader[r].at = "typing"
    /\ LET word == dictFind(text, exact)
       IN IF word \in entries
          THEN Answered(r)
          ELSE reader' = [reader EXCEPT ![r] = [at |-> "joins", text |-> text, exact |-> exact, word |-> word, of |-> 0]]
    /\ UNCHANGED <<entries, typos, flight, listed>>

Mode(r) ==
    IF reader[r].exact THEN "exact"
    ELSE IF reader[r].word # reader[r].text THEN "checked" ELSE "plain"

\* The flights a lookup of key in this mode may share, the first that there is.
Shared(key, mode) ==
    LET entry == listed[entryID(key)]
        spell == listed[spellID(key)]
    IN CASE mode = "exact" -> entry
         [] mode = "checked" -> IF entry # 0 THEN entry ELSE spell
         [] mode = "plain" -> IF spell # 0 THEN spell
                              ELSE IF entry # 0 /\ flight[entry].spelled THEN entry ELSE 0

\* A lookup that has joined flight f: what was typed counts no more.
Reads(f) == [NoLookup EXCEPT !.at = "reads", !.of = f]

\* dictJoin, under dictMu: a flight that can be shared, else one started and listed now.
dictJoin(r) ==
    /\ reader[r].at = "joins"
    /\ LET key == reader[r].word
           mode == Mode(r)
           id == IF mode = "plain" THEN spellID(key) ELSE entryID(key)
           new == [at |-> "finds", key |-> key, mode |-> mode, spelled |-> mode = "checked",
                   ids |-> {id}, follows |-> 0, result |-> NoResult]
       IN \/ /\ Shared(key, mode) # 0
             /\ reader' = [reader EXCEPT ![r] = Reads(Shared(key, mode))]
             /\ UNCHANGED <<flight, listed>>
          \/ /\ Shared(key, mode) = 0
             /\ Len(flight) < MaxFlights
             /\ flight' = Append(flight, new)
             /\ listed' = [listed EXCEPT ![id] = Len(flight) + 1]
             /\ reader' = [reader EXCEPT ![r] = Reads(Len(flight) + 1)]
          \/ /\ Shared(key, mode) = 0     \* errNoLLM: no Codex CLI on this host
             /\ reader' = [reader EXCEPT ![r] = NoLookup]
             /\ UNCHANGED <<flight, listed>>
    /\ UNCHANGED <<entries, typos>>

\* The loop of handleDictLookup comes to the flight's last line.
handleDictLookup(r) ==
    /\ reader[r].at = "reads"
    /\ flight[reader[r].of].at = "done"
    /\ Answered(r)
    /\ UNCHANGED <<entries, typos, flight, listed>>

\* The window is closed; the session goes on.
Leaves(r) ==
    /\ reader[r].at = "reads"
    /\ reader' = [reader EXCEPT ![r] = NoLookup]
    /\ UNCHANGED <<entries, typos, flight, listed>>

-----------------------------------------------------------------------------
\* The flight's goroutine.
Ends(f, result) == flight' = [flight EXCEPT ![f].at = "ends", ![f].result = result]

\* Where a flight of this mode goes once its session is up.
FirstTurn(mode) == [plain |-> "spells", checked |-> "files", exact |-> "writes"][mode]

\* What was kept, or read as a typo, between the lookup's miss and the flight's start; else the session is started.
startCodexAppServer(f) ==
    /\ flight[f].at = "finds"
    /\ LET word == dictFind(flight[f].key, flight[f].mode = "exact")
           mode == IF word # flight[f].key THEN "checked" ELSE flight[f].mode
       IN IF word \in entries
          THEN Ends(f, Entry(word))
          ELSE \/ flight' = [flight EXCEPT ![f].key = word, ![f].mode = mode, ![f].at = FirstTurn(mode)]
               \/ Ends(f, Failed)
    /\ UNCHANGED <<entries, typos, listed, reader>>

\* The spelling pass fails, or knows no such word.
SpellEnds(f) ==
    /\ flight[f].at = "spells"
    /\ \/ Ends(f, Failed)
       \/ "unknown" \in Verdicts[flight[f].key] /\ Ends(f, NotFound)
    /\ UNCHANGED <<entries, typos, listed, reader>>

\* It reads the text as a word: its own, or the one it is a typo of, which may be kept already.
dictSpell(f) ==
    /\ flight[f].at = "spells"
    /\ \E word \in Verdicts[flight[f].key] \ {"unknown"} :
          /\ typos' = IF word = flight[f].key THEN typos ELSE [typos EXCEPT ![flight[f].key] = word]
          /\ IF word # flight[f].key /\ word \in entries
             THEN flight' = [flight EXCEPT ![f].key = word, ![f].at = "ends", ![f].result = Entry(word)]
             ELSE flight' = [flight EXCEPT ![f].key = word, ![f].at = "files"]
    /\ UNCHANGED <<entries, listed, reader>>

\* The flight another one leaves word to: the one listed for it, if that is not f itself.
BugHolder(f, word) == listed[entryID(word)]
Holder(f, word) == IF listed[entryID(word)] = f THEN 0 ELSE listed[entryID(word)]

\* file: list f under the word it settled on, or follow the flight that is listed there.
file(f) ==
    /\ flight[f].at = "files"
    /\ LET word == flight[f].key
           g == Holder(f, word)
       IN IF g # 0
          THEN /\ flight' = [flight EXCEPT ![f].at = "follows", ![f].follows = g]
               /\ UNCHANGED listed
          ELSE /\ flight' = [flight EXCEPT ![f].at = "writes", ![f].spelled = TRUE,
                                           ![f].ids = @ \union {entryID(word)}]
               /\ listed' = [listed EXCEPT ![entryID(word)] = f]
    /\ UNCHANGED <<entries, typos, reader>>

\* follow returns once the other flight is done, with its result. It has no deadline of its own.
follow(f) ==
    /\ flight[f].at = "follows"
    /\ flight[flight[f].follows].at = "done"
    /\ Ends(f, flight[flight[f].follows].result)
    /\ UNCHANGED <<entries, typos, listed, reader>>

\* The long turn ends without an entry: an error, the deadline, an answer that is none, or no such word.
TurnEnds(f) ==
    /\ flight[f].at = "writes"
    /\ \/ Ends(f, Failed)
       \/ Ends(f, NotFound)
    /\ UNCHANGED <<entries, typos, listed, reader>>

\* It ends with one: dictPut.
dictPut(f) ==
    /\ flight[f].at = "writes"
    /\ entries' = entries \union {flight[f].key}
    /\ Ends(f, Entry(flight[f].key))
    /\ UNCHANGED <<typos, listed, reader>>

\* The deferred end: off the list, then done.
finish(f) ==
    /\ flight[f].at = "ends"
    /\ listed' = [i \in Id |-> IF i \in flight[f].ids /\ listed[i] = f THEN 0 ELSE listed[i]]
    /\ flight' = [flight EXCEPT ![f] = [Landed EXCEPT !.result = flight[f].result]]
    /\ UNCHANGED <<entries, typos, reader>>

-----------------------------------------------------------------------------
Work(f) ==
    \/ startCodexAppServer(f) \/ SpellEnds(f) \/ dictSpell(f)
    \/ file(f) \/ follow(f) \/ TurnEnds(f) \/ dictPut(f) \/ finish(f)

Next ==
    \/ \E r \in Reader, t \in Text, exact \in BOOLEAN : dictBegin(r, t, exact)
    \/ \E r \in Reader : dictJoin(r) \/ handleDictLookup(r) \/ Leaves(r)
    \/ \E f \in Flights : Work(f)

Spec == Init /\ [][Next]_vars

(***************************************************************************)
(* A flight's goroutine is never held up for good by anything but another  *)
(* flight: every turn of the session has dictTimeout, and the Go scheduler *)
(* runs every goroutine that can go on.                                    *)
(***************************************************************************)
Fairness == \A f \in 1 .. MaxFlights : WF_vars(f \in Flights /\ Work(f))
FairSpec == Spec /\ Fairness

-----------------------------------------------------------------------------
\* f follows flights that follow one another for good: two words each read as a typo of the other.
InCircle(f) == \E C \in SUBSET Flights :
    f \in C /\ \A g \in C : flight[g].at = "follows" /\ flight[g].follows \in C \ {g}

(***************************************************************************)
(* Every session comes to its end, so that its readers get their last line *)
(* and the next lookup of the word can start afresh (dict.go:73, dictTimeout*)
(* : "a session that has not answered by then is stopped").  One case is   *)
(* excepted, which the code does not stop: where two texts were each read  *)
(* as a typo of the other, a flight for either goes over to the other's    *)
(* word and follows its flight (dict.go:914-920), which does the same; the *)
(* two wait for each other past any timeout (follow, 582-623, has none).   *)
(***************************************************************************)
FlightsEnd == []<>(\A f \in Flights : flight[f].at = "done" \/ InCircle(f))
=============================================================================
