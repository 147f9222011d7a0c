------------------------------ MODULE Analytics ------------------------------
(***************************************************************************)
(* The Analytics app's kept answers (src/internal/server/cfanalytics.go):  *)
(* one entry per view with the last good answer, the last failure and the  *)
(* fetch in the air; readers who share a fetch, or take an old answer      *)
(* while a fresh one is fetched; and the fetches of the hosts' views that  *)
(* an answer of all hosts starts behind itself.                            *)
(*                                                                         *)
(* st.mu is held for an instant at a time. A reader's request is two such  *)
(* instants, with the wait for a fetch in between; a fetch outlives the    *)
(* reader who started it. Answers are abstracted to the time they came in. *)
(***************************************************************************)
EXTENDS Integers, FiniteSets

CONSTANTS HostView,    \* the views of one host each
          All,         \* the view of all hosts
          Reader,      \* requests at a time
          Fresh,       \* anFresh: an answer this young is the answer
          Stale,       \* anStale: one this young may be shown meanwhile
          ErrTTL,      \* anErrTTL: a failure is not retried sooner
          WarmAtOnce,  \* anWarmAtOnce
          MaxTime,     \* the last second
          MaxAsks      \* requests ever made

ASSUME LivesAssumption == Stale \in Nat /\ ErrTTL \in Nat

View == HostView \union {All}
Long == 0 - Stale - ErrTTL   \* the zero time: long ago

VARIABLES now,
          entry,     \* st.entries: per view, "none" or the entry
          flights,   \* fetches in the air, by view: a bag of at most two, to see whether one is ever doubled
          warming,   \* warming goroutines: "queued" or "flying" views
          reader,    \* what each request is doing
          asks

viewsVars == <<now, entry, flights, warming, reader, asks>>

\* An entry; at and errAt are times, kept says there is an answer, failed that the last fetch failed.
NewEntry == [on |-> TRUE, kept |-> FALSE, at |-> Long, failed |-> FALSE, errAt |-> Long, flight |-> FALSE]
NoEntry == [NewEntry EXCEPT !.on = FALSE]
Away == [at |-> "away", view |-> All]

ViewsInit ==
    /\ now = 0
    /\ entry = [v \in View |-> NoEntry]
    /\ flights = [v \in View |-> 0]
    /\ warming = [queued |-> {}, flying |-> {}]
    /\ reader = [r \in Reader |-> Away]
    /\ asks = 0

Tick ==
    /\ now < MaxTime
    /\ now' = now + 1
    /\ UNCHANGED <<entry, flights, warming, reader, asks>>

-----------------------------------------------------------------------------
BugSwept(e) == [v \in View |->
    IF now - e[v].at > Stale /\ now - e[v].errAt > ErrTTL THEN NoEntry ELSE e[v]]

\* Entries nobody flies for whose answer and failure are both old are dropped.
Swept(e) == [v \in View |->
    IF ~e[v].flight /\ now - e[v].at > Stale /\ now - e[v].errAt > ErrTTL THEN NoEntry ELSE e[v]]

\* anFly.
Fly(e, v) == [e EXCEPT ![v].flight = TRUE]
Flies(v) == flights' = [flights EXCEPT ![v] = @ + 1]

\* handleCFAnalytics, the first time it holds the lock; old says the reader takes a stale answer.
Ask(r, v, old) ==
    /\ reader[r].at = "away"
    /\ asks < MaxAsks
    /\ asks' = asks + 1
    /\ LET swept == Swept(entry)
           e == IF swept[v].on THEN swept[v] ELSE NewEntry
           here == [swept EXCEPT ![v] = e]
           failed == e.failed /\ now - e.errAt < ErrTTL
           fresh == e.kept /\ now - e.at < Fresh
           shown == ~fresh /\ old /\ e.kept /\ now - e.at < Stale
           gives == ~fresh /\ ~shown /\ ~e.flight /\ failed
           starts == ~fresh /\ ~gives /\ ~e.flight /\ ~(shown /\ failed)
           waits == ~fresh /\ ~shown /\ ~gives
       IN /\ entry' = IF starts THEN Fly(here, v) ELSE here
          /\ IF starts THEN Flies(v) ELSE UNCHANGED flights
          /\ reader' = [reader EXCEPT ![r] =
                [at |-> IF waits THEN "waiting" ELSE "served", view |-> v]]
    /\ UNCHANGED <<now, warming>>

\* A reader closes the window while a fetch is in the air: the fetch goes on.
GoAway(r) ==
    /\ reader[r].at = "waiting"
    /\ reader' = [reader EXCEPT ![r] = Away]
    /\ UNCHANGED <<now, entry, flights, warming, asks>>

\* The second time it holds the lock: an answer, or an error (which, is left out).
Answer(r) ==
    /\ reader[r].at = "served"
    /\ reader' = [reader EXCEPT ![r] = Away]
    /\ UNCHANGED <<now, entry, flights, warming, asks>>

\* The readers waiting for the fetch of v go on.
Woken(v) == [r \in Reader |->
    IF reader[r].at = "waiting" /\ reader[r].view = v THEN [reader[r] EXCEPT !.at = "served"] ELSE reader[r]]

\* anWarm behind an answer of all hosts: the busy hosts without an answer worth showing, queued for a slot.
anWarm(e, v, busy) ==
    IF v # All THEN warming.queued
    ELSE warming.queued \union
           {h \in busy : ~(e[h].on /\ (e[h].flight \/ (e[h].kept /\ now - e[h].at < Stale)))}

\* What the end of a fetch writes to its entry.
Land(v, ok) ==
    IF ok THEN [entry EXCEPT ![v].flight = FALSE, ![v].kept = TRUE, ![v].at = now, ![v].failed = FALSE]
    ELSE [entry EXCEPT ![v].flight = FALSE, ![v].failed = TRUE, ![v].errAt = now]

\* A fetch ends: fetchAnalytics answered, or failed, or its 25 seconds are over.
FlightEnds(v, ok, busy) ==
    /\ flights[v] > 0
    /\ flights' = [flights EXCEPT ![v] = @ - 1]
    /\ entry' = Land(v, ok)
    /\ reader' = Woken(v)
    /\ warming' = [queued |-> IF ok THEN anWarm(Land(v, ok), v, busy) ELSE warming.queued,
                   flying |-> warming.flying \ {v}]
    /\ UNCHANGED <<now, asks>>

\* A warming query has its slot, and looks again before it flies.
WarmOne(v) ==
    /\ v \in warming.queued
    /\ Cardinality(warming.flying) < WarmAtOnce
    /\ LET e == IF entry[v].on THEN entry[v] ELSE NewEntry
           flies == ~e.flight /\ ~(e.kept /\ now - e.at < Stale) /\ now - e.errAt >= ErrTTL
           here == [entry EXCEPT ![v] = e]
       IN /\ entry' = IF flies THEN Fly(here, v) ELSE here
          /\ IF flies THEN Flies(v) ELSE UNCHANGED flights
          /\ warming' = [queued |-> warming.queued \ {v},
                         flying |-> IF flies THEN warming.flying \union {v} ELSE warming.flying]
    /\ UNCHANGED <<now, reader, asks>>

Lands == \E v \in View, ok \in BOOLEAN, busy \in SUBSET HostView : FlightEnds(v, ok, busy)

ViewsNext ==
    \/ Tick
    \/ \E r \in Reader : GoAway(r) \/ Answer(r) \/ \E v \in View, old \in BOOLEAN : Ask(r, v, old)
    \/ Lands
    \/ \E v \in HostView : WarmOne(v)

ViewsSpec == ViewsInit /\ [][ViewsNext]_viewsVars

-----------------------------------------------------------------------------
(***************************************************************************)
(* A view is fetched once at a time, although entries are swept away and   *)
(* made anew, readers leave, and warming queries start after a wait for    *)
(* their slot (cfanalytics.go:232-378).                                    *)
(***************************************************************************)
OneFetchPerView == \A v \in View : flights[v] <= 1 /\ (flights[v] = 1 <=> entry[v].flight)
=============================================================================
