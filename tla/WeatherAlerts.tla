--------------------------- MODULE WeatherAlerts ---------------------------
(***************************************************************************)
(* The weather alerts (src/internal/server/rain.go): RunRain asks for the  *)
(* forecast of the Weather app's first place, rainStep opens and closes an *)
(* episode per hazard, and every episode opened or closed is pushed.       *)
(*                                                                         *)
(* A tick reads the first place, asks without the lock, and then applies   *)
(* the rules, saves and pushes. The hour ahead is abstracted to a level    *)
(* per hazard: under the floor that keeps an episode open, between the two *)
(* floors, or over the one that opens an episode. Fire weather is dry air  *)
(* with the gusts of a wind episode, so its level is never above wind's.   *)
(***************************************************************************)
EXTENDS Integers, FiniteSets

CONSTANTS City,          \* the places of the Weather app
          Hazard,         \* those of hazardOrder
          RainCap,        \* episodes opened per hazard in a sliding day
          RainCooldown,   \* in ticks
          RainDay,        \* 24 hours, in ticks
          MaxRainTime,    \* the last tick
          MaxTopMoves,    \* changes of the first place
          MaxRainCrashes  \* crashes of the daemon

ASSUME RainAssumption ==
    RainCap \in Nat /\ RainDay \in Nat /\ RainCooldown \in Nat /\ MaxRainTime \in Nat

NoCity == "none"

VARIABLES rainNow,     \* the clock, in ticks
          top,         \* the first place of places.json, or NoCity
          rainDaemon,  \* "idle", "asking", "telling" or "down"
          asked,       \* the place of the forecast under way
          ep,          \* st.Episodes, in memory
          rainDisk,    \* rain-state.json
          recs,        \* what this tick has yet to push
          opened,      \* every episode opened so far: its hazard and time
          emptied,     \* the list of places was found empty
          topMoves, rainCrashes

rainVars == <<rainNow, top, rainDaemon, asked, ep, rainDisk, recs, opened, emptied,
              topMoves, rainCrashes>>

\* closed is long ago, or the last tick the cooldown holds; budget is e.Opened.
Quiet == [place |-> NoCity, closed |-> 0 - RainCooldown, budget |-> {}, held |-> FALSE]

RainInit ==
    /\ rainNow = 1
    /\ top \in City
    /\ rainDaemon = "idle"
    /\ asked = NoCity
    /\ ep = [h \in Hazard |-> Quiet]
    /\ rainDisk = ep
    /\ recs = {}
    /\ opened = {}
    /\ emptied = FALSE
    /\ topMoves = 0
    /\ rainCrashes = 0

-----------------------------------------------------------------------------
Level == {"calm", "keep", "open"}
Over(a, b) == a = b \/ a = "open" \/ b = "calm"

\* The hours a forecast may hold: hazardHit for each hazard at its two floors.
Forecasts == {f \in [Hazard -> Level] : {"fire", "wind"} \subseteq Hazard => Over(f["wind"], f["fire"])}

BugMoved(e, place) == IF e.place \in {NoCity, place} THEN e ELSE Quiet

\* A different first place drops the open episode without a word; the day's budget stays.
Moved(e, place) == IF e.place \in {NoCity, place} THEN e ELSE [Quiet EXCEPT !.budget = e.budget]

\* hazardStep: the episode after one poll, and what it tells ("open", "clear", "held" or nothing).
hazardStep(old, place, level) ==
    LET e == Moved(old, place)
        recent == {t \in e.budget : rainNow - t < RainDay}
    IN IF e.place # NoCity
       THEN IF level = "calm"
            THEN [e |-> [e EXCEPT !.place = NoCity, !.closed = rainNow], tell |-> "clear"]
            ELSE [e |-> e, tell |-> "none"]
       ELSE IF level # "open"
            THEN [e |-> [e EXCEPT !.held = FALSE], tell |-> "none"]
       ELSE IF rainNow - e.closed < RainCooldown
            THEN [e |-> e, tell |-> "none"]
       ELSE IF Cardinality(recent) >= RainCap
            THEN [e |-> [e EXCEPT !.budget = recent, !.held = TRUE],
                  tell |-> IF e.held THEN "none" ELSE "held"]
       ELSE [e |-> [e EXCEPT !.held = FALSE, !.place = place, !.budget = recent \union {rainNow}],
             tell |-> "open"]

\* No wind episode opens while one of fire is open, which is judged first; one already open may still close.
Outranked(place, f, h) ==
    /\ h = "wind"
    /\ "fire" \in Hazard
    /\ hazardStep(ep["fire"], place, f["fire"]).e.place # NoCity
    /\ ep["wind"].place = NoCity

\* rainStep: every hazard on one full window, in hazardOrder, which makes a difference to wind alone.
rainStep(place, f) ==
    LET After(h) == hazardStep(ep[h], place, f[h])
        judged == {h \in Hazard : ~Outranked(place, f, h)}
        tells == {h \in judged : After(h).tell # "none"}
    IN [ep   |-> [h \in Hazard |-> IF h \in judged THEN After(h).e ELSE ep[h]],
        tell |-> {[hazard |-> h, kind |-> After(h).tell] : h \in tells}]

-----------------------------------------------------------------------------
\* rainTick, up to the request; without a place every episode is dropped and the file saved.
rainTick ==
    /\ rainDaemon = "idle"
    /\ rainNow < MaxRainTime
    /\ IF top = NoCity
       THEN /\ ep' = [h \in Hazard |-> Quiet]
            /\ rainDisk' = ep'
            /\ emptied' = TRUE
            /\ rainNow' = rainNow + 1
            /\ UNCHANGED <<rainDaemon, asked>>
       ELSE /\ rainDaemon' = "asking"
            /\ asked' = top
            /\ UNCHANGED <<ep, rainDisk, emptied, rainNow>>
    /\ UNCHANGED <<top, recs, opened, topMoves, rainCrashes>>

\* The answer failed or stops short of the hour: nothing is opened and nothing is closed.
NoForecast ==
    /\ rainDaemon = "asking"
    /\ rainDaemon' = "idle"
    /\ rainNow' = rainNow + 1
    /\ rainDisk' = ep
    /\ UNCHANGED <<top, asked, ep, recs, opened, emptied, topMoves, rainCrashes>>

SaveRain(eps) == rainDisk' = eps

\* A full window: the rules, the save.
Forecast(f) ==
    /\ rainDaemon = "asking"
    /\ LET r == rainStep(asked, f)
           new == {e \in r.tell : e.kind = "open"}
       IN /\ ep' = r.ep
          /\ SaveRain(r.ep)
          /\ recs' = {e \in r.tell : e.kind # "held"}
          /\ opened' = opened \union
                 {[hazard |-> e.hazard, at |-> rainNow] : e \in new}
          /\ rainDaemon' = IF recs' = {} THEN "idle" ELSE "telling"
          /\ rainNow' = IF recs' = {} THEN rainNow + 1 ELSE rainNow
    /\ UNCHANGED <<top, asked, emptied, topMoves, rainCrashes>>

\* One push goes out, on its own goroutine.
PushRain ==
    /\ rainDaemon = "telling"
    /\ \E e \in recs :
          /\ recs' = recs \ {e}
          /\ rainDaemon' = IF recs' = {} THEN "idle" ELSE "telling"
          /\ rainNow' = IF recs' = {} THEN rainNow + 1 ELSE rainNow
    /\ UNCHANGED <<top, asked, ep, rainDisk, opened, emptied, topMoves, rainCrashes>>

\* The list of the Weather app changes; the first place is another, or there is none.
MoveTop(p) ==
    /\ topMoves < MaxTopMoves
    /\ p # top
    /\ top' = p
    /\ topMoves' = topMoves + 1
    /\ UNCHANGED <<rainNow, rainDaemon, asked, ep, rainDisk, recs, opened, emptied, rainCrashes>>

RainCrash ==
    /\ rainDaemon # "down"
    /\ rainCrashes < MaxRainCrashes
    /\ rainDaemon' = "down"
    /\ recs' = {}
    /\ rainCrashes' = rainCrashes + 1
    /\ UNCHANGED <<rainNow, top, asked, ep, rainDisk, opened, emptied, topMoves>>

\* RunRain of the next daemon: loadRainState, after a while.
RunRain ==
    /\ rainDaemon = "down"
    /\ rainDaemon' = "idle"
    /\ ep' = rainDisk
    /\ rainNow' \in rainNow .. MaxRainTime
    /\ UNCHANGED <<top, asked, rainDisk, recs, opened, emptied, topMoves, rainCrashes>>

RainNext ==
    \/ rainTick \/ NoForecast \/ PushRain \/ RainCrash \/ RunRain
    \/ \E f \in Forecasts : Forecast(f)
    \/ \E p \in City \union {NoCity} : MoveTop(p)

RainSpec == RainInit /\ [][RainNext]_rainVars

-----------------------------------------------------------------------------
\* When, in the day that begins with t, a hazard opened.
InADay(h, t) == {u \in t .. (t + RainDay - 1) : [hazard |-> h, at |-> u] \in opened}

(***************************************************************************)
(* No hazard opens more than RainCap episodes in a sliding day, over       *)
(* crashes and over changes of the first city, whose budget is kept ("the  *)
(* day's budget stays, it belongs to the phone, not the city",             *)
(* rain.go:304-306), while the list of places is not found empty.          *)
(***************************************************************************)
BudgetHolds == ~emptied => \A h \in Hazard, t \in 1 .. rainNow : Cardinality(InADay(h, t)) <= RainCap
=============================================================================
