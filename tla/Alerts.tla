------------------------------- MODULE Alerts -------------------------------
(***************************************************************************)
(* The price alerts (src/internal/server/alerts.go): RunAlerts samples     *)
(* every token once a tick, alertStep decides whether a move is news,      *)
(* alertTick saves what it decided and then tells it: a line in the log, a *)
(* notice on every desk, a push to every browser.                          *)
(*                                                                         *)
(* A tick holds alertMu from its samples to its last notice, so its steps  *)
(* are told apart only by what a crash would leave behind: the samples,    *)
(* the rule for each token, the cut with the save, then one step per alert *)
(* told. Prices are abstracted to what the rule makes of them: whether a   *)
(* token was quoted, whether its move reaches the threshold, and whether   *)
(* it is far enough from the price of its last alert to count again.       *)
(*                                                                         *)
(* st.Alerts is modelled as Go keeps it, a backing array with a length:    *)
(* alertStep returns the address of the slot it appended to, and the slots *)
(* move when the tick cuts alerts past their two days in place.            *)
(***************************************************************************)
EXTENDS Integers, Sequences, FiniteSets, Functions

CONSTANTS Tokens,         \* alertTokens, in the order the ticker shows them: a sequence
          AlertCap,       \* alerts of a token in a sliding day
          AlertCooldown,  \* in ticks
          AlertDay,       \* 24 hours, in ticks
          MaxAlertTime,   \* the last tick
          MaxAlertCrashes \* crashes of the daemon

ASSUME AlertAssumption ==
    /\ Tokens \in Seq(Range(Tokens))
    /\ AlertCap \in Nat /\ AlertCooldown \in Nat /\ AlertDay \in Nat

VARIABLES alertNow,    \* the clock, in ticks
          alertDaemon, \* "down", "idle", "ruling" or "telling"
          array,       \* the backing array of st.Alerts, its unused slots included
          len,         \* the length of st.Alerts
          prevHit,     \* st.PrevHit
          nextID,      \* st.NextID
          quoted,      \* the tokens of this tick that were quoted and yet to be judged
          fresh,       \* the alerts of this tick: slots or, after a reallocation, records
          alertDisk,   \* alerts-state.json
          told,        \* the alerts told so far, oldest first
          made,        \* every alert a tick saved that the cap let through
          alertCrashes

list == <<array, len, nextID, fresh>>
alertVars == <<alertNow, alertDaemon, list, prevHit, quoted, alertDisk, told, made, alertCrashes>>

Token == Range(Tokens)
NoAlert == [id |-> 0, token |-> Tokens[1], at |-> 0, heldBack |-> FALSE]
Slot(i) == [slot |-> i, rec |-> NoAlert]
Copy(r) == [slot |-> 0, rec |-> r]

AlertsInit ==
    /\ alertNow = 1
    /\ alertDaemon = "idle"
    /\ array = <<>>
    /\ len = 0
    /\ prevHit = [k \in Token |-> FALSE]
    /\ nextID = 1
    /\ quoted = {}
    /\ fresh = <<>>
    /\ alertDisk = [alerts |-> <<>>, prevHit |-> prevHit, nextID |-> 1]
    /\ told = <<>>
    /\ made = {}
    /\ alertCrashes = 0

(***************************************************************************)
(* A quote is what a tick finds of a token: "calm", "same" (over the       *)
(* threshold, yet within an hour's threshold of the last alert's price) or *)
(* "far" (over it, and away from that price).                              *)
(***************************************************************************)
Quote == {"calm", "same", "far"}

\* st.Alerts.
OnList == {array[i] : i \in 1 .. len}

\* Delivered within the sliding day.
Recent(token) ==
    {a \in OnList : a.token = token /\ ~a.heldBack /\ alertNow - a.at < AlertDay}

\* The newest alert of the token, delivered or held back, if there is one.
Newest(token) ==
    {a \in OnList : a.token = token /\ \A b \in OnList : b.token = token => b.at <= a.at}

\* The record at an address that was kept.
Read(f) == IF f.slot > 0 THEN array[f.slot] ELSE f.rec

\* The larger array a full one is copied into when rec is appended: twice its size.
Grown(rec) ==
    array \o <<rec>> \o [i \in 1 .. (IF len < 2 THEN 0 ELSE len - 1) |-> NoAlert]

\* append: in place while the array has room, else into a larger array that leaves earlier addresses behind.
Appended(rec) ==
    /\ IF len < Len(array)
       THEN /\ array' = [array EXCEPT ![len + 1] = rec]
            /\ fresh' = Append(fresh, Slot(len + 1))
       ELSE /\ array' = Grown(rec)
            /\ fresh' = Append([i \in DOMAIN fresh |-> Copy(Read(fresh[i]))], Slot(len + 1))
    /\ len' = len + 1

BugSaveAlerts(alerts) == alertDisk' = [alertDisk EXCEPT !.prevHit = prevHit]

SaveAlerts(alerts) == alertDisk' = [alerts |-> alerts, prevHit |-> prevHit, nextID |-> nextID]

\* alertTick: the samples; if no token was quoted, the save is all there is to do.
alertTick(answers) ==
    /\ alertDaemon = "idle"
    /\ alertNow < MaxAlertTime
    /\ quoted' = answers
    /\ IF answers = {}
       THEN /\ SaveAlerts(SubSeq(array, 1, len))
            /\ alertNow' = alertNow + 1
            /\ UNCHANGED alertDaemon
       ELSE /\ alertDaemon' = "ruling"
            /\ UNCHANGED <<alertDisk, alertNow>>
    /\ UNCHANGED <<list, prevHit, told, made, alertCrashes>>

\* The first token still to be judged.
IsNext(token) ==
    \E i \in DOMAIN Tokens : /\ token = Tokens[i] /\ token \in quoted
                             /\ \A j \in 1 .. (i - 1) : Tokens[j] \notin quoted

\* alertStep: a hit on two ticks in a row, past the cooldown, and armed again.
alertStep(token, quote) ==
    LET hit == quote \in {"same", "far"}
        tooSoon == \E a \in Newest(token) : alertNow - a.at < AlertCooldown
        tooNear == quote = "same" /\ \E a \in Newest(token) : alertNow - a.at < AlertDay
        rec == [id |-> nextID, token |-> token, at |-> alertNow,
                heldBack |-> Cardinality(Recent(token)) >= AlertCap]
    IN /\ alertDaemon = "ruling"
       /\ IsNext(token)
       /\ quoted' = quoted \ {token}
       /\ prevHit' = [prevHit EXCEPT ![token] = hit]
       /\ IF ~hit \/ ~prevHit[token] \/ tooSoon \/ tooNear
          THEN UNCHANGED list
          ELSE Appended(rec) /\ nextID' = nextID + 1
       /\ UNCHANGED <<alertNow, alertDaemon, alertDisk, told, made, alertCrashes>>

\* The alerts of the last two days, as the loop over st.Alerts collects them.
Kept ==
    LET upTo[i \in 0 .. len] ==
            IF i = 0 THEN <<>>
            ELSE IF alertNow - array[i].at < 2 * AlertDay THEN Append(upTo[i - 1], array[i])
            ELSE upTo[i - 1]
    IN upTo[len]

\* The end of the rules: the list is cut in place (kept := st.Alerts[:0]) and saved.
CutAndSave ==
    /\ alertDaemon = "ruling" /\ quoted = {}
    /\ array' = Kept \o SubSeq(array, Len(Kept) + 1, Len(array))
    /\ len' = Len(Kept)
    /\ SaveAlerts(Kept)
    /\ made' = made \union {a \in OnList : a.at = alertNow /\ ~a.heldBack}
    /\ alertDaemon' = IF fresh = <<>> THEN "idle" ELSE "telling"
    /\ alertNow' = IF fresh = <<>> THEN alertNow + 1 ELSE alertNow
    /\ UNCHANGED <<prevHit, nextID, quoted, fresh, told, alertCrashes>>

\* One turn of the loop over fresh: a line in the log; the notice and the push unless it was held back.
TellAlert ==
    /\ alertDaemon = "telling"
    /\ LET rec == Read(fresh[1])
       IN told' = IF rec.heldBack THEN told ELSE Append(told, rec)
    /\ fresh' = Tail(fresh)
    /\ alertDaemon' = IF Len(fresh) = 1 THEN "idle" ELSE "telling"
    /\ alertNow' = IF Len(fresh) = 1 THEN alertNow + 1 ELSE alertNow
    /\ UNCHANGED <<array, len, prevHit, nextID, quoted, alertDisk, made, alertCrashes>>

AlertCrash ==
    /\ alertDaemon # "down"
    /\ alertCrashes < MaxAlertCrashes
    /\ alertDaemon' = "down"
    /\ array' = <<>>
    /\ len' = 0
    /\ quoted' = {}
    /\ fresh' = <<>>
    /\ alertCrashes' = alertCrashes + 1
    /\ UNCHANGED <<alertNow, prevHit, nextID, alertDisk, told, made>>

\* Time passes while the daemon is down.
TimePasses ==
    /\ alertDaemon = "down"
    /\ alertNow < MaxAlertTime
    /\ alertNow' = alertNow + 1
    /\ UNCHANGED <<alertDaemon, list, prevHit, quoted, alertDisk, told, made, alertCrashes>>

\* loadAlertState: the decoded slice is as long as its array.
loadAlertState ==
    /\ alertDaemon = "down"
    /\ alertDaemon' = "idle"
    /\ array' = alertDisk.alerts
    /\ len' = Len(alertDisk.alerts)
    /\ prevHit' = alertDisk.prevHit
    /\ nextID' = alertDisk.nextID
    /\ UNCHANGED <<alertNow, quoted, fresh, alertDisk, told, made, alertCrashes>>

AlertsNext ==
    \/ \E answers \in SUBSET Token : alertTick(answers)
    \/ \E token \in Token, quote \in Quote : alertStep(token, quote)
    \/ CutAndSave \/ TellAlert
    \/ AlertCrash \/ TimePasses \/ loadAlertState

AlertsSpec == AlertsInit /\ [][AlertsNext]_alertVars

-----------------------------------------------------------------------------
(***************************************************************************)
(* No token is told of more than AlertCap times in any sliding day,        *)
(* although the count is taken from a list that is cut, reallocated and    *)
(* read back after a crash that may come between the save and the telling  *)
(* (alerts.go:16-24: "at most four per token in any sliding 24 hours").    *)
(***************************************************************************)
CapHolds ==
    \A k \in Token, t \in 1 .. alertNow :
        Cardinality({a \in Range(told) : a.token = k /\ a.at \in t .. (t + AlertDay - 1)}) <= AlertCap

(***************************************************************************)
(* A daemon that is done with its tick, and never crashed, has told every  *)
(* alert it decided on: "A move earns a notification when it is rare for   *)
(* that token" (docs/price-alerts.md).                                     *)
(***************************************************************************)
EveryMoveTold ==
    alertDaemon = "idle" /\ alertCrashes = 0 => \A a \in made : a \in Range(told)
=============================================================================
