----------------------------- MODULE PingMonitor -----------------------------
(***************************************************************************)
(* The Ping app's monitor (src/internal/ping): a list of destinations, a   *)
(* round-robin database per destination, one loop that measures them every *)
(* Step seconds and the new ones at once, and requests that change the     *)
(* list while a round is under way.                                        *)
(*                                                                         *)
(* m.mu guards the list and what is known of each destination, and is held *)
(* for an instant at a time: a step of the loop or of a request is what    *)
(* happens between taking and releasing it, or between two runs of         *)
(* rrdtool. fileMu is held by the loop while it writes a round and by      *)
(* Delete while it removes a database. An answer is abstracted to the host *)
(* it is of, a database to the time of its last update.                    *)
(***************************************************************************)
EXTENDS Integers, FiniteSets

CONSTANTS Host,      \* the addresses a destination may have
          Step,      \* the seconds between rounds
          PingMaxTime,   \* the last second
          MaxAdds,   \* destinations ever added
          MaxEdits,  \* destinations ever pointed elsewhere
          MaxFails   \* failures of rrdtool and crashes of the daemon, together

None == "none"
Id == 1 .. MaxAdds

ASSUME HostAssumption == None \notin Host

VARIABLES pingNow,       \* the clock
          next,      \* m.next: when the next round is due
          targets,   \* m.targets and targets.json: an id's host, or None off the list
          last,      \* m.last: the host the last answer is of, or None
          wrote,     \* m.wrote: the last update this daemon made or recalled, or 0
          rrd,       \* the databases: the time of the last update, or 0 without a file
          poke,      \* m.poke holds a token
          pingLoop,      \* "idle", "pinging", "check", "write", "note" or "down"
          todo,      \* the round's destinations still to be written, with their hosts
          cur,       \* the one being written
          t,         \* the round's time
          removing,  \* ids whose Delete has yet to remove the database
          added, edits, fails,
          orphans    \* ids whose Delete a crash cut short

pingVars == <<pingNow, next, targets, last, wrote, rrd, poke, pingLoop, todo, cur, t, removing,
          added, edits, fails, orphans>>

NoTarget == [id |-> 0, host |-> None]
listed == {i \in Id : targets[i] # None}

\* nextRound: the first whole Step after now.
nextRound(time) == (time \div Step + 1) * Step

PingInit ==
    /\ pingNow = 1
    /\ next = nextRound(1)
    /\ targets = [i \in Id |-> None]
    /\ last = [i \in Id |-> None]
    /\ wrote = [i \in Id |-> 0]
    /\ rrd = [i \in Id |-> 0]
    /\ poke = FALSE
    /\ pingLoop = "idle"
    /\ todo = {}
    /\ cur = NoTarget
    /\ t = 0
    /\ removing = {}
    /\ added = 0
    /\ edits = 0
    /\ fails = 0
    /\ orphans = {}

PingTick ==
    /\ pingNow < PingMaxTime
    /\ pingNow' = pingNow + 1
    /\ UNCHANGED <<next, targets, last, wrote, rrd, poke, pingLoop, todo, cur, t, removing, added, edits, fails, orphans>>

-----------------------------------------------------------------------------
\* The requests. A list that cannot be saved is put back as it was: no step.

hostTaken(host, but) == \E i \in listed \ {but} : targets[i] = host

Add(host) ==
    /\ pingLoop # "down"
    /\ added < MaxAdds
    /\ ~hostTaken(host, 0)
    /\ added' = added + 1
    /\ targets' = [targets EXCEPT ![added + 1] = host]
    /\ poke' = TRUE
    /\ UNCHANGED <<pingNow, next, last, wrote, rrd, pingLoop, todo, cur, t, removing, edits, fails, orphans>>

\* A new address keeps the database, forgets the answer and asks for a fresh round.
Edit(id, host) ==
    /\ pingLoop # "down"
    /\ edits < MaxEdits
    /\ id \in listed
    /\ host # targets[id]
    /\ ~hostTaken(host, id)
    /\ targets' = [targets EXCEPT ![id] = host]
    /\ last' = [last EXCEPT ![id] = None]
    /\ poke' = TRUE
    /\ edits' = edits + 1
    /\ UNCHANGED <<pingNow, next, wrote, rrd, pingLoop, todo, cur, t, removing, added, fails, orphans>>

\* Delete while it holds mu.
Delete(id) ==
    /\ pingLoop # "down"
    /\ id \in listed
    /\ targets' = [targets EXCEPT ![id] = None]
    /\ last' = [last EXCEPT ![id] = None]
    /\ wrote' = [wrote EXCEPT ![id] = 0]
    /\ removing' = removing \union {id}
    /\ UNCHANGED <<pingNow, next, rrd, poke, pingLoop, todo, cur, t, added, edits, fails, orphans>>

\* fileMu is the loop's while it writes a round.
FileFree == pingLoop \in {"idle", "pinging"}

\* Delete while it holds fileMu.
Remove(id) ==
    /\ id \in removing
    /\ FileFree
    /\ rrd' = [rrd EXCEPT ![id] = 0]
    /\ removing' = removing \ {id}
    /\ UNCHANGED <<pingNow, next, targets, last, wrote, poke, pingLoop, todo, cur, t, added, edits, fails, orphans>>

-----------------------------------------------------------------------------
\* The loop.

\* The destinations a round is about: every one, or with fresh those with no answer.
Due(fresh) == {[id |-> i, host |-> targets[i]] : i \in {j \in listed : fresh => last[j] = None}}

\* measure, up to its pings.
Measure(time, fresh) ==
    /\ todo' = Due(fresh)
    /\ t' = time
    /\ pingLoop' = IF Due(fresh) = {} THEN "idle" ELSE "pinging"

\* Run woken by a token: the round of the destinations just added or moved.
FreshRound ==
    /\ pingLoop = "idle"
    /\ poke
    /\ poke' = FALSE
    /\ Measure(pingNow, TRUE)
    /\ UNCHANGED <<pingNow, next, targets, last, wrote, rrd, cur, removing, added, edits, fails, orphans>>

\* Run woken by its timer: the round of the mark; the next mark is taken once it is done.
Round ==
    /\ pingLoop = "idle"
    /\ pingNow >= next
    /\ Measure(next, FALSE)
    /\ next' = nextRound(pingNow)
    /\ UNCHANGED <<pingNow, targets, last, wrote, rrd, poke, cur, removing, added, edits, fails, orphans>>

\* fping, or ping once per host, is back: every host has a sample, of losses if nothing else.
Pinged ==
    /\ pingLoop = "pinging"
    /\ pingLoop' = "check"
    /\ UNCHANGED <<pingNow, next, targets, last, wrote, rrd, poke, todo, cur, t, removing, added, edits, fails, orphans>>

BugStill(tg) == t > wrote[tg.id]

\* On the list, of the same host, and not written in this second.
Still(tg) == targets[tg.id] = tg.host /\ t > wrote[tg.id]

\* The next destination of the round, looked up again under mu; the round ends after the last.
Check ==
    /\ pingLoop = "check"
    /\ IF todo = {}
       THEN pingLoop' = "idle" /\ UNCHANGED <<todo, cur>>
       ELSE \E tg \in todo :
               /\ todo' = todo \ {tg}
               /\ cur' = IF Still(tg) THEN tg ELSE cur
               /\ pingLoop' = IF Still(tg) THEN "write" ELSE "check"
    /\ UNCHANGED <<pingNow, next, targets, last, wrote, rrd, poke, t, removing, added, edits, fails, orphans>>

\* write: the database is made where there is none, and updated with the round.
write ==
    /\ pingLoop = "write"
    /\ pingLoop' = "note"
    /\ rrd' = [rrd EXCEPT ![cur.id] = t]
    /\ UNCHANGED <<pingNow, next, targets, last, wrote, poke, todo, cur, t, removing, added, edits, fails, orphans>>

\* rrdtool failed, before or after it made the file: the round goes on with the next destination.
WriteFails ==
    /\ pingLoop = "write"
    /\ fails < MaxFails
    /\ fails' = fails + 1
    /\ pingLoop' = "check"
    /\ \/ rrd' = rrd
       \/ rrd[cur.id] = 0 /\ rrd' = [rrd EXCEPT ![cur.id] = t - 1]
    /\ UNCHANGED <<pingNow, next, targets, last, wrote, poke, todo, cur, t, removing, added, edits, orphans>>

\* What was written is known from here on.
Note ==
    /\ pingLoop = "note"
    /\ pingLoop' = "check"
    /\ last' = [last EXCEPT ![cur.id] = cur.host]
    /\ wrote' = [wrote EXCEPT ![cur.id] = t]
    /\ UNCHANGED <<pingNow, next, targets, rrd, poke, todo, cur, t, removing, added, edits, fails, orphans>>

\* The daemon goes down; a Delete that was under way never removes its database.
PingCrash ==
    /\ pingLoop # "down"
    /\ fails < MaxFails
    /\ fails' = fails + 1
    /\ pingLoop' = "down"
    /\ poke' = FALSE
    /\ todo' = {}
    /\ last' = [i \in Id |-> None]
    /\ wrote' = [i \in Id |-> 0]
    /\ removing' = {}
    /\ orphans' = orphans \union removing
    /\ UNCHANGED <<pingNow, next, targets, rrd, cur, t, added, edits>>

\* load, and Run's recall of each destination's last update out of its database.
recall ==
    /\ pingLoop = "down"
    /\ pingLoop' = "idle"
    /\ next' = nextRound(pingNow)
    /\ wrote' = [i \in Id |-> IF i \in listed THEN rrd[i] ELSE 0]
    /\ last' = [i \in Id |-> IF i \in listed /\ rrd[i] > 0 THEN targets[i] ELSE None]
    /\ UNCHANGED <<pingNow, targets, rrd, poke, todo, cur, t, removing, added, edits, fails, orphans>>

PingNext ==
    \/ PingTick
    \/ \E host \in Host : Add(host)
    \/ \E id \in Id, host \in Host : Edit(id, host)
    \/ \E id \in Id : Delete(id) \/ Remove(id)
    \/ FreshRound \/ Round \/ Pinged \/ Check \/ write \/ WriteFails \/ Note
    \/ PingCrash \/ recall

PingSpec == PingInit /\ [][PingNext]_pingVars

-----------------------------------------------------------------------------
(***************************************************************************)
(* A database belongs to a destination on the list, or to one whose Delete *)
(* is about to remove it; only a crash in between leaves one behind.       *)
(* "fileMu is held while an RRD is created, updated or removed, so a       *)
(* destination taken out mid-round does not come back as a new file"       *)
(* (ping.go:107-108).                                                      *)
(***************************************************************************)
NoStrayDatabase ==
    \A id \in Id : rrd[id] > 0 => id \in listed \union removing \union orphans
=============================================================================
