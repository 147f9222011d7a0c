------------------------------ MODULE PushNews ------------------------------
(***************************************************************************)
(* The notifications sent to subscribed browsers                           *)
(* (src/internal/server/webpush.go, agentpush.go): the list of             *)
(* subscriptions on file, the messages that go to all of them, and the     *)
(* loop that watches the state file of an agent session for the end of a   *)
(* turn.                                                                   *)
(*                                                                         *)
(* pushMu is held while the list is read or rewritten, never while a push  *)
(* service is asked: subscribing and leaving interleave with the sending   *)
(* of a message. A pass of the watching loop reads the time of the state   *)
(* file and then its word, and the session's hooks may move a new file     *)
(* into place in between. The minute that keeps a turn end quiet is the    *)
(* flag `near': the person typed, and the minute is not over.              *)
(***************************************************************************)
EXTENDS Integers, FiniteSets

CONSTANTS Browser,    \* the endpoints browsers subscribe with
          MaxWrites,  \* hook writes of the session's state file
          MaxJobs,    \* messages under way at a time
          MaxChats,   \* Chat runs that end
          MaxCrashes  \* crashes of the daemon

VARIABLES subs,       \* push-subscriptions.json
          live,       \* endpoints their push service still knows
          wanted,     \* endpoints that subscribed and have not left
          jobs,       \* messages under way: what is still to be sent, and who was said to be gone
          file,       \* the session's state file: its time and its word
          up,         \* the daemon runs
          loop,       \* "sleep", "info" (the time was read) or "word" (the word too)
          seen,       \* what this pass has read
          prev,       \* what the pass before it read; time 0 on the first
          near,       \* the person's last word is less than a minute old
          handled,    \* times of the turn ends that were pushed, or kept quiet by a rule
          chats, crashes

pushVars == <<subs, live, wanted, jobs, file, up, loop, seen, prev, near, handled, chats, crashes>>

Word == {"working", "done"}
Unseen == [time |-> 0, word |-> "working"]

PushInit ==
    /\ subs = {}
    /\ live = Browser
    /\ wanted = {}
    /\ jobs = {}
    /\ file = [time |-> 1, word |-> "working"]
    /\ up = TRUE
    /\ loop = "sleep"
    /\ seen = Unseen
    /\ prev = Unseen
    /\ near = FALSE
    /\ handled = {}
    /\ chats = 0
    /\ crashes = 0

-----------------------------------------------------------------------------
\* Subscriptions.

\* POST /v1/push/subscribe: adds the browser, or refreshes it.
Subscribe(b) ==
    /\ up
    /\ b \in live
    /\ subs' = subs \union {b}
    /\ wanted' = wanted \union {b}
    /\ UNCHANGED <<live, jobs, file, up, loop, seen, prev, near, handled, chats, crashes>>

\* DELETE /v1/push/subscribe.
Unsubscribe(b) ==
    /\ up
    /\ b \in wanted
    /\ subs' = subs \ {b}
    /\ wanted' = wanted \ {b}
    /\ UNCHANGED <<live, jobs, file, up, loop, seen, prev, near, handled, chats, crashes>>

\* The push service forgets an endpoint: it is never given out again.
Expire(b) ==
    /\ b \in live
    /\ live' = live \ {b}
    /\ UNCHANGED <<subs, wanted, jobs, file, up, loop, seen, prev, near, handled, chats, crashes>>

\* pushAll: the list as it is now, when any browser is subscribed at all (pushWanted).
pushAll == jobs' = IF subs = {} THEN jobs ELSE jobs \union {[to |-> subs, list |-> subs, gone |-> {}]}

\* sendPush to one of them: taken, refused for now, or 404 and 410, which drop it.
sendPush(j, b) ==
    /\ j \in jobs
    /\ b \in j.to
    /\ jobs' = (jobs \ {j}) \union
                  {[j EXCEPT !.to = @ \ {b}, !.gone = IF b \in live THEN @ ELSE @ \union {b}]}
    /\ UNCHANGED <<subs, live, wanted, file, up, loop, seen, prev, near, handled, chats, crashes>>

BugDropGone(j) ==
    /\ j \in jobs
    /\ j.to = {}
    /\ jobs' = jobs \ {j}
    /\ subs' = IF j.gone = {} THEN subs ELSE j.list \ j.gone
    /\ UNCHANGED <<live, wanted, file, up, loop, seen, prev, near, handled, chats, crashes>>

\* The end of pushAll: the list is read again, and rewritten without the ones that are gone.
DropGone(j) ==
    /\ j \in jobs
    /\ j.to = {}
    /\ jobs' = jobs \ {j}
    /\ subs' = IF j.gone = {} THEN subs ELSE subs \ j.gone
    /\ UNCHANGED <<live, wanted, file, up, loop, seen, prev, near, handled, chats, crashes>>

-----------------------------------------------------------------------------
\* The agent session and the loop that watches it.

\* A hook moves a new state file into place; Codex only ever writes "done".
HookWrites(word) ==
    /\ file.time <= MaxWrites
    /\ file' = [time |-> file.time + 1, word |-> word]
    /\ UNCHANGED <<subs, live, wanted, jobs, up, loop, seen, prev, near, handled, chats, crashes>>

\* noteAgentInput, and the minute that follows it.
PersonTypes ==
    /\ up
    /\ ~near
    /\ near' = TRUE
    /\ UNCHANGED <<subs, live, wanted, jobs, file, up, loop, seen, prev, handled, chats, crashes>>

MinutePasses ==
    /\ near
    /\ near' = FALSE
    /\ UNCHANGED <<subs, live, wanted, jobs, file, up, loop, seen, prev, handled, chats, crashes>>

\* readAgentStates: first the file's time, then, perhaps of a newer file, its word.
ReadTime ==
    /\ up
    /\ loop = "sleep"
    /\ loop' = "info"
    /\ seen' = [seen EXCEPT !.time = file.time]
    /\ UNCHANGED <<subs, live, wanted, jobs, file, up, prev, near, handled, chats, crashes>>

ReadWord ==
    /\ up
    /\ loop = "info"
    /\ loop' = "word"
    /\ seen' = [seen EXCEPT !.word = file.word]
    /\ UNCHANGED <<subs, live, wanted, jobs, file, up, prev, near, handled, chats, crashes>>

BugTurnEnded(p, c) == c.word = "done" /\ p.word # "done" /\ p.time > 0

\* agentTurnEnds: a time that moved on a file that now says "done"; the first pass tells nothing.
TurnEnded(p, c) == c.word = "done" /\ p.time > 0 /\ p.time # c.time

\* The end of a pass: pushAgentTurnEnd for a turn that ended, unless the person is near or nobody is subscribed.
ComparePasses ==
    /\ up
    /\ loop = "word"
    /\ Cardinality(jobs) < MaxJobs
    /\ loop' = "sleep"
    /\ prev' = seen
    /\ IF TurnEnded(prev, seen)
       THEN /\ handled' = handled \union {seen.time}
            /\ IF near THEN jobs' = jobs ELSE pushAll
       ELSE UNCHANGED <<handled, jobs>>
    /\ UNCHANGED <<subs, live, wanted, file, up, seen, near, chats, crashes>>

\* pushChatEnd: a Chat run ended by itself.
pushChatEnd ==
    /\ up
    /\ chats < MaxChats
    /\ Cardinality(jobs) < MaxJobs
    /\ chats' = chats + 1
    /\ IF near THEN jobs' = jobs ELSE pushAll
    /\ UNCHANGED <<subs, live, wanted, file, up, loop, seen, prev, near, handled, crashes>>

\* The daemon goes down between two steps: messages under way and the last pass are forgotten.
Crash ==
    /\ up
    /\ crashes < MaxCrashes
    /\ crashes' = crashes + 1
    /\ up' = FALSE
    /\ jobs' = {}
    /\ loop' = "sleep"
    /\ prev' = Unseen
    /\ seen' = Unseen
    /\ near' = FALSE
    /\ UNCHANGED <<subs, live, wanted, file, handled, chats>>

Restart ==
    /\ ~up
    /\ up' = TRUE
    /\ UNCHANGED <<subs, live, wanted, jobs, file, loop, seen, prev, near, handled, chats, crashes>>

Send == \E j \in jobs : DropGone(j) \/ \E b \in Browser : sendPush(j, b)

Pass == ReadTime \/ ReadWord \/ ComparePasses

PushNext ==
    \/ \E b \in Browser : Subscribe(b) \/ Unsubscribe(b) \/ Expire(b)
    \/ \E word \in Word : HookWrites(word)
    \/ PersonTypes \/ MinutePasses \/ pushChatEnd
    \/ Pass \/ Send
    \/ Crash \/ Restart

PushSpec == PushInit /\ [][PushNext]_pushVars

-----------------------------------------------------------------------------
(***************************************************************************)
(* A browser that subscribed, has not left and is still known to its push  *)
(* service stays on the list, although a message may be sent to an older   *)
(* list for minutes and then rewrites it without the ones that were gone   *)
(* (webpush.go:323-370).                                                   *)
(***************************************************************************)
SubscribersKept == wanted \intersect live \subseteq subs

(***************************************************************************)
(* A turn that ends while the daemon watches is handled by the pass that   *)
(* comes upon it, although the loop reads the time and the word of the     *)
(* file one after the other and a hook may write between, or may write     *)
(* "done" over "done", as Codex does (agentpush.go:23-29): no pass takes   *)
(* note of the file's time and leaves its turn end out.                    *)
(***************************************************************************)
TurnEndsHandled ==
    [][(prev.time \in 1 .. prev'.time - 1 /\ file = [time |-> prev'.time, word |-> "done"])
          => prev'.time \in handled']_pushVars
=============================================================================
