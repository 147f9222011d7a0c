----------------------------- MODULE Terminals -----------------------------
(***************************************************************************)
(* The Terminal windows of the desktop (internal/server/termsessions.go,   *)
(* hostterm.go, hostterm_unix.go, uistate.go and the page's own side of    *)
(* them, ui/index.html).  A Terminal is a tmux session with a number; it   *)
(* outlives the window's link, the browser and the daemon.  Every desk (a  *)
(* browser with the page open) shows a window of every Terminal: it lists  *)
(* the sessions as it loads, hears of a new one on the layout stream, and  *)
(* lists again when that stream comes back.  A window whose link ends asks *)
(* the daemon why and reconnects or closes; one whose browser the daemon   *)
(* signs out (its passkey removed, a new token: conns.go) is told so and   *)
(* stays.  tmux's own commands (has-session, new-session, kill-session)    *)
(* are atomic and work.                                                    *)
(***************************************************************************)
EXTENDS Naturals, Sequences

CONSTANTS
    Desk,       \* the browsers that show the desktop
    MaxTerms,   \* Terminal numbers, 1 .. MaxTerms
    Cap,        \* capacity of a stream's channel (8 in the code)
    MaxNews,    \* Terminals asked for
    MaxUser,    \* shells that exit, close boxes, reloads
    MaxFaults   \* links and streams that break, daemon restarts, sign-outs

Num == 1 .. MaxTerms

VARIABLES
    up,        \* the daemon runs
    live,      \* the tmux sessions alive, by number
    closed,    \* Server.termClosed: the numbers a close box ended
    loaded,    \* the desks whose page is loaded
    out,       \* the desks the daemon has signed out: their requests are refused
    stream,    \* desk -> "off", "first", "again" (opening) or "on": winES, winESUp
    ch,        \* desk -> the events its stream holds: who asked for the session
    want,      \* desk -> termWant: a follow waits for its timer
    asks,      \* desk -> GETs of the list the daemon has not answered
    answers,   \* desk -> lists answered and not yet read
    new,       \* desk -> the number its POST was answered with, or 0
    win,       \* desk -> number -> its window: "none", "connect", "linked",
               \* "eof", "gone", "detached", "closed", "ended", "retry" or "out"
    box,       \* desk -> number -> the DELETE of a close box: "none", "ask", "mark", "kill"
    news, user, faults

vars == <<up, live, closed, loaded, out, stream, ch, want, asks, answers, new, win, box,
          news, user, faults>>

bounds == <<news, user, faults>>
page == <<loaded, out, stream, ch, want, asks, answers, new>>

Blank == [n \in Num |-> "none"]

(* Nothing runs in tmux and no page is loaded. *)
Init ==
    /\ up = TRUE /\ live = {} /\ closed = {} /\ loaded = {} /\ out = {}
    /\ stream = [d \in Desk |-> "off"] /\ ch = [d \in Desk |-> <<>>]
    /\ want = [d \in Desk |-> FALSE] /\ asks = [d \in Desk |-> 0]
    /\ answers = [d \in Desk |-> {}] /\ new = [d \in Desk |-> 0]
    /\ win = [d \in Desk |-> Blank] /\ box = [d \in Desk |-> Blank]
    /\ news = 0 /\ user = 0 /\ faults = 0

----------------------------------------------------------------------------
(* The page: loading, the list and the layout stream.                      *)

(* winRestore: the stream and the list are asked for together. *)
Load(d) ==
    /\ d \notin loaded /\ up
    /\ loaded' = loaded \cup {d}
    /\ stream' = [stream EXCEPT ![d] = "first"]
    /\ asks' = [asks EXCEPT ![d] = 1]
    /\ UNCHANGED <<up, live, closed, out, ch, want, answers, new, win, box, bounds>>

(* A reload or a browser closed: the windows go, the sessions stay. *)
Leave(d) ==
    /\ loaded' = loaded \ {d}
    /\ stream' = [stream EXCEPT ![d] = "off"] /\ ch' = [ch EXCEPT ![d] = <<>>]
    /\ want' = [want EXCEPT ![d] = FALSE] /\ asks' = [asks EXCEPT ![d] = 0]
    /\ answers' = [answers EXCEPT ![d] = {}] /\ new' = [new EXCEPT ![d] = 0]
    /\ win' = [win EXCEPT ![d] = Blank]

Reload(d) ==
    /\ d \in loaded /\ user < MaxUser
    /\ user' = user + 1
    /\ Leave(d)
    /\ UNCHANGED <<up, live, closed, out, box, news, faults>>

(* A browser signed out is refused, but for what was let in before. *)
handleTermSessions(d) ==
    /\ up /\ asks[d] > 0
    /\ asks' = [asks EXCEPT ![d] = @ - 1]
    /\ \/ answers' = [answers EXCEPT ![d] = @ \cup {live}]
       \/ d \in out /\ UNCHANGED answers
    /\ UNCHANGED <<up, live, closed, loaded, out, stream, ch, want, new, win, box, bounds>>

(* The page opens a window for each session of the list that has none. *)
Opened(ws, ns) == [n \in Num |-> IF n \in ns /\ ws[n] = "none" THEN "connect" ELSE ws[n]]

restoreTerms(d) == \E l \in answers[d] :
    /\ answers' = [answers EXCEPT ![d] = @ \ {l}]
    /\ win' = [win EXCEPT ![d] = Opened(@, l)]
    /\ UNCHANGED <<up, live, closed, loaded, out, stream, ch, want, asks, new, box, bounds>>

(* The stream opens; only one that comes back lists the sessions again. *)
handleUIStateEvents(d) ==
    /\ up /\ d \notin out /\ stream[d] \in {"first", "again"}
    /\ stream' = [stream EXCEPT ![d] = "on"]
    /\ asks' = [asks EXCEPT ![d] = IF stream[d] = "again" THEN @ + 1 ELSE @]
    /\ UNCHANGED <<up, live, closed, loaded, out, ch, want, answers, new, win, box, bounds>>

StreamBreaks(d) ==
    /\ stream[d] = "on" /\ faults < MaxFaults
    /\ faults' = faults + 1
    /\ stream' = [stream EXCEPT ![d] = "again"] /\ ch' = [ch EXCEPT ![d] = <<>>]
    /\ UNCHANGED <<up, live, closed, loaded, out, want, asks, answers, new, win, box, news, user>>

(* An event of another desk's session sets the timer; one's own is no news. *)
termsFollow(d) ==
    /\ ch[d] # <<>>
    /\ ch' = [ch EXCEPT ![d] = Tail(@)]
    /\ want' = [want EXCEPT ![d] = @ \/ Head(ch[d]) # d]
    /\ UNCHANGED <<up, live, closed, loaded, out, stream, asks, answers, new, win, box, bounds>>

termsFollowNow(d) ==
    /\ want[d]
    /\ want' = [want EXCEPT ![d] = FALSE]
    /\ asks' = [asks EXCEPT ![d] = @ + 1]
    /\ UNCHANGED <<up, live, closed, loaded, out, stream, ch, answers, new, win, box, bounds>>

----------------------------------------------------------------------------
(* A new Terminal.                                                         *)

(* uiAnnounce: a full channel loses the event. *)
Announced(d) == [e \in Desk |-> IF stream[e] = "on" /\ Len(ch[e]) < Cap THEN Append(ch[e], d) ELSE ch[e]]

(* newTermSession under termMu: the lowest free number, its mark removed. *)
newTermSession(d) ==
    /\ up /\ d \in loaded \ out /\ news < MaxNews /\ new[d] = 0
    /\ \E n \in Num \ live :
        /\ \A m \in Num \ live : n <= m
        /\ live' = live \cup {n} /\ closed' = closed \ {n}
        /\ new' = [new EXCEPT ![d] = n]
    /\ ch' = Announced(d) /\ news' = news + 1
    /\ UNCHANGED <<up, loaded, out, stream, want, asks, answers, win, box, user, faults>>

newHostTerm(d) ==
    /\ new[d] # 0
    /\ new' = [new EXCEPT ![d] = 0]
    /\ win' = [win EXCEPT ![d] = Opened(@, {new[d]})]
    /\ UNCHANGED <<up, live, closed, loaded, out, stream, ch, want, asks, answers, box, bounds>>

----------------------------------------------------------------------------
(* A window's link.                                                        *)

Move(d, n, from, to) == win[d][n] = from /\ win' = [win EXCEPT ![d][n] = to]

handleHostTerminal(d, n) ==
    /\ up /\ d \notin out
    /\ Move(d, n, "connect", IF n \in live THEN "linked" ELSE "eof")
    /\ UNCHANGED <<up, live, closed, page, box, bounds>>

(* has-session first, the mark second, with a step between them. *)
termAlive(d, n) ==
    /\ up
    /\ Move(d, n, "eof", IF n \in live THEN "detached" ELSE "gone")
    /\ UNCHANGED <<up, live, closed, page, box, bounds>>

BugTermEndReason(d, n) ==
    /\ Move(d, n, "gone", IF n \in closed THEN "closed" ELSE "detached")
    /\ UNCHANGED <<up, live, closed, page, box, bounds>>

termEndReason(d, n) ==
    /\ Move(d, n, "gone", IF n \in closed THEN "closed" ELSE "ended")
    /\ UNCHANGED <<up, live, closed, page, box, bounds>>

(* lost: either word that the session is gone closes the window. *)
lost(d, n) ==
    /\ \/ Move(d, n, "detached", "retry")
       \/ Move(d, n, "closed", "none")
       \/ Move(d, n, "ended", "none")
    /\ UNCHANGED <<up, live, closed, page, box, bounds>>

Retry(d, n) ==
    /\ Move(d, n, "retry", "connect")
    /\ UNCHANGED <<up, live, closed, page, box, bounds>>

ConnectFails(d, n) ==
    /\ ~up \/ d \in out
    /\ Move(d, n, "connect", "retry")
    /\ UNCHANGED <<up, live, closed, page, box, bounds>>

LinkBreaks(d, n) ==
    /\ faults < MaxFaults /\ faults' = faults + 1
    /\ Move(d, n, "linked", "retry")
    /\ UNCHANGED <<up, live, closed, page, box, news, user>>

----------------------------------------------------------------------------
(* The end of a session: its shell's exit or a close box.                  *)

(* The tmux clients of the session go with it. *)
Unlinked(n) == [d \in Desk |-> IF win[d][n] = "linked" THEN [win[d] EXCEPT ![n] = "eof"] ELSE win[d]]

ShellExits(n) ==
    /\ n \in live /\ user < MaxUser
    /\ user' = user + 1 /\ live' = live \ {n} /\ win' = Unlinked(n)
    /\ UNCHANGED <<up, closed, page, box, news, faults>>

CloseBox(d, n) ==
    /\ win[d][n] # "none" /\ box[d][n] = "none" /\ user < MaxUser
    /\ user' = user + 1
    /\ win' = [win EXCEPT ![d][n] = "none"]
    /\ box' = [box EXCEPT ![d][n] = "ask"]
    /\ UNCHANGED <<up, live, closed, page, news, faults>>

handleTermSessionEnd(d, n) ==
    /\ box[d][n] = "ask"
    /\ box' = [box EXCEPT ![d][n] = IF up /\ d \notin out /\ n \in live THEN "mark" ELSE "none"]
    /\ UNCHANGED <<up, live, closed, page, win, bounds>>

endTermSession(d, n) ==
    /\ box[d][n] = "mark"
    /\ closed' = closed \cup {n}
    /\ box' = [box EXCEPT ![d][n] = "kill"]
    /\ UNCHANGED <<up, live, page, win, bounds>>

KillSession(d, n) ==
    /\ box[d][n] = "kill"
    /\ live' = live \ {n} /\ win' = Unlinked(n)
    /\ box' = [box EXCEPT ![d][n] = "none"]
    /\ UNCHANGED <<up, closed, page, bounds>>

----------------------------------------------------------------------------
(* Signing out and in.                                                     *)

(* signOutWatch: a link that is up is closed with the word "signed out",   *)
(* and one that was opening or ending may be; the layout streams end too.  *)
SignedOut(D) == \E late \in SUBSET (D \X Num) :
    /\ up /\ faults < MaxFaults /\ D # {} /\ D \cap out = {}
    /\ faults' = faults + 1
    /\ out' = out \cup D
    /\ win' = [d \in Desk |-> [n \in Num |->
                IF \/ d \in D /\ win[d][n] = "linked"
                   \/ <<d, n>> \in late /\ win[d][n] \in {"connect", "eof", "gone"}
                THEN "out" ELSE win[d][n]]]
    /\ stream' = [d \in Desk |-> IF d \in D /\ stream[d] = "on" THEN "again" ELSE stream[d]]
    /\ ch' = [d \in Desk |-> IF d \in D THEN <<>> ELSE ch[d]]
    /\ UNCHANGED <<up, live, closed, loaded, want, asks, answers, new, box, news, user>>

(* tokDone, pkSignIn: what the page has polled since was refused, so it    *)
(* loads again.                                                            *)
SignIn(d) ==
    /\ up /\ d \in out
    /\ out' = out \ {d}
    /\ Leave(d)
    /\ UNCHANGED <<up, live, closed, box, bounds>>

----------------------------------------------------------------------------
(* The daemon's restart: marks, links, streams and requests go with it.    *)
DaemonDown ==
    /\ up /\ faults < MaxFaults
    /\ faults' = faults + 1 /\ up' = FALSE /\ closed' = {}
    /\ stream' = [d \in Desk |-> IF stream[d] = "on" THEN "again" ELSE stream[d]]
    /\ ch' = [d \in Desk |-> <<>>]
    /\ asks' = [d \in Desk |-> 0] /\ new' = [d \in Desk |-> 0]
    /\ win' = [d \in Desk |-> [n \in Num |->
                IF win[d][n] \in {"connect", "linked", "eof", "gone"} THEN "retry" ELSE win[d][n]]]
    /\ box' = [d \in Desk |-> Blank]
    /\ UNCHANGED <<live, loaded, out, want, answers, news, user>>

DaemonUp ==
    /\ ~up /\ up' = TRUE
    /\ UNCHANGED <<live, closed, page, win, box, bounds>>

PageSteps(d) == handleTermSessions(d) \/ restoreTerms(d) \/ handleUIStateEvents(d)
    \/ termsFollow(d) \/ termsFollowNow(d) \/ newHostTerm(d)

LinkSteps(d, n) == handleHostTerminal(d, n) \/ termAlive(d, n) \/ termEndReason(d, n)
    \/ lost(d, n) \/ Retry(d, n) \/ ConnectFails(d, n)

BoxSteps(d, n) == handleTermSessionEnd(d, n) \/ endTermSession(d, n) \/ KillSession(d, n)

Next ==
    \/ \E d \in Desk : Load(d) \/ Reload(d) \/ StreamBreaks(d) \/ newTermSession(d) \/ PageSteps(d)
    \/ \E d \in Desk, n \in Num : LinkBreaks(d, n) \/ CloseBox(d, n) \/ LinkSteps(d, n) \/ BoxSteps(d, n)
    \/ \E n \in Num : ShellExits(n)
    \/ \E D \in SUBSET Desk : SignedOut(D)
    \/ \E d \in Desk : SignIn(d)
    \/ DaemonDown \/ DaemonUp

Spec == Init /\ [][Next]_vars

(* The daemon comes back, pages and their handlers go on; the user owes nothing. *)
Fairness ==
    /\ WF_vars(DaemonUp)
    /\ \A d \in Desk : WF_vars(PageSteps(d))
    /\ \A d \in Desk, n \in Num : WF_vars(LinkSteps(d, n)) /\ WF_vars(BoxSteps(d, n))

FairSpec == Spec /\ Fairness

----------------------------------------------------------------------------
(* A window of a session that is gone does not stay: once the users rest,  *)
(* every window left in a browser that is signed in shows a living         *)
(* session, whatever link, restart or stale list it went through           *)
(* (termEndReason and the page's lost, which closes the window at "session *)
(* ended" too, where termsessions.go:33-35 has it stay with its last       *)
(* screen).  Two windows are excepted: one of a browser signed out, whose  *)
(* requests are all refused, and one told "signed out" (close code 1008),  *)
(* which stays as it is until its page loads again or it is closed.        *)
GoneWindowsClose ==
    <>[](\A d \in Desk \ out, n \in Num : win[d][n] \notin {"none", "out"} => n \in live)

=============================================================================
