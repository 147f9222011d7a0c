--------------------------- MODULE AgentSessions ---------------------------
(***************************************************************************)
(* The coding agents' tmux sessions across restarts of the daemon and of   *)
(* the host (agentrestart.go, agentsessions.go, startAgent): the note of   *)
(* what runs, the sessions a host restart stopped, and the ways a window   *)
(* opens, continues, adds and archives one.  One agent; session n is its   *)
(* n-th name, session 1 the icon's own.                                    *)
(***************************************************************************)
EXTENDS Naturals, FiniteSets, FiniteSetsExt

CONSTANTS Names,      \* the last session number in reach
          Window,     \* windows of the agent
          MaxConv,    \* conversations begun
          MaxBoots,   \* boots of the host
          MaxStarts   \* starts of the daemon

ASSUME SessionAssumption == Names \in Nat /\ MaxConv \in Nat

VARIABLES hostBoot, up, starts,
          tmux,       \* [Name -> conversation its CLI carries], None without
          other,      \* another tmux session keeps the server up
          status,     \* [Name -> conversation its status file names]
          live,       \* agents/live.json: the boot and the sessions noted
          last,       \* what RunAgentNotes wrote last, in memory
          looked,     \* what it has just seen and not yet written
          stopped,    \* agents/stopped.json: [Name -> conversation]
          win,        \* [Window -> the stopped session it means to continue]
          seen,       \* sessions a window has shown since they began
          arch,       \* an Archive between kill-session and the rest
          convs,      \* conversations so far
          taken,      \* what a host restart took: pairs <<name, conversation>>, the
                      \* ones that ran again apart when the next found them not noted
          ended       \* conversations their CLI or Archive ended

agentVars == <<hostBoot, up, starts, tmux, other, status, live, last, looked, stopped,
          win, seen, arch, convs, taken, ended>>

Name   == 1..Names
None   == 0
Quiet  == [n \in Name |-> None]
NoLook == [n \in Name |-> MaxConv + 1]      \* none, or none written yet
AtRest   == 0                                 \* a window at rest
NoArch == None

Live    == {n \in Name : tmux[n] /= None}
Stopped == {n \in Name : stopped[n] /= None}
HasServer == other \/ Live /= {}
Runs(c) == \E n \in Name : tmux[n] = c

fates  == <<taken, ended>>
agentFiles  == <<status, live, stopped>>
memory == <<last, looked, win, arch>>

AgentsInit ==
    /\ hostBoot = 1 /\ up = TRUE /\ starts = 1
    /\ tmux = Quiet /\ other \in BOOLEAN /\ status = Quiet
    /\ live = [boot |-> 0, names |-> Quiet]
    /\ last = NoLook /\ looked = NoLook /\ stopped = Quiet
    /\ win = [w \in Window |-> AtRest] /\ seen = {} /\ arch = NoArch
    /\ convs = 0 /\ taken = {} /\ ended = {}

-----------------------------------------------------------------------------
(* agentNoteNow sees the sessions, or no server and then says nothing.     *)
Look ==
    /\ up /\ looked = NoLook /\ HasServer
    /\ looked' = tmux
    /\ UNCHANGED <<hostBoot, up, starts, tmux, other, agentFiles, last, win, seen, arch,
                   convs, fates>>

(* noteAgentSessions writes what it saw when it differs from what it wrote *)
(* before.                                                                 *)
noteAgentSessions ==
    /\ up /\ looked /= NoLook
    /\ IF looked = last THEN UNCHANGED <<live, last>>
       ELSE live' = [boot |-> hostBoot, names |-> looked] /\ last' = looked
    /\ looked' = NoLook
    /\ UNCHANGED <<hostBoot, up, starts, tmux, other, status, stopped, win, seen,
                   arch, convs, fates>>

(* noteHostRestart: under another boot, each session noted that tmux does  *)
(* not have and whose status file names a conversation is stopped; the     *)
(* note is written again under this boot.                                  *)
noteHostRestart ==
    IF live.boot \in {0, hostBoot} THEN UNCHANGED <<live, stopped>>
    ELSE /\ stopped' = [n \in Name |->
               IF live.names[n] /= None /\ tmux[n] = None /\ status[n] /= None
               THEN status[n] ELSE stopped[n]]
         /\ live' = [boot |-> hostBoot, names |-> tmux]

Starts ==
    /\ ~up /\ starts < MaxStarts
    /\ up' = TRUE /\ starts' = starts + 1
    /\ noteHostRestart
    /\ UNCHANGED <<hostBoot, tmux, other, status, memory, seen, convs, fates>>

Forget == /\ last' = NoLook /\ looked' = NoLook
          /\ win' = [w \in Window |-> AtRest] /\ arch' = NoArch

Stops ==
    /\ up /\ up' = FALSE /\ Forget
    /\ UNCHANGED <<hostBoot, starts, tmux, other, agentFiles, seen, convs, fates>>

(* The host goes down, with the daemon in the middle of anything.          *)
HostDown ==
    /\ hostBoot < MaxBoots /\ hostBoot' = hostBoot + 1
    /\ up' = FALSE /\ Forget
    /\ tmux' = Quiet /\ other' = FALSE /\ seen' = {}
    /\ taken' = {t \in taken : ~Runs(t[2])} \cup {<<n, tmux[n]>> : n \in
           {k \in Live : live.names[k] = tmux[k] /\ status[k] = tmux[k]}}
    /\ UNCHANGED <<starts, agentFiles, convs, ended>>

-----------------------------------------------------------------------------
(* A CLI starts under a name: its status file is cleared first.            *)
NewSession(n) ==
    /\ convs < MaxConv /\ convs' = convs + 1
    /\ tmux' = [tmux EXCEPT ![n] = convs + 1]
    /\ status' = [status EXCEPT ![n] = None]

(* The CLI's hooks name its conversation in the status file.               *)
Reports(n) ==
    /\ n \in Live /\ status[n] /= tmux[n]
    /\ status' = [status EXCEPT ![n] = tmux[n]]
    /\ UNCHANGED <<hostBoot, up, starts, tmux, other, live, stopped, memory, seen,
                   convs, fates>>

Exits(n) ==
    /\ n \in Live
    /\ tmux' = [tmux EXCEPT ![n] = None] /\ seen' = seen \ {n}
    /\ ended' = ended \cup {tmux[n]}
    /\ UNCHANGED <<hostBoot, up, starts, other, agentFiles, memory, convs, taken>>

OtherSession ==
    /\ other' = ~other
    /\ UNCHANGED <<hostBoot, up, starts, tmux, agentFiles, memory, seen, convs, fates>>

BugNextAgentSession == 1 + Max(Live \cup {1})

(* nextAgentSession: one past every number that runs or is stopped.        *)
nextAgentSession == 1 + Max(Live \cup Stopped \cup {1})

(* openTask, and the agents API.                                           *)
Opens ==
    /\ up
    /\ LET n == nextAgentSession IN
       /\ n \in Name /\ n \notin Live
       /\ NewSession(n)
       /\ seen' = seen \cup {n}
    /\ UNCHANGED <<hostBoot, up, starts, other, live, stopped, memory, fates>>

(* wakeAgentSession, under the lock: a name a live session holds again     *)
(* loses its row; otherwise the CLI resumes the conversation under it.     *)
Wake(n) ==
    IF n \in Live THEN UNCHANGED <<tmux, status>>
    ELSE /\ tmux' = [tmux EXCEPT ![n] = stopped[n]]
         /\ status' = [status EXCEPT ![n] = stopped[n]]

wakeAgentSession(n) ==
    /\ up /\ n \in Stopped
    /\ Wake(n) /\ stopped' = [stopped EXCEPT ![n] = None]
    /\ seen' = seen \cup {n}
    /\ UNCHANGED <<hostBoot, up, starts, other, live, memory, convs, fates>>

(* startAgent: the session shown last, else the one that was stopped last, *)
(* else the icon's own, begun when it does not run.                        *)
StartOwn ==
    /\ IF 1 \in Live THEN UNCHANGED <<tmux, status, convs>> ELSE NewSession(1)
    /\ seen' = seen \cup {1}

WindowOpens(w) ==
    /\ up /\ win[w] = AtRest /\ Live \cap seen = {}
    /\ \/ /\ Stopped = {} /\ StartOwn /\ UNCHANGED win
       \/ /\ \E n \in Stopped : win' = [win EXCEPT ![w] = n]
          /\ UNCHANGED <<tmux, status, convs, seen>>
    /\ UNCHANGED <<hostBoot, up, starts, other, live, stopped, last, looked, arch, fates>>

wakeLastStopped(w) ==
    /\ up /\ win[w] /= AtRest
    /\ win' = [win EXCEPT ![w] = AtRest]
    /\ LET n == win[w] IN
       IF n \in Stopped /\ n \notin Live
       THEN /\ Wake(n) /\ stopped' = [stopped EXCEPT ![n] = None]
            /\ seen' = seen \cup {n} /\ UNCHANGED convs
       ELSE /\ StartOwn
            /\ stopped' = [stopped EXCEPT ![n] = None]
    /\ UNCHANGED <<hostBoot, up, starts, other, live, last, looked, arch, fates>>

-----------------------------------------------------------------------------
(* archive of a stopped row (forgetStopped), when no live session holds    *)
(* the name.                                                               *)
forgetStopped(n) ==
    /\ up /\ n \in Stopped /\ n \notin Live
    /\ stopped' = [stopped EXCEPT ![n] = None]
    /\ status' = [status EXCEPT ![n] = None]
    /\ ended' = ended \cup {stopped[n]}
    /\ UNCHANGED <<hostBoot, up, starts, tmux, other, live, memory, seen, convs, taken>>

(* archive of a live session: kill-session; then its status files go and   *)
(* it leaves the note.  A row that was stopped under its name goes too.    *)
Archives(n) ==
    /\ up /\ arch = NoArch /\ n \in Live
    /\ arch' = n
    /\ tmux' = [tmux EXCEPT ![n] = None] /\ seen' = seen \ {n}
    /\ stopped' = [stopped EXCEPT ![n] = None]
    /\ ended' = ended \cup {tmux[n]}
    /\ UNCHANGED <<hostBoot, up, starts, other, status, live, last, looked, win,
                   convs, taken>>

unnoteAgentSession ==
    /\ up /\ arch /= NoArch /\ arch' = NoArch
    /\ status' = [status EXCEPT ![arch] = None]
    /\ live' = [live EXCEPT !.names[arch] = None]
    /\ UNCHANGED <<hostBoot, up, starts, tmux, other, stopped, last, looked, win,
                   seen, convs, fates>>

AgentsNext ==
    \/ Look \/ noteAgentSessions \/ Starts \/ Stops \/ HostDown
    \/ OtherSession \/ Opens \/ unnoteAgentSession
    \/ \E n \in Name : Reports(n) \/ Exits(n) \/ wakeAgentSession(n)
                       \/ forgetStopped(n) \/ Archives(n)
    \/ \E w \in Window : WindowOpens(w) \/ wakeLastStopped(w)

AgentsSpec == AgentsInit /\ [][AgentsNext]_agentVars

-----------------------------------------------------------------------------
(* What a restart of the host took, of the sessions that were noted and    *)
(* had a conversation, is not lost: once the daemon serves again, each is  *)
(* a stopped row under its name, or runs, or was ended since by its CLI or *)
(* by Archive.  (Session 1 apart: README, observations.)                   *)
NothingLost ==
    up => \A t \in taken : t[1] /= 1 =>
        stopped[t[1]] = t[2] \/ Runs(t[2]) \/ t[2] \in ended
=============================================================================
