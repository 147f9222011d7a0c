------------------------------ MODULE UsageLogs ------------------------------
(***************************************************************************)
(* The token count of the Control Strip's agent module                     *)
(* (internal/server/agentusage.go).  Claude Code and Codex append to their *)
(* own logs at any time, archive them to another folder and, when a        *)
(* session is resumed, repeat old lines in a new log; an incremental scan  *)
(* walks the folders, one file after another, from the offset it reached   *)
(* before and books every request of the last days on its own day.         *)
(* A request is a number; tokenCount's sums are abstracted to how often    *)
(* each request was booked.  A log line is a request and the day of its    *)
(* timestamp: Claude writes a message as several lines, which may fall on  *)
(* two days, and Codex may send an event twice.                            *)
(***************************************************************************)
EXTENDS Naturals, Sequences, FiniteSets

CONSTANTS
    LogFile,    \* log file names
    Week,       \* days that count (agentUsageDays, 7 in the code)
    MaxDay, MaxLines, MaxLogMoves,
    MaxAsked,   \* requests of Codex
    MaxClaude   \* and of Claude

ASSUME UsageAssumption ==
    Week \in Nat \ {0} /\ MaxDay \in Nat \ {0} /\ MaxAsked \in Nat /\ MaxClaude \in 0 .. MaxAsked

Req == 1 .. MaxAsked
Day == 1 .. MaxDay
Root == {1, 2}     \* the folders, walked in order

VARIABLES
    codex,      \* usageLogs.codex: Codex rollouts, or Claude transcripts
    day,        \* today
    log,        \* file -> its whole lines
    partial,    \* file -> a line still being written, or <<>>
    place,      \* file -> the folder it is in, 0: not there
    touched,    \* file -> the day of its last write
    requests, logMoves,
    logFiles,   \* usageLogs.files: key -> [off, prev], known: it is in the map
    days,       \* usageLogs.days: day -> request -> times booked
    bookedOn,   \* usageLogs.seen: request -> the day it was booked, or 0
    scan,       \* the scan: [on, since, root, left, calm]
    cut         \* files that were cut short at some time

tools == <<codex, day, log, partial, place, touched, requests, logMoves, cut>>
counts == <<logFiles, days, bookedOn>>
usageVars == <<tools, counts, scan>>

Line(r, d) == [req |-> r, day |-> d]

\* A rollout goes by its file name, a transcript by its path.
Key(f, p) == IF codex THEN <<f, 0>> ELSE <<f, p>>
Keys == LogFile \X (Root \union {0})
NoFile == [off |-> 0, prev |-> 0, known |-> FALSE]
NoScan == [on |-> FALSE, since |-> 1, root |-> 0, left |-> {}, calm |-> FALSE]

UsageInit ==
    /\ codex \in BOOLEAN
    /\ day = 1 /\ requests = 0 /\ logMoves = 0 /\ cut = {}
    /\ log = [f \in LogFile |-> <<>>] /\ partial = [f \in LogFile |-> <<>>]
    /\ place = [f \in LogFile |-> 0] /\ touched = [f \in LogFile |-> 1]
    /\ logFiles = [k \in Keys |-> NoFile]
    /\ days = [d \in Day |-> [r \in Req |-> 0]]
    /\ bookedOn = [r \in Req |-> 0]
    /\ scan = NoScan

\* The first day that counts.
usageSince == IF day > Week THEN day - Week + 1 ELSE 1

Stir == scan' = [scan EXCEPT !.calm = FALSE]

-----------------------------------------------------------------------------
\* The command line tools, external: appends, repeats, moves, cuts.

Midnight ==
    /\ day < MaxDay /\ day' = day + 1 /\ Stir
    /\ UNCHANGED <<codex, log, partial, place, touched, requests, logMoves, cut, counts>>

Writes(f, l) ==
    /\ partial[f] = <<>> /\ Len(log[f]) < MaxLines
    /\ partial' = [partial EXCEPT ![f] = <<l>>]
    /\ touched' = [touched EXCEPT ![f] = day]
    /\ place' = [place EXCEPT ![f] = IF @ = 0 THEN 1 ELSE @]
    /\ Stir
    /\ UNCHANGED <<codex, day, log, logMoves, cut, counts>>

NewRequest(f) ==
    /\ requests < IF codex THEN MaxAsked ELSE MaxClaude
    /\ requests' = requests + 1
    /\ Writes(f, Line(requests + 1, day))

\* Claude: one more block of the message; Codex: the same event again.
SameRequest(f) ==
    /\ log[f] # <<>>
    /\ requests' = requests
    /\ Writes(f, IF codex THEN log[f][Len(log[f])] ELSE Line(log[f][Len(log[f])].req, day))

LineEnds(f) ==
    /\ partial[f] # <<>>
    /\ log' = [log EXCEPT ![f] = @ \o partial[f]]
    /\ partial' = [partial EXCEPT ![f] = <<>>]
    /\ touched' = [touched EXCEPT ![f] = day]
    /\ Stir
    /\ UNCHANGED <<codex, day, place, requests, logMoves, cut, counts>>

\* A resumed Claude session repeats the old lines in a log of its own.
Resume(f, g) ==
    /\ ~codex /\ f # g /\ place[g] = 0 /\ log[f] # <<>> /\ logMoves < MaxLogMoves
    /\ logMoves' = logMoves + 1
    /\ log' = [log EXCEPT ![g] = log[f]]
    /\ place' = [place EXCEPT ![g] = 1] /\ touched' = [touched EXCEPT ![g] = day]
    /\ Stir
    /\ UNCHANGED <<codex, day, partial, requests, cut, counts>>

MoveFile(f) ==
    /\ place[f] # 0 /\ logMoves < MaxLogMoves
    /\ logMoves' = logMoves + 1 /\ place' = [place EXCEPT ![f] = 3 - @] /\ Stir
    /\ UNCHANGED <<codex, day, log, partial, touched, requests, cut, counts>>

CutShort(f) ==
    /\ log[f] # <<>> /\ logMoves < MaxLogMoves
    /\ logMoves' = logMoves + 1
    /\ log' = [log EXCEPT ![f] = <<>>] /\ partial' = [partial EXCEPT ![f] = <<>>]
    /\ touched' = [touched EXCEPT ![f] = day] /\ cut' = cut \union {f} /\ Stir
    /\ UNCHANGED <<codex, day, place, requests, counts>>

-----------------------------------------------------------------------------
\* Reading a log's new lines: a fold over the counts, the ids and prev.

\* count: booked when its day is in the week.
Booked(s, l) == [s EXCEPT !.days[l.day][l.req] = @ + 1]

BugClaudeLine(s, l, since) ==
    IF s.seen[l.req] # l.day /\ l.day >= since
    THEN [Booked(s, l) EXCEPT !.seen[l.req] = l.day] ELSE s

claudeLine(s, l, since) ==
    IF s.seen[l.req] = 0 /\ l.day >= since
    THEN [Booked(s, l) EXCEPT !.seen[l.req] = l.day] ELSE s

codexLine(s, l, since) ==
    LET moved == [s EXCEPT !.prev = l.req] IN
    IF s.prev # l.req /\ l.day >= since THEN Booked(moved, l) ELSE moved

lineOf(s, l, since) == IF codex THEN codexLine(s, l, since) ELSE claudeLine(s, l, since)

\* Every whole line from the offset on.
read(s, lines, off, since) ==
    LET at[i \in off .. Len(lines)] == IF i = off THEN s ELSE lineOf(at[i - 1], lines[i], since)
    IN at[Len(lines)]

\* The size, a line being written included, decides whether the file was
\* cut short and whether it is read at all.
Size(f) == Len(log[f]) + Len(partial[f])

-----------------------------------------------------------------------------
\* scan: one folder after the other, one file at a time.

handleAgentUsage ==
    /\ ~scan.on
    /\ scan' = [on |-> TRUE, since |-> usageSince, root |-> 1, calm |-> TRUE,
                left |-> {f \in LogFile : place[f] = 1}]
    /\ UNCHANGED <<tools, counts>>

\* A file the scan does not look into: gone from the folder, or untouched since before the week.
PassedBy(f) ==
    \/ place[f] # scan.root
    \/ ~logFiles[Key(f, scan.root)].known /\ touched[f] < scan.since

\* Where reading starts; a file cut short is picked up at its new end.
From(f) ==
    LET old == logFiles[Key(f, scan.root)] IN
    IF Size(f) < old.off THEN [old EXCEPT !.off = Size(f), !.prev = 0] ELSE [old EXCEPT !.known = TRUE]

Got(f) == read([days |-> days, seen |-> bookedOn, prev |-> From(f).prev], log[f], From(f).off, scan.since)

\* A line still being written waits for the next scan.
Visit(f) ==
    /\ f \in scan.left
    /\ scan' = [scan EXCEPT !.left = @ \ {f}]
    /\ IF PassedBy(f) THEN UNCHANGED counts
       ELSE IF From(f).off <= Len(log[f])
       THEN /\ logFiles' = [logFiles EXCEPT ![Key(f, scan.root)] =
                               [off |-> Len(log[f]), prev |-> Got(f).prev, known |-> TRUE]]
            /\ days' = Got(f).days /\ bookedOn' = Got(f).seen
       ELSE /\ logFiles' = [logFiles EXCEPT ![Key(f, scan.root)] = From(f)]
            /\ UNCHANGED <<days, bookedOn>>
    /\ UNCHANGED tools

NextRoot ==
    /\ scan.on /\ scan.left = {} /\ scan.root = 1
    /\ scan' = [scan EXCEPT !.root = 2, !.left = {f \in LogFile : place[f] = 2}]
    /\ UNCHANGED <<tools, counts>>

\* The week moves on: days and ids that fell out of it go.
ScanEnds ==
    /\ scan.on /\ scan.left = {} /\ scan.root = 2
    /\ scan' = [scan EXCEPT !.on = FALSE, !.root = 0]
    /\ days' = [d \in Day |-> IF d < scan.since THEN [r \in Req |-> 0] ELSE days[d]]
    /\ bookedOn' = [r \in Req |-> IF bookedOn[r] < scan.since THEN 0 ELSE bookedOn[r]]
    /\ UNCHANGED <<tools, logFiles>>

UsageNext ==
    \/ \E f \in LogFile : NewRequest(f) \/ SameRequest(f) \/ LineEnds(f) \/ MoveFile(f) \/ CutShort(f) \/ Visit(f)
    \/ \E f, g \in LogFile : Resume(f, g)
    \/ Midnight \/ handleAgentUsage \/ NextRoot \/ ScanEnds

UsageSpec == UsageInit /\ [][UsageNext]_usageVars

-----------------------------------------------------------------------------
\* A request is booked once at most, on one day.
BookedOnce(r) ==
    /\ Cardinality({d \in Day : days[d][r] > 0}) <= 1
    /\ \A d \in Day : days[d][r] <= 1

LinesOf(r) == {p \in UNION {{f} \X DOMAIN log[f] : f \in LogFile} : log[p[1]][p[2]].req = r}

(***************************************************************************)
(* The week's count is right: no request is ever counted twice, though its *)
(* lines repeat, its log moves while the folders are walked, and old days  *)
(* and ids are dropped; and a scan that nothing disturbed has counted      *)
(* every request whose lines all fall in the week (scan, read, claudeLine, *)
(* codexLine).  A log once cut short is exempt: scan picks up at its end.  *)
(***************************************************************************)
EachCountedOnce ==
    \A r \in Req :
        /\ BookedOnce(r)
        /\ ~scan.on /\ scan.calm /\ LinesOf(r) # {}
           /\ (\A p \in LinesOf(r) : log[p[1]][p[2]].day >= scan.since /\ p[1] \notin cut)
           => \E d \in Day : days[d][r] = 1
=============================================================================
