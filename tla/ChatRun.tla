------------------------------ MODULE ChatRun ------------------------------
(***************************************************************************)
(* Detached chat replies (internal/server/chatrun.go) of ONE session: the  *)
(* loop that calls the model and runs its tools, messages queued while it  *)
(* runs, confirmations of destructive tools, stop and drain, and beside it *)
(* the handlers that send to and delete the session and the detached    *)
(* writer of its summary.  Runs are registered per session id, so one      *)
(* session is the whole protocol.                                          *)
(*                                                                         *)
(* The file is replaced by rename, so a save is one step; chatSaveMu       *)
(* orders the saves, and Delete does not take it.                          *)
(***************************************************************************)
EXTENDS Integers, Sequences, FiniteSets

CONSTANTS
    Msg,         \* user messages, each sent at most once
    Client,      \* HTTP handlers at work at once
    Ops,         \* requests made: subset of {"send", "queue", "answer",
                 \* "stop", "delete", "drain"}
    Gone,        \* "no session file"
    MaxRuns,     \* bound: replies in a behaviour
    MaxTurns,    \* chatMaxTurns
    MaxTools,    \* bound: tool calls in one model turn
    MaxFaults    \* bound: failed saves, panics and sweeps that give up

ASSUME ChatAssumption ==
    /\ Ops \subseteq {"send", "queue", "answer", "stop", "delete", "drain"}
    /\ {MaxRuns, MaxTurns, MaxTools, MaxFaults} \subseteq Nat
    /\ Msg \cap {"reply", "result"} = {}
    /\ Gone \notin Seq(Msg \cup {"reply", "result"})

VARIABLES
    disk,      \* the session file's messages, or Gone
    entry,     \* chatRuns: the registered run, 0 when there is none
    runs,      \* run -> its chatRun, its loop's session and where the loop is
    nruns,     \* runs made so far
    cl,        \* handler -> where it is
    sweeps,    \* the goroutines Delete left to remove the file once more
    sums,      \* run -> its summary: due or being written, with the copy loaded
    unsent,    \* messages no one has sent yet
    accepted,  \* messages a send or a queue request was told are taken
    deleted,   \* a Delete has answered "deleted"
    yes, ran,  \* <<run, confirmation>>: approved by a user; tool run
    faults

vars == <<disk, entry, runs, nruns, cl, sweeps, sums, unsent, accepted, deleted,
          yes, ran, faults>>

Run == 1..MaxRuns

(* What a message list holds besides user messages.                        *)
Reply == "reply"
Result == "result"
Idle == [st |-> "no", copy |-> <<>>]

Free == [op |-> "none", pc |-> "idle", ref |-> 0, msg |-> Gone, id |-> 0,
         ok |-> FALSE, seen |-> <<>>]

NewRun == [pc |-> "none", hist |-> <<>>, queued |-> <<>>,
           closed |-> FALSE, stop |-> FALSE, confirm |-> 0, seq |-> 0,
           ans |-> "none", turn |-> 0, tools |-> 0, clean |-> FALSE,
           saveErr |-> FALSE]

At(r, pc) == runs[r].pc = pc
Exists == disk # Gone

Fault == faults < MaxFaults /\ faults' = faults + 1

Goto(r, pc) == runs' = [runs EXCEPT ![r].pc = pc]
Return(c) == cl' = [cl EXCEPT ![c] = Free]
Step(c, pc) == cl' = [cl EXCEPT ![c].pc = pc]

ghost == <<unsent, accepted, deleted, yes, ran>>

(* chatSaveMu is free: no summary writer is between its load and its write. *)
SaveMuFree == \A r \in Run : sums[r].st # "writing"

(* saveChat of run r, which becomes run: its messages are written, or the  *)
(* error goes out as an event.                                             *)
saveChat(r, run) ==
    /\ SaveMuFree
    /\ \/ /\ disk' = run.hist
          /\ runs' = [runs EXCEPT ![r] = [run EXCEPT !.saveErr = FALSE]]
          /\ UNCHANGED faults
       \/ /\ Fault
          /\ runs' = [runs EXCEPT ![r] = [run EXCEPT !.saveErr = TRUE]]
          /\ UNCHANGED disk

-----------------------------------------------------------------------------
(* Handlers.  Each first loads something and uses it a step later.         *)

(* A request arrives.  m, id and ok are what it carries: a message, the    *)
(* confirmation it answers (any that was announced) and the answer.        *)
Begin(c, op, m, id, ok) ==
    /\ cl[c] = Free
    /\ op \in Ops
    /\ cl' = [cl EXCEPT ![c] = [Free EXCEPT !.op = op, !.pc = "load", !.msg = m,
                                            !.id = id, !.ok = ok]]
    /\ yes' = IF op = "answer" /\ ok THEN yes \cup {<<entry, id>>} ELSE yes
    /\ UNCHANGED <<disk, entry, runs, nruns, sweeps, sums, unsent, accepted,
                   deleted, ran, faults>>

Request(c) ==
    \/ \E op \in {"send", "queue"}, m \in unsent : Begin(c, op, m, 0, FALSE)
    \/ \E op \in {"stop", "delete", "drain"} : Begin(c, op, Gone, 0, FALSE)
    \/ /\ entry # 0
       /\ \E id \in 1..runs[entry].seq, ok \in BOOLEAN : Begin(c, "answer", Gone, id, ok)

Loading(c, op) == cl[c].op = op /\ cl[c].pc = "load"
Using(c, op) == cl[c].op = op /\ cl[c].pc = "use"

(* handleChatSend loads the session ...                                    *)
SendLoad(c) ==
    /\ Loading(c, "send")
    /\ \/ ~Exists /\ Return(c)
       \/ Exists /\ cl' = [cl EXCEPT ![c].pc = "use", ![c].seen = disk]
    /\ UNCHANGED <<disk, entry, runs, nruns, sweeps, sums, ghost, faults>>

(* ... and startChatRun registers a run for it, unless there is one.       *)
SendRegister(c) ==
    /\ Using(c, "send")
    /\ \/ /\ entry # 0
          /\ Return(c)
          /\ UNCHANGED <<entry, runs, nruns>>
       \/ /\ entry = 0
          /\ nruns < MaxRuns
          /\ nruns' = nruns + 1
          /\ entry' = nruns + 1
          /\ runs' = [runs EXCEPT ![nruns + 1] =
                        [NewRun EXCEPT !.pc = "reread"]]
          /\ cl' = [cl EXCEPT ![c].pc = "reread", ![c].ref = nruns + 1]
    /\ UNCHANGED <<disk, sweeps, sums, ghost, faults>>

(* Mutant: the copy loaded before the registration is used.                *)
BugSendReread(c) ==
    LET r == cl[c].ref
    IN  /\ cl[c].op = "send" /\ cl[c].pc = "reread"
        /\ runs' = [runs EXCEPT ![r].hist = cl[c].seen]
        /\ Step(c, "save")
        /\ UNCHANGED <<disk, entry, nruns, sweeps, sums, ghost, faults>>

(* The session is read again, now that this run owns it.                   *)
SendReread(c) ==
    LET r == cl[c].ref
    IN  /\ cl[c].op = "send" /\ cl[c].pc = "reread"
        /\ \/ /\ ~Exists
              /\ entry' = 0
              /\ Goto(r, "over")
              /\ Return(c)
           \/ /\ Exists
              /\ runs' = [runs EXCEPT ![r].hist = disk]
              /\ Step(c, "save")
              /\ UNCHANGED entry
        /\ UNCHANGED <<disk, nruns, sweeps, sums, ghost, faults>>

(* The message is appended and saved, and the loop is launched.            *)
SendSave(c) ==
    LET r == cl[c].ref
    IN  /\ cl[c].op = "send" /\ cl[c].pc = "save"
        /\ saveChat(r, [runs[r] EXCEPT !.hist = Append(@, cl[c].msg), !.pc = "turn"])
        /\ unsent' = unsent \ {cl[c].msg}
        /\ accepted' = accepted \cup {cl[c].msg}
        /\ Return(c)
        /\ UNCHANGED <<entry, nruns, sweeps, sums, deleted, yes, ran>>

(* The other handlers load the registered run; without one they answer at  *)
(* once (Delete: with one).                                                *)
LoadRun(c) ==
    /\ cl[c].op \notin {"send", "none"} /\ cl[c].pc = "load"
    /\ \/ /\ cl[c].op \in {"queue", "answer", "stop", "drain"} /\ entry = 0
          /\ Return(c)
       \/ cl[c].op = "delete" /\ entry # 0 /\ Return(c)
       \/ /\ \/ cl[c].op \in {"queue", "answer", "stop", "drain"} /\ entry # 0
             \/ cl[c].op = "delete" /\ entry = 0
          /\ cl' = [cl EXCEPT ![c].pc = "use", ![c].ref = entry]
    /\ UNCHANGED <<disk, entry, runs, nruns, sweeps, sums, ghost, faults>>

(* queue.                                                                  *)
Queue(c) ==
    LET r == cl[c].ref
    IN  /\ Using(c, "queue")
        /\ \/ runs[r].closed /\ UNCHANGED <<runs, unsent, accepted>>
           \/ /\ ~runs[r].closed
              /\ runs' = [runs EXCEPT ![r].queued = Append(@, cl[c].msg)]
              /\ unsent' = unsent \ {cl[c].msg}
              /\ accepted' = accepted \cup {cl[c].msg}
        /\ Return(c)
        /\ UNCHANGED <<disk, entry, nruns, sweeps, sums, deleted, yes, ran, faults>>

(* Mutant: whatever confirmation is pending takes the answer.              *)
BugAnswerConfirm(c) ==
    LET r == cl[c].ref
    IN  /\ Using(c, "answer")
        /\ \/ runs[r].confirm = 0 /\ UNCHANGED runs
           \/ /\ runs[r].confirm # 0
              /\ runs' = [runs EXCEPT ![r].confirm = 0,
                                      ![r].ans = IF cl[c].ok THEN "yes" ELSE "no"]
        /\ Return(c)
        /\ UNCHANGED <<disk, entry, nruns, sweeps, sums, ghost, faults>>

(* answerConfirm.                                                          *)
answerConfirm(c) ==
    LET r == cl[c].ref
    IN  /\ Using(c, "answer")
        /\ \/ runs[r].confirm # cl[c].id /\ UNCHANGED runs
           \/ /\ runs[r].confirm = cl[c].id
              /\ runs' = [runs EXCEPT ![r].confirm = 0,
                                      ![r].ans = IF cl[c].ok THEN "yes" ELSE "no"]
        /\ Return(c)
        /\ UNCHANGED <<disk, entry, nruns, sweeps, sums, ghost, faults>>

(* stop: the reason is recorded and the run's context cancelled.           *)
Stop(c) ==
    /\ Using(c, "stop")
    /\ runs' = [runs EXCEPT ![cl[c].ref].stop = TRUE]
    /\ Return(c)
    /\ UNCHANGED <<disk, entry, nruns, sweeps, sums, ghost, faults>>

(* DrainChatRuns stops what is registered ...                              *)
DrainStop(c) ==
    /\ Using(c, "drain")
    /\ runs' = [runs EXCEPT ![cl[c].ref].stop = TRUE]
    /\ Step(c, "wait")
    /\ UNCHANGED <<disk, entry, nruns, sweeps, sums, ghost, faults>>

(* ... and waits until nothing is, or its own time is up.                  *)
DrainWait(c) ==
    /\ cl[c].op = "drain" /\ cl[c].pc = "wait"
    /\ Return(c)
    /\ UNCHANGED <<disk, entry, runs, nruns, sweeps, sums, ghost, faults>>

(* handleChatSessionDelete removes the file ...                            *)
DeleteFile(c) ==
    /\ Using(c, "delete")
    /\ \/ ~Exists /\ Return(c) /\ UNCHANGED disk
       \/ Exists /\ disk' = Gone /\ Step(c, "again")
    /\ UNCHANGED <<entry, runs, nruns, sweeps, sums, ghost, faults>>

(* ... and looks for a run that slipped in: it is stopped, and the file    *)
(* removed again when the run is over.                                     *)
DeleteAgain(c) ==
    /\ cl[c].op = "delete" /\ cl[c].pc = "again"
    /\ \/ entry = 0 /\ UNCHANGED <<runs, sweeps>>
       \/ /\ entry # 0
          /\ runs' = [runs EXCEPT ![entry].stop = TRUE]
          /\ sweeps' = sweeps + 1
    /\ deleted' = TRUE
    /\ Return(c)
    /\ UNCHANGED <<disk, entry, nruns, sums, unsent, accepted, yes, ran, faults>>

Sweep ==
    /\ sweeps > 0
    /\ entry = 0
    /\ disk' = Gone
    /\ sweeps' = sweeps - 1
    /\ UNCHANGED <<entry, runs, nruns, cl, sums, ghost, faults>>

(* Ten seconds on it gives up: the run has not ended.                      *)
SweepGivesUp ==
    /\ sweeps > 0
    /\ entry # 0
    /\ Fault
    /\ sweeps' = sweeps - 1
    /\ UNCHANGED <<disk, entry, runs, nruns, cl, sums, ghost>>

-----------------------------------------------------------------------------
(* runChatLoop.                                                            *)

loopUnchanged == <<entry, nruns, cl, sweeps, sums, ghost>>

(* Messages queued so far join the conversation: inject.                   *)
Injected(run) == [run EXCEPT !.hist = @ \o run.queued, !.queued = <<>>]

(* The top of a turn: takeQueued, or the end of the loop at the cap.       *)
TurnTop(r) ==
    /\ At(r, "turn")
    /\ \/ /\ runs[r].turn = MaxTurns
          /\ Goto(r, "ending")
          /\ UNCHANGED <<disk, faults>>
       \/ /\ runs[r].turn < MaxTurns
          /\ runs[r].queued = <<>>
          /\ Goto(r, "model")
          /\ UNCHANGED <<disk, faults>>
       \/ /\ runs[r].turn < MaxTurns
          /\ runs[r].queued # <<>>
          /\ saveChat(r, [Injected(runs[r]) EXCEPT !.pc = "model"])
    /\ UNCHANGED loopUnchanged

(* compact: what is too long is condensed, and the session saved; its      *)
(* messages stay as they are.  The loop may condense up to three times.    *)
compact(r) ==
    /\ At(r, "model")
    /\ saveChat(r, [runs[r] EXCEPT !.pc = "condensed"])
    /\ UNCHANGED loopUnchanged

CallsModel(r) == runs[r].pc \in {"model", "condensed"}

(* callModel fails for good, its retries included: the backend erred or    *)
(* the run was stopped.  What had streamed until then is kept.             *)
ModelFails(r) ==
    /\ CallsModel(r)
    /\ \/ Goto(r, "ending") /\ UNCHANGED <<disk, faults>>
       \/ saveChat(r, [runs[r] EXCEPT !.hist = Append(@, Reply), !.pc = "ending"])
    /\ UNCHANGED loopUnchanged

(* A panic in the turn, a tool's included: recovered, nothing is saved.    *)
Panics(r) ==
    /\ CallsModel(r) \/ (At(r, "tool") /\ runs[r].tools > 0)
    /\ Fault
    /\ Goto(r, "ending")
    /\ UNCHANGED <<disk, loopUnchanged>>

(* A turn that ends with plain text.                                       *)
PlainReply(r) ==
    /\ CallsModel(r)
    /\ saveChat(r, [runs[r] EXCEPT !.hist = Append(@, Reply), !.pc = "final"])
    /\ UNCHANGED loopUnchanged

(* Mutant: the final drain leaves the closing of the queue to the end.     *)
BugFinalDrain(r) ==
    /\ At(r, "final")
    /\ \/ /\ runs[r].queued = <<>>
          /\ runs' = [runs EXCEPT ![r].clean = TRUE, ![r].pc = "ending"]
          /\ UNCHANGED <<disk, faults>>
       \/ /\ runs[r].queued # <<>>
          /\ saveChat(r, [Injected(runs[r]) EXCEPT !.turn = @ + 1, !.pc = "turn"])
    /\ UNCHANGED loopUnchanged

(* The final drain: with nothing pending it closes the queue.              *)
FinalDrain(r) ==
    /\ At(r, "final")
    /\ \/ /\ runs[r].queued = <<>>
          /\ runs' = [runs EXCEPT ![r].closed = TRUE, ![r].clean = TRUE, ![r].pc = "ending"]
          /\ UNCHANGED <<disk, faults>>
       \/ /\ runs[r].queued # <<>>
          /\ saveChat(r, [Injected(runs[r]) EXCEPT !.turn = @ + 1, !.pc = "turn"])
    /\ UNCHANGED loopUnchanged

(* A turn that asks for n tools.                                           *)
ToolCalls(r, n) ==
    /\ CallsModel(r)
    /\ runs' = [runs EXCEPT ![r].hist = Append(@, Reply), ![r].tools = n, ![r].pc = "tool"]
    /\ UNCHANGED <<disk, faults, loopUnchanged>>

(* The result of the tool at hand.                                         *)
WithResult(run) ==
    [run EXCEPT !.hist = Append(@, Result), !.tools = @ - 1, !.pc = "tool"]

(* A stopped run skips the tool; one that needs no confirmation runs.      *)
PlainTool(r) ==
    /\ At(r, "tool")
    /\ runs[r].tools > 0
    /\ runs' = [runs EXCEPT ![r] = WithResult(runs[r])]
    /\ UNCHANGED <<disk, faults, loopUnchanged>>

(* requestConfirm: a new confirmation is announced.                        *)
requestConfirm(r) ==
    /\ At(r, "tool")
    /\ runs[r].tools > 0
    /\ ~runs[r].stop
    /\ runs' = [runs EXCEPT ![r].seq = @ + 1, ![r].confirm = runs[r].seq + 1,
                            ![r].ans = "none", ![r].pc = "confirm"]
    /\ UNCHANGED <<disk, faults, loopUnchanged>>

(* Mutant: no timeout on the user's answer.                                *)
BugConfirmOutcome(r, outcome) ==
    /\ At(r, "confirm")
    /\ \/ outcome = "approved" /\ runs[r].ans = "yes"
       \/ outcome = "declined" /\ runs[r].ans = "no"
       \/ outcome = "stopped" /\ runs[r].stop
    /\ runs' = [runs EXCEPT ![r].pc = outcome]
    /\ UNCHANGED <<disk, faults, loopUnchanged>>

(* The select: whatever is ready - the answer, the timeout, the stop.      *)
ConfirmOutcome(r, outcome) ==
    /\ At(r, "confirm")
    /\ \/ outcome = "approved" /\ runs[r].ans = "yes"
       \/ outcome = "declined" /\ runs[r].ans = "no"
       \/ outcome = "timeout"
       \/ outcome = "stopped" /\ runs[r].stop
    /\ runs' = [runs EXCEPT ![r].pc = outcome]
    /\ UNCHANGED <<disk, faults, loopUnchanged>>

Outcomes == {"approved", "declined", "timeout", "stopped"}

(* The confirmation is taken back, and the tool runs if it was approved.   *)
ConfirmSettled(r) ==
    /\ runs[r].pc \in Outcomes
    /\ ran' = IF At(r, "approved") THEN ran \cup {<<r, runs[r].seq>>} ELSE ran
    /\ runs' = [runs EXCEPT ![r] = [WithResult(runs[r]) EXCEPT !.confirm = 0]]
    /\ UNCHANGED <<disk, faults, entry, nruns, cl, sweeps, sums, unsent, accepted,
                   deleted, yes>>

(* All tools of the turn have their result.                                *)
ToolsDone(r) ==
    /\ At(r, "tool")
    /\ runs[r].tools = 0
    /\ saveChat(r, [runs[r] EXCEPT !.turn = @ + 1, !.pc = "turn"])
    /\ UNCHANGED loopUnchanged

(* Mutant: the error and stop paths drop what closeQueue returns.          *)
BugEnding(r) ==
    /\ At(r, "ending")
    /\ runs' = [runs EXCEPT ![r].closed = TRUE, ![r].queued = <<>>, ![r].pc = "unregister"]
    /\ UNCHANGED <<disk, faults, loopUnchanged>>

(* The deferred end: what is still queued is kept ...                      *)
Ending(r) ==
    /\ At(r, "ending")
    /\ \/ /\ runs[r].queued = <<>>
          /\ runs' = [runs EXCEPT ![r].closed = TRUE, ![r].pc = "unregister"]
          /\ UNCHANGED <<disk, faults>>
       \/ /\ runs[r].queued # <<>>
          /\ saveChat(r, [Injected(runs[r]) EXCEPT !.closed = TRUE, !.pc = "unregister"])
    /\ UNCHANGED loopUnchanged

(* What is left of a run that is over: handlers may still hold it.         *)
Over(run) ==
    [NewRun EXCEPT !.pc = "over", !.closed = TRUE,
                   !.saveErr = run.saveErr, !.hist = IF run.saveErr THEN run.hist ELSE <<>>]

(* ... the run is unregistered, and a summary of it becomes due or not.    *)
Unregister(r) ==
    /\ At(r, "unregister")
    /\ entry' = 0
    /\ runs' = [runs EXCEPT ![r] = Over(runs[r])]
    /\ \/ sums' = [sums EXCEPT ![r].st = "due"]
       \/ UNCHANGED sums
    /\ UNCHANGED <<disk, nruns, cl, sweeps, ghost, faults>>

-----------------------------------------------------------------------------
(* setChatSummary: under chatSaveMu the session is read ...                *)
SummaryLoad(r) ==
    /\ sums[r].st = "due"
    /\ SaveMuFree
    /\ sums' = [sums EXCEPT ![r] = IF Exists THEN [st |-> "writing", copy |-> disk] ELSE Idle]
    /\ UNCHANGED <<disk, entry, runs, nruns, cl, sweeps, ghost, faults>>

(* ... and written back.                                                   *)
SummaryWrite(r) ==
    /\ sums[r].st = "writing"
    /\ disk' = sums[r].copy
    /\ sums' = [sums EXCEPT ![r] = Idle]
    /\ UNCHANGED <<entry, runs, nruns, cl, sweeps, ghost, faults>>

-----------------------------------------------------------------------------
Init ==
    /\ disk = <<>>
    /\ entry = 0 /\ nruns = 0 /\ sweeps = 0 /\ faults = 0
    /\ runs = [r \in Run |-> NewRun]
    /\ cl = [c \in Client |-> Free]
    /\ sums = [r \in Run |-> Idle]
    /\ unsent = Msg
    /\ accepted = {} /\ deleted = FALSE /\ yes = {} /\ ran = {}

Handle(c) ==
    \/ SendLoad(c) \/ SendRegister(c) \/ SendReread(c) \/ SendSave(c)
    \/ LoadRun(c) \/ Queue(c) \/ answerConfirm(c) \/ Stop(c) \/ DrainStop(c)
    \/ DrainWait(c) \/ DeleteFile(c) \/ DeleteAgain(c)

Loop(r) ==
    \/ TurnTop(r) \/ compact(r) \/ ModelFails(r) \/ Panics(r) \/ PlainReply(r) \/ FinalDrain(r)
    \/ \E n \in 1..MaxTools : ToolCalls(r, n)
    \/ PlainTool(r) \/ requestConfirm(r) \/ ConfirmSettled(r) \/ ToolsDone(r)
    \/ \E o \in Outcomes : ConfirmOutcome(r, o)
    \/ Ending(r) \/ Unregister(r)

Summary(r) == SummaryLoad(r) \/ SummaryWrite(r)

Next ==
    \/ \E c \in Client : Request(c) \/ Handle(c)
    \/ \E r \in Run : Loop(r) \/ Summary(r)
    \/ Sweep \/ SweepGivesUp

Spec == Init /\ [][Next]_vars

(* Goroutines run: every loop, handler, sweep and summary takes its next   *)
(* step.  Nothing is assumed of requests: nobody need answer or stop.      *)
Fairness ==
    /\ \A r \in Run : WF_vars(Loop(r)) /\ WF_vars(Summary(r))
    /\ \A c \in Client : WF_vars(Handle(c))
    /\ WF_vars(Sweep)

FairSpec == Spec /\ Fairness

-----------------------------------------------------------------------------
(* Properties.                                                             *)

Has(s, m) == \E i \in DOMAIN s : s[i] = m

(* A Delete has removed the file: it has answered, or has still to look    *)
(* for a run.                                                              *)
Deletes == deleted \/ \E c \in Client : cl[c].op = "delete" /\ cl[c].pc = "again"

(* The file, the run under way, or a run whose failed save was announced   *)
(* holds m; nothing is owed to a session that was deleted.                 *)
Kept(m) ==
    \/ Deletes
    \/ Has(disk, m)
    \/ entry # 0 /\ (Has(runs[entry].hist, m) \/ Has(runs[entry].queued, m))
    \/ \E r \in Run : runs[r].saveErr /\ Has(runs[r].hist, m)

(* No accepted message is dropped: not one queued while the last turn ends,*)
(* the run is stopped, errs or panics, nor one sent as another run ends    *)
(* (chatrun.go, startChatRun: "nothing accepted is silently dropped").     *)
AcceptedKept == \A m \in accepted : Kept(m)

(* A reply that ended by itself answered everything: its last message is   *)
(* the model's and nothing was queued behind it (takeQueued: "a message    *)
(* can never land accepted-but-unseen").                                   *)
CleanEndAnswered ==
    \A r \in Run : runs[r].clean /\ ~At(r, "over") =>
        runs[r].queued = <<>> /\ runs[r].hist[Len(runs[r].hist)] = Reply

(* No writer pushes stale history back: while the file exists it only      *)
(* grows at its end, whichever of runs and summaries write it.             *)
HistoryAppendOnly ==
    [][disk # Gone /\ disk' # Gone => \E n \in 0..Len(disk') : SubSeq(disk', 1, n) = disk]_vars

(* A destructive tool runs only if a user approved that very confirmation  *)
(* ("a stale answer can't approve a later confirmation").                  *)
RanOnlyApproved == ran \subseteq yes

(* Every run ends, whoever is there to answer: the registration goes away  *)
(* ("a run always terminates on its own").                                 *)
RunsEnd == \A r \in Run : []<>(entry # r)

(* What was accepted reaches the file, unless a failed save was announced  *)
(* or the session is deleted.                                              *)
AcceptedSaved ==
    \A m \in Msg :
        []<>(m \in accepted => \/ disk = Gone \/ deleted
                              \/ Has(disk, m)
                              \/ \E r \in Run : runs[r].saveErr)

=============================================================================
