------------------------------ MODULE MCWaits ------------------------------
(* What somebody waits for, for TLC: a reply in Chat (ChatRun), a frame of  *)
(* a Mac's screen (VncPace), a Terminal's window (Terminals), an update    *)
(* (SoftwareUpdate), a dictionary entry (DictFlights) and the setup of an  *)
(* emulated Mac (MacSetup).  The parts share no state: a behaviour runs    *)
(* the one sys names.                                                      *)
EXTENDS MacSetup, Sequences, TLC

CONSTANTS c1, m1, m2, Gone, d1, d2

VARIABLES sys

VARIABLES stored, entry, runs, nruns, handlers, sweeps, sums, unsent, accepted,
          deleted, yes, ran, faults

VARIABLES vq, sq, down, held, pending, v, s, passthrough, credits, asked, full,
          due, got, unsolicited, oddV, oddS

VARIABLES served, live, closed, loaded, out, stream, ch, want, asks, answers, new,
          win, box, news, user, breaks

VARIABLES newest, binary, version, latest, launched, job, work, record, post,
          owed, posts, fails

VARIABLES entries, typos, flight, listed, reader

-----------------------------------------------------------------------------
(* One reply with tools and confirmations, answered, stopped, drained or   *)
(* left alone.                                                             *)
Chat == INSTANCE ChatRun
          WITH Msg <- {m1, m2}, Client <- {c1},
               Ops <- {"send", "queue", "answer", "stop", "drain"}, MaxRuns <- 1,
               MaxTurns <- 2, MaxTools <- 1, MaxFaults <- 1, cl <- handlers,
               disk <- stored

Vnc == INSTANCE VncPace
          WITH InFlight <- 3, MaxCredits <- 2, MaxUnsolicited <- 1, MaxOdd <- 1

Terms == INSTANCE Terminals
          WITH Desk <- {d1, d2}, MaxTerms <- 1, Cap <- 1, MaxNews <- 1,
               MaxUser <- 1, MaxFaults <- 1, up <- served, faults <- breaks

Soft == INSTANCE SoftwareUpdate
          WITH Client <- {d1, d2}, MaxRelease <- 3, MaxPosts <- 3, MaxFails <- 2,
               disk <- binary

(* Two readers type two spellings; the spelling pass may take each for the *)
(* other, one for itself, and may not know the other.                      *)
Text == {"typo", "word"}
Dict == INSTANCE DictFlights
          WITH Reader <- {1, 2}, MaxFlights <- 2,
               Verdicts <- [t \in Text |-> IF t = "typo" THEN {"word", "unknown"} ELSE Text]

ChatVars == <<stored, entry, runs, nruns, handlers, sweeps, sums, unsent, accepted,
              deleted, yes, ran, faults>>
VncVars  == <<vq, sq, down, held, pending, v, s, passthrough, credits, asked, full,
              due, got, unsolicited, oddV, oddS>>
TermVars == <<served, live, closed, loaded, out, stream, ch, want, asks, answers,
              new, win, box, news, user, breaks>>
SoftVars == <<newest, binary, version, latest, launched, job, work, record, post,
              owed, posts, fails>>
DictVars == <<entries, typos, flight, listed, reader>>
AllVars  == <<sys, ChatVars, VncVars, TermVars, SoftVars, DictVars, vars>>

-----------------------------------------------------------------------------
(* Where a part may start in several states, one stands in while another   *)
(* part runs.  The dictionary starts empty, or with each spelling read as  *)
(* the other before.                                                       *)
AllInit ==
    /\ sys \in {"chat", "vnc", "terminals", "update", "dict", "macs"}
    /\ Chat!Init /\ Vnc!Init /\ Terms!Init /\ Soft!Init /\ Dict!Init /\ Init
    /\ sys # "vnc" => ~passthrough /\ due = 0
    /\ sys # "update" => newest = 1
    /\ entries = {} /\ (typos["typo"] = "none") = (typos["word"] = "none")
    /\ sys # "dict" => typos["word"] = "none"
    /\ sys # "macs" => runtime = "none"

AllNext ==
    /\ UNCHANGED sys
    /\ \/ /\ sys = "chat" /\ Chat!Next
          /\ UNCHANGED <<VncVars, TermVars, SoftVars, DictVars, vars>>
       \/ /\ sys = "vnc" /\ Vnc!Next
          /\ UNCHANGED <<ChatVars, TermVars, SoftVars, DictVars, vars>>
       \/ /\ sys = "terminals" /\ Terms!Next
          /\ UNCHANGED <<ChatVars, VncVars, SoftVars, DictVars, vars>>
       \/ /\ sys = "update" /\ Soft!Next
          /\ UNCHANGED <<ChatVars, VncVars, TermVars, DictVars, vars>>
       \/ /\ sys = "dict" /\ Dict!Next
          /\ UNCHANGED <<ChatVars, VncVars, TermVars, SoftVars, vars>>
       \/ /\ sys = "macs" /\ Next
          /\ UNCHANGED <<ChatVars, VncVars, TermVars, SoftVars, DictVars>>

(* Each module's Fairness, for its part.                                   *)
AllFairness ==
    /\ WF_ChatVars(sys = "chat" /\ Chat!Loop(1)) /\ WF_ChatVars(sys = "chat" /\ Chat!Summary(1))
    /\ WF_ChatVars(sys = "chat" /\ Chat!Handle(c1)) /\ WF_ChatVars(sys = "chat" /\ Chat!Sweep)
    /\ WF_VncVars(sys = "vnc" /\ Vnc!ViewerSide) /\ WF_VncVars(sys = "vnc" /\ Vnc!ServerSide)
    /\ WF_VncVars(sys = "vnc" /\ Vnc!Receive) /\ WF_VncVars(sys = "vnc" /\ Vnc!Request)
    /\ WF_VncVars(sys = "vnc" /\ Vnc!Answer)
    /\ WF_TermVars(sys = "terminals" /\ Terms!DaemonUp)
    /\ \A d \in {d1, d2} :
         /\ WF_TermVars(sys = "terminals" /\ Terms!PageSteps(d))
         /\ WF_TermVars(sys = "terminals" /\ Terms!LinkSteps(d, 1))
         /\ WF_TermVars(sys = "terminals" /\ Terms!BoxSteps(d, 1))
    /\ WF_SoftVars(sys = "update" /\ Soft!Installer)
    /\ WF_SoftVars(sys = "update" /\ Soft!updateRun)
    /\ WF_SoftVars(sys = "update" /\ Soft!updateRestart)
    /\ WF_SoftVars(sys = "update" /\ (Soft!Restarted \/ Soft!GivesUp))
    /\ \A f \in 1..2 : WF_DictVars(sys = "dict" /\ f \in Dict!Flights /\ Dict!Work(f))

AllSpec == AllInit /\ [][AllNext]_AllVars /\ AllFairness

-----------------------------------------------------------------------------
(* A tool that needs one runs only with its own confirmation.              *)
RanOnlyApproved == Chat!RanOnlyApproved

(* Every reply ends, whoever is there to answer.                           *)
RunsEnd == Chat!RunsEnd

(* What was accepted reaches the file.                                     *)
AcceptedSaved == Chat!AcceptedSaved

(* The relay: whatever unreadable messages and updates cross, a viewer     *)
(* that asks again for each frame is sent another.                         *)
FramesKeepComing == []<>(sys # "vnc") \/ Vnc!FramesKeepComing

(* A Terminal's window does not outlive its session, in a browser that is  *)
(* signed in.                                                              *)
GoneWindowsClose == Terms!GoneWindowsClose

(* An update asked for with a restart ends in one, or in a failure that is *)
(* shown.                                                                  *)
RestartHonored == Soft!RestartHonored

(* Every dictionary session comes to its end, but for two that follow each *)
(* other.                                                                  *)
FlightsEnd == Dict!FlightsEnd
=============================================================================
