------------------------------- MODULE VncPace -------------------------------
(***************************************************************************)
(* The relay between a browser's VNC viewer and an emulator's VNC server   *)
(* (internal/vncpace): one goroutine per direction, the viewer's requests  *)
(* kept as credits, one request of the relay's own waiting at the server,  *)
(* and the switch, by either goroutine at any message, to copying what     *)
(* comes as it is.  A message is a request or an update; what else passes  *)
(* matters only when the relay cannot read it ("odd").                     *)
(***************************************************************************)
EXTENDS Naturals, Sequences

CONSTANTS InFlight,       \* requests the viewer keeps out (framesInFlight)
          MaxCredits,
          MaxUnsolicited, \* updates the server sends unasked (cursor, size)
          MaxOdd          \* messages the relay cannot read, per direction

VARIABLES vq, sq, down,   \* viewer -> relay, server -> relay, relay -> viewer
          held,           \* updates in vw, not flushed
          pending,        \* request at the server: "none", "inc", "full"
          v, s,           \* the goroutines: [pc, req]
          passthrough, credits, asked, full,
          due,            \* requests the viewer has yet to send
          got,            \* updates received, mod 2
          unsolicited, oddV, oddS

chans == <<vq, sq, down, held, pending>>
relay == <<passthrough, credits, asked, full>>
ghost == <<due, got, unsolicited, oddV, oddS>>
vars  == <<chans, relay, v, s, ghost>>

Reading == [pc |-> "read", req |-> "none"]
Copying == [pc |-> "copy", req |-> "none"]

\* A handshake the relay reads through, or gives up on and copies.
Init ==
    /\ vq = <<"full">> /\ sq = <<>> /\ down = 0 /\ held = 0 /\ pending = "none"
    /\ \/ passthrough = FALSE /\ v = Reading /\ s = Reading
       \/ passthrough = TRUE /\ v = Copying /\ s = Copying
    /\ credits = 0 /\ asked = FALSE /\ full = FALSE
    /\ due \in 0..(InFlight - 1) /\ got = 0
    /\ unsolicited = 0 /\ oddV = 0 /\ oddS = 0

-----------------------------------------------------------------------------
(* What both goroutines call; next is the goroutine's next state. *)

\* ask: one request of the relay's own, when the viewer wants an update and
\* none waits at the server.
ask(next) ==
    IF passthrough \/ asked \/ credits = 0
      THEN next = Reading /\ UNCHANGED <<asked, full>>
      ELSE /\ next = [pc |-> "write", req |-> IF full THEN "full" ELSE "inc"]
           /\ asked' = TRUE /\ full' = FALSE

\* stop: copying from here on, after one request if the viewer waits for an
\* update that is not asked for.
BugStop(next) ==
    /\ passthrough' = TRUE
    /\ next = Copying
    /\ UNCHANGED <<credits, asked, full>>

stop(next) ==
    /\ passthrough' = TRUE
    /\ next = [pc |-> "copy",
               req |-> IF ~passthrough /\ credits > 0 /\ ~asked
                         THEN IF full THEN "full" ELSE "inc" ELSE "none"]
    /\ UNCHANGED <<credits, asked, full>>

\* The server keeps one request; a whole-screen one outlasts an incremental one.
toServer(req) ==
    pending' = IF "full" \in {req, pending} THEN "full" ELSE req

-----------------------------------------------------------------------------
(* fromViewer *)

viewerMessage ==
    /\ v.pc = "read" /\ vq /= <<>>
    /\ vq' = Tail(vq)
    /\ CASE Head(vq) = "odd" ->
              v' = [v EXCEPT !.pc = "stop"] /\ UNCHANGED relay
         [] Head(vq) /= "odd" /\ passthrough ->
              v' = [pc |-> "write", req |-> Head(vq)] /\ UNCHANGED relay
         [] OTHER ->
              /\ credits' = IF credits < MaxCredits THEN credits + 1 ELSE credits
              /\ full' = (full \/ Head(vq) = "full")
              /\ v' = [v EXCEPT !.pc = "ask"] /\ UNCHANGED <<passthrough, asked>>
    /\ UNCHANGED <<sq, down, held, pending, s, ghost>>

ViewerAsk ==
    /\ v.pc = "ask" /\ ask(v')
    /\ UNCHANGED <<chans, passthrough, credits, s, ghost>>

ViewerStop ==
    /\ v.pc = "stop" /\ stop(v')
    /\ UNCHANGED <<chans, s, ghost>>

ViewerWrite ==
    /\ v.req /= "none" /\ toServer(v.req)
    /\ v' = [pc |-> IF v.pc = "copy" THEN "copy" ELSE "read", req |-> "none"]
    /\ UNCHANGED <<vq, sq, down, held, relay, s, due, got, unsolicited, oddV, oddS>>

copyFromViewer ==
    /\ v.pc = "copy" /\ v.req = "none" /\ vq /= <<>>
    /\ vq' = Tail(vq)
    /\ IF Head(vq) = "odd" THEN UNCHANGED pending ELSE toServer(Head(vq))
    /\ UNCHANGED <<sq, down, held, relay, v, s, due, got, unsolicited, oddV, oddS>>

-----------------------------------------------------------------------------
(* fromServer *)

\* Whether the relay can tell where the message ends: its rectangles are of
\* encodings whose length it knows how to read.
LengthKnown(m) == m /= "odd"

\* An update is read through to its end before its request counts as answered.
serverMessage ==
    /\ s.pc = "read" /\ s.req = "none" /\ sq /= <<>>
    /\ s' = [s EXCEPT !.pc = IF LengthKnown(Head(sq)) THEN "update" ELSE "stop"]
    /\ sq' = Tail(sq)
    /\ held' = held + (IF LengthKnown(Head(sq)) THEN 1 ELSE 0)
    /\ UNCHANGED <<vq, down, pending, relay, v, ghost>>

UpdateDone ==
    /\ s.pc = "update" /\ s' = [s EXCEPT !.pc = "ask"]
    /\ asked' = FALSE
    /\ credits' = IF credits > 0 THEN credits - 1 ELSE 0
    /\ UNCHANGED <<chans, passthrough, full, v, ghost>>

ServerAsk ==
    /\ s.pc = "ask"
    /\ \E next \in [pc : {"read", "write"}, req : {"none", "inc", "full"}] :
         ask(next) /\ s' = [next EXCEPT !.pc = IF @ = "read" THEN "flush" ELSE @]
    /\ UNCHANGED <<chans, passthrough, credits, v, ghost>>

ServerWrite ==
    /\ s.req /= "none" /\ toServer(s.req)
    /\ s' = [pc |-> IF s.pc = "copy" THEN "copy" ELSE "flush", req |-> "none"]
    /\ UNCHANGED <<vq, sq, down, held, relay, v, due, got, unsolicited, oddV, oddS>>

\* What was passed on leaves when nothing waits behind it.
Flush ==
    /\ s.pc = "flush" /\ s' = Reading
    /\ IF sq = <<>> THEN down' = down + held /\ held' = 0
                    ELSE UNCHANGED <<down, held>>
    /\ UNCHANGED <<vq, sq, pending, relay, v, ghost>>

ServerStop ==
    /\ s.pc = "stop" /\ stop(s')
    /\ UNCHANGED <<chans, v, ghost>>

\* The rest of the message the relay could not read, and all that follows.
copyFromServer ==
    /\ s.pc = "copy" /\ s.req = "none" /\ (sq /= <<>> \/ held > 0)
    /\ sq' = <<>> /\ held' = 0
    /\ down' = down + held + Len(SelectSeq(sq, LAMBDA m : m = "update"))
    /\ UNCHANGED <<vq, pending, relay, v, s, ghost>>

-----------------------------------------------------------------------------
(* The viewer asks again for each update it gets; the server answers. *)

Receive ==
    /\ down > 0 /\ down' = down - 1
    /\ got' = 1 - got /\ due' = due + 1
    /\ UNCHANGED <<vq, sq, held, pending, relay, v, s, unsolicited, oddV, oddS>>

Request ==
    /\ due > 0 /\ due' = due - 1 /\ vq' = Append(vq, "inc")
    /\ UNCHANGED <<sq, down, held, pending, relay, v, s, got,
                   unsolicited, oddV, oddS>>

ViewerOdd ==
    /\ oddV < MaxOdd /\ oddV' = oddV + 1 /\ vq' = Append(vq, "odd")
    /\ UNCHANGED <<sq, down, held, pending, relay, v, s, due, got,
                   unsolicited, oddS>>

Answer ==
    /\ pending /= "none" /\ pending' = "none" /\ sq' = Append(sq, "update")
    /\ UNCHANGED <<vq, down, held, relay, v, s, ghost>>

Unasked ==
    /\ unsolicited < MaxUnsolicited /\ unsolicited' = unsolicited + 1
    /\ sq' = Append(sq, "update")
    /\ UNCHANGED <<vq, down, held, pending, relay, v, s, due, got, oddV, oddS>>

ServerOdd ==
    /\ oddS < MaxOdd /\ oddS' = oddS + 1 /\ sq' = Append(sq, "odd")
    /\ UNCHANGED <<vq, down, held, pending, relay, v, s, due, got,
                   unsolicited, oddV>>

ViewerSide == viewerMessage \/ ViewerAsk \/ ViewerStop \/ ViewerWrite \/ copyFromViewer
ServerSide == serverMessage \/ UpdateDone \/ ServerAsk \/ ServerWrite \/ Flush
                \/ ServerStop \/ copyFromServer

Next == \/ ViewerSide \/ ServerSide
        \/ Receive \/ Request \/ Answer \/ Unasked \/ ViewerOdd \/ ServerOdd

Spec == Init /\ [][Next]_vars

\* Both goroutines run; the viewer reads and asks; the screen keeps changing.
Fairness == /\ WF_vars(ViewerSide) /\ WF_vars(ServerSide)
            /\ WF_vars(Receive) /\ WF_vars(Request) /\ WF_vars(Answer)
FairSpec == Spec /\ Fairness

-----------------------------------------------------------------------------
(* Properties *)

\* The picture never freezes: whenever either side meets what it cannot read,
\* and whatever the two goroutines were doing then, updates keep reaching a
\* viewer that asks again for each one.
FramesKeepComing == []<><<got' /= got>>_vars

=============================================================================
