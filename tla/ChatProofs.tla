------------------------------ MODULE ChatProofs ------------------------------
(***************************************************************************)
(* What ChatRun promises for any number of messages, handlers and replies: *)
(* a message that was accepted is not dropped, a reply that ends by itself *)
(* has answered everything, nobody writes stale history back, and a tool   *)
(* that needs a confirmation runs only under a number that was approved.   *)
(* The file is followed together with the copies that summary writers      *)
(* hold (Files): the run that is registered knows a continuation of each   *)
(* of them, so whoever writes next writes no less than what was there.     *)
(***************************************************************************)
EXTENDS ChatRun, SequenceTheorems, TLAPS

Elem == Msg \cup {Reply, Result}
List == Seq(Elem)

(* Where the loop of a run is while it is at work.                         *)
Looping == {"turn", "model", "condensed", "final", "tool", "confirm", "ending",
            "approved", "declined", "timeout", "stopped"}

RunRec == [pc : Looping \cup {"none", "reread", "unregister", "over"}, hist : List,
           queued : Seq(Msg), closed : BOOLEAN, stop : BOOLEAN, confirm : Nat, seq : Nat,
           ans : {"none", "yes", "no"}, turn : Nat, tools : Int, clean : BOOLEAN,
           saveErr : BOOLEAN]

Hand == [op : {"none", "send", "queue", "answer", "stop", "delete", "drain"},
         pc : {"idle", "load", "use", "reread", "save", "again", "wait"}, ref : Nat,
         msg : Msg \cup {Gone}, id : Nat, ok : BOOLEAN, seen : List]

Writer(r) == sums[r].st = "writing"
Held(r, m) == Has(runs[r].hist, m)

(* The types of the variables.                                             *)
Types ==
    /\ disk \in List \cup {Gone}
    /\ entry \in Nat /\ nruns \in 0..MaxRuns /\ sweeps \in Nat /\ faults \in Nat
    /\ runs \in [Run -> RunRec] /\ cl \in [Client -> Hand]
    /\ sums \in [Run -> [st : {"no", "due", "writing"}, copy : List]]
    /\ unsent \subseteq Msg /\ accepted \subseteq Msg /\ deleted \in BOOLEAN
    /\ yes \subseteq Nat \X Nat /\ ran \subseteq Run \X Nat

(* The newest run is the registered one until it is over.                  *)
Owner ==
    /\ entry \in {0, nruns}
    /\ \A r \in Run : /\ runs[r].pc = "none" <=> r > nruns
                      /\ runs[r].pc \notin {"none", "over"} <=> entry = r
                      /\ runs[r].pc = "none" => ~runs[r].saveErr

(* What a handler knows: the message of its request, the run it found, and *)
(* for a send the run it has registered and not yet launched.              *)
Hands ==
    /\ \A c \in Client :
         /\ cl[c].op \in {"send", "queue"} => cl[c].msg \in Msg
         /\ cl[c].pc = "idle" => cl[c] = Free
         /\ cl[c].pc = "load" => cl[c].op # "none"
         /\ cl[c].pc \in {"use", "wait"} /\ cl[c].op \in {"queue", "answer", "stop", "drain"} =>
              cl[c].ref \in 1..nruns
         /\ cl[c].pc \in {"reread", "save"} =>
              /\ cl[c].op = "send" /\ cl[c].ref = entry /\ entry # 0
              /\ runs[entry].pc = "reread" /\ ~runs[entry].saveErr
              /\ cl[c].pc = "reread" => runs[entry].hist = <<>>
    /\ \A c, d \in Client : {cl[c].pc, cl[d].pc} \subseteq {"reread", "save"} => c = d

(* One summary writer at a time, and only a Delete comes in between.       *)
Writers ==
    /\ \A r, q \in Run : Writer(r) /\ Writer(q) => r = q
    /\ \A r \in Run : Writer(r) => disk \in {sums[r].copy, Gone}
    /\ disk = Gone => Deletes
    /\ sweeps > 0 => deleted

(* The file, and what a writer is about to make of it.                     *)
Files == {f \in {disk} : f # Gone} \cup {sums[r].copy : r \in {q \in Run : Writer(q)}}
InFiles(m) == \A f \in Files : Has(f, m)

Prefix(f, g) == Len(f) <= Len(g) /\ \A i \in 1..Len(f) : f[i] = g[i]

(* r has read the file, and is not over.                                   *)
Loaded(r) ==
    \/ runs[r].pc \in Looping \cup {"unregister"}
    \/ \E c \in Client : cl[c].pc = "save" /\ cl[c].ref = r

(* No writer is ahead of the run that is registered.                       *)
Ahead == \A r \in Run : Loaded(r) => \A f \in Files : Prefix(f, runs[r].hist)

(* What a run holds is on file, or its failed save was announced.          *)
OnFile == \A r \in Run, m \in Msg : Held(r, m) => runs[r].saveErr \/ Deletes \/ InFiles(m)

(* Where an accepted message is.                                           *)
Taken(m) ==
    \/ Deletes
    \/ \E r \in Run : runs[r].saveErr /\ Held(r, m)
    \/ entry # 0 /\ (Held(entry, m) \/ Has(runs[entry].queued, m))
    \/ InFiles(m)

AllTaken == \A m \in accepted : Taken(m)

(* A run that unregisters takes no more messages; one that found the file  *)
(* gone still does.                                                        *)
Ends ==
    \A r \in Run :
        /\ runs[r].pc = "unregister" => runs[r].closed /\ runs[r].queued = <<>>
        /\ runs[r].pc = "over" /\ ~runs[r].closed => Deletes

LastIsReply(run) == Len(run.hist) > 0 /\ run.hist[Len(run.hist)] = Reply

CleanRun(run) ==
    /\ run.clean => /\ run.closed /\ run.queued = <<>>
                    /\ run.pc \in {"ending", "unregister"} /\ LastIsReply(run)
    /\ run.pc = "final" => LastIsReply(run)

Cleanly == \A r \in Run : CleanRun(runs[r])

(* A user approved the number i, of run r or of one before it.             *)
Approved(r, i) == \E q \in 1..r : <<q, i>> \in yes

NumberedRun(r, run) ==
    /\ run.confirm \in {0, run.seq}
    /\ run.confirm # 0 => run.ans = "none"
    /\ run.ans = "yes" => Approved(r, run.seq)
    /\ run.pc = "approved" => run.ans = "yes"

Numbers ==
    /\ \A r \in Run : NumberedRun(r, runs[r])
    /\ \A c \in Client : cl[c].op = "answer" =>
         /\ cl[c].id # 0
         /\ cl[c].ok /\ cl[c].pc = "load" => Approved(nruns, cl[c].id)
         /\ cl[c].ok /\ cl[c].pc = "use" => Approved(cl[c].ref, cl[c].id)
    /\ \A p \in ran : Approved(p[1], p[2])

(* The inductive invariant.                                                *)
IInv ==
    /\ Types /\ Owner /\ Hands /\ Writers /\ Ahead /\ OnFile /\ AllTaken /\ Ends /\ Cleanly
    /\ Numbers
-----------------------------------------------------------------------------
(* Lists of messages.                                                      *)
LEMMA Lists == Seq(Msg) \subseteq List /\ <<>> \in List /\ <<>> \in Seq(Msg)
               /\ Reply \in Elem /\ Result \in Elem /\ Gone \notin List
  BY SeqMonotonic, EmptySeq, ChatAssumption DEF List, Elem, Reply, Result

(* The empty list has no message.                                          *)
LEMMA Nothing == \A m : ~Has(<<>>, m)
  BY DEF Has

(* One more message: what Append gives.                                    *)
LEMMA Appended ==
    ASSUME NEW h \in List, NEW e \in Elem
    PROVE  /\ Append(h, e) \in List /\ Prefix(h, Append(h, e))
           /\ \A m : Has(Append(h, e), m) <=> Has(h, m) \/ m = e
           /\ Len(Append(h, e)) > 0 /\ Append(h, e)[Len(Append(h, e))] = e
<1>1. /\ Append(h, e) \in List /\ Len(Append(h, e)) = Len(h) + 1
      /\ Append(h, e)[Len(h) + 1] = e
      /\ \A i \in 1..Len(h) : Append(h, e)[i] = h[i]
  BY DEF List
<1>2. Len(h) \in Nat /\ DOMAIN h = 1..Len(h) /\ DOMAIN Append(h, e) = 1..(Len(h) + 1)
  BY <1>1, LenProperties DEF List
<1> QED BY <1>1, <1>2 DEF Prefix, Has

(* The messages of a queue behind those of a conversation.                 *)
LEMMA Joined ==
    ASSUME NEW h \in List, NEW q \in Seq(Msg)
    PROVE  /\ h \o q \in List /\ Prefix(h, h \o q)
           /\ \A m : Has(h \o q, m) <=> Has(h, m) \/ Has(q, m)
<1>1. q \in List
  BY Lists
<1>2. /\ h \o q \in List /\ Len(h \o q) = Len(h) + Len(q)
      /\ \A i \in 1..(Len(h) + Len(q)) : (h \o q)[i] = IF i <= Len(h) THEN h[i] ELSE q[i - Len(h)]
  BY <1>1, ConcatProperties DEF List
<1>3. /\ Len(h) \in Nat /\ Len(q) \in Nat /\ DOMAIN h = 1..Len(h) /\ DOMAIN q = 1..Len(q)
      /\ DOMAIN (h \o q) = 1..(Len(h) + Len(q))
  BY <1>1, <1>2, LenProperties DEF List
<1>4. \A j \in 1..Len(q) : (h \o q)[j + Len(h)] = q[j]
  BY <1>2, <1>3
<1>5. \A m : Has(h \o q, m) <=> Has(h, m) \/ Has(q, m)
  <2> SUFFICES ASSUME NEW m PROVE Has(h \o q, m) <=> Has(h, m) \/ Has(q, m)
    OBVIOUS
  <2>1. ASSUME NEW i \in 1..(Len(h) + Len(q)), (h \o q)[i] = m PROVE Has(h, m) \/ Has(q, m)
    <3>1. CASE i <= Len(h)
      BY <1>2, <1>3, <2>1, <3>1 DEF Has
    <3>2. CASE ~(i <= Len(h))
      <4>1. i - Len(h) \in 1..Len(q) /\ q[i - Len(h)] = m
        BY <1>2, <1>3, <2>1, <3>2
      <4> QED BY <1>3, <4>1 DEF Has
    <3> QED BY <3>1, <3>2
  <2>2. Has(h, m) => Has(h \o q, m)
    BY <1>2, <1>3 DEF Has
  <2>3. ASSUME NEW j \in 1..Len(q), q[j] = m PROVE Has(h \o q, m)
    <3>1. j + Len(h) \in 1..(Len(h) + Len(q))
      BY <1>3
    <3> QED BY <1>3, <1>4, <2>3, <3>1 DEF Has
  <2> QED BY <1>3, <2>1, <2>2, <2>3 DEF Has
<1> QED BY <1>2, <1>3, <1>5 DEF Prefix

(* A continuation has what it continues.                                   *)
LEMMA Prefixes ==
    ASSUME NEW f \in List, NEW g \in List, Prefix(f, g)
    PROVE  /\ \A m : Has(f, m) => Has(g, m)
           /\ \A h \in List : Prefix(g, h) => Prefix(f, h)
           /\ \E n \in 0..Len(g) : SubSeq(g, 1, n) = f
<1>1. /\ Len(f) \in Nat /\ Len(g) \in Nat /\ DOMAIN f = 1..Len(f) /\ DOMAIN g = 1..Len(g)
      /\ \A h \in List : Len(h) \in Nat
  BY LenProperties DEF List
<1>2. \A i \in 1..Len(f) : g[i] \in Elem
  BY <1>1, ElementOfSeq DEF Prefix, List
<1>3. /\ SubSeq(g, 1, Len(f)) \in List /\ Len(SubSeq(g, 1, Len(f))) = Len(f)
      /\ \A i \in 1..Len(f) : SubSeq(g, 1, Len(f))[i] = g[i]
  BY <1>1, <1>2, SubSeqProperties, Z3 DEF List
<1>4. SubSeq(g, 1, Len(f)) = f
  BY <1>1, <1>3, SeqEqual DEF Prefix, List
<1>5. \A m : Has(f, m) => Has(g, m)
  <2> SUFFICES ASSUME NEW m, NEW i \in 1..Len(f), f[i] = m PROVE Has(g, m)
    BY <1>1 DEF Has
  <2>1. i \in 1..Len(g) /\ g[i] = m
    BY <1>1 DEF Prefix
  <2> QED BY <1>1, <2>1 DEF Has
<1>6. ASSUME NEW h \in List, Prefix(g, h) PROVE Prefix(f, h)
  BY <1>1, <1>6 DEF Prefix
<1>7. Len(f) \in 0..Len(g)
  BY <1>1 DEF Prefix
<1> QED BY <1>4, <1>5, <1>6, <1>7

(* A list continues itself.                                                *)
LEMMA SelfPrefix == \A f \in List : Prefix(f, f)
  BY LenProperties DEF Prefix, List
-----------------------------------------------------------------------------
(* What a step of run r, or of a handler that has it, does to the run and  *)
(* the file: it may add to the messages and must not drop a queued one; it *)
(* saves all of them, or announces that it failed to, or adds none.        *)
Wrote(r) ==
    /\ runs' \in [Run -> RunRec] /\ \A q \in Run \ {r} : runs'[q] = runs[q]
    /\ Prefix(runs[r].hist, runs'[r].hist)
    /\ \A m \in Msg : Has(runs[r].queued, m) => Has(runs'[r].queued, m) \/ Has(runs'[r].hist, m)
    /\ \/ SaveMuFree /\ disk' = runs'[r].hist /\ ~runs'[r].saveErr
       \/ disk' = disk /\ runs'[r].saveErr
       \/ /\ disk' = disk /\ runs'[r].saveErr = runs[r].saveErr
          /\ \A m \in Msg : Has(runs'[r].hist, m) => Has(runs[r].hist, m)

(* saveChat of a run that has become run.                                  *)
LEMMA Saving ==
    ASSUME Types, NEW r \in Run, NEW run \in RunRec, saveChat(r, run),
           Prefix(runs[r].hist, run.hist),
           \A m \in Msg : Has(runs[r].queued, m) => Has(run.queued, m) \/ Has(run.hist, m)
    PROVE  /\ Wrote(r) /\ faults' \in Nat /\ disk' \in List \cup {Gone}
           /\ \E e \in BOOLEAN : runs'[r] = [run EXCEPT !.saveErr = e]
<1>0. \/ runs' = [runs EXCEPT ![r] = [run EXCEPT !.saveErr = FALSE]] /\ disk' = run.hist /\ faults' = faults
      \/ runs' = [runs EXCEPT ![r] = [run EXCEPT !.saveErr = TRUE]] /\ disk' = disk /\ faults' = faults + 1
  BY DEF saveChat, Fault
<1>1. PICK e \in BOOLEAN : /\ runs' = [runs EXCEPT ![r] = [run EXCEPT !.saveErr = e]]
                           /\ SaveMuFree /\ ((e /\ disk' = disk) \/ (~e /\ disk' = run.hist))
                           /\ faults' \in {faults, faults + 1}
  BY <1>0, Zenon DEF saveChat
<1> DEFINE n == [run EXCEPT !.saveErr = e]
<1>2. n \in RunRec /\ n.hist = run.hist /\ n.queued = run.queued /\ n.saveErr = e
  BY DEF RunRec
<1>3. runs' = [runs EXCEPT ![r] = n]
  BY <1>1
<1> HIDE DEF n
<1>4. runs' \in [Run -> RunRec] /\ runs'[r] = n /\ \A q \in Run \ {r} : runs'[q] = runs[q]
  BY <1>2, <1>3 DEF Types
<1>5. n.hist \in List
  BY <1>2 DEF RunRec
<1> QED BY <1>1, <1>2, <1>4, <1>5 DEF Wrote, Types, n

(* A step without a save.                                                  *)
LEMMA Unsaved ==
    ASSUME Types, NEW r \in Run, NEW run \in RunRec, runs' = [runs EXCEPT ![r] = run],
           disk' = disk, run.saveErr = runs[r].saveErr,
           \/ run.hist = runs[r].hist
           \/ \E e \in {Reply, Result} : run.hist = Append(runs[r].hist, e),
           \A m \in Msg : Has(runs[r].queued, m) => Has(run.queued, m)
    PROVE  Wrote(r) /\ runs'[r] = run
<1>1. runs' \in [Run -> RunRec] /\ runs'[r] = run /\ \A q \in Run \ {r} : runs'[q] = runs[q]
  BY DEF Types
<1>2. runs[r].hist \in List
  BY DEF Types, RunRec
<1>3. \A e \in {Reply, Result} : e \in Elem /\ e \notin Msg
  BY ChatAssumption DEF Elem, Reply, Result
<1>4. /\ Prefix(runs[r].hist, run.hist)
      /\ \A m \in Msg : Has(run.hist, m) => Has(runs[r].hist, m)
  <2>1. CASE run.hist = runs[r].hist
    BY <1>2, <2>1, SelfPrefix
  <2>2. CASE \E e \in {Reply, Result} : run.hist = Append(runs[r].hist, e)
    <3>1. PICK e \in {Reply, Result} : run.hist = Append(runs[r].hist, e)
      BY <2>2
    <3>2. e \in Elem /\ \A m \in Msg : m # e
      BY <1>3
    <3>3. /\ Prefix(runs[r].hist, run.hist)
          /\ \A m : Has(run.hist, m) <=> Has(runs[r].hist, m) \/ m = e
      BY <1>2, <3>1, <3>2, Appended
    <3> QED BY <3>2, <3>3
  <2> QED BY <2>1, <2>2
<1> QED BY <1>1, <1>4 DEF Wrote

(* A run that is still at work, or about to unregister.                    *)
AtWork(r, run) ==
    /\ run.pc \in Looping \cup {"unregister"}
    /\ run.pc = "unregister" => run.closed /\ run.queued = <<>>
    /\ CleanRun(run) /\ NumberedRun(r, run)

(* What a step of the loop of r does.                                      *)
LoopsOn(r) ==
    /\ Wrote(r) /\ faults' \in Nat /\ disk' \in List \cup {Gone}
    /\ UNCHANGED <<entry, nruns, cl, sweeps, sums, unsent, accepted, deleted, yes>>
    /\ runs[r].pc \in Looping /\ AtWork(r, runs[r])'
    /\ \A p \in ran' : p \in ran \/ (p = <<r, runs[r].seq>> /\ runs[r].pc = "approved")

(* A step that saves.                                                      *)
LEMMA LoopSaves ==
    ASSUME Types, NEW r \in Run, NEW run \in RunRec, saveChat(r, run), loopUnchanged' = loopUnchanged,
           Prefix(runs[r].hist, run.hist),
           \A m \in Msg : Has(runs[r].queued, m) => Has(run.queued, m) \/ Has(run.hist, m),
           runs[r].pc \in Looping, AtWork(r, run)
    PROVE  LoopsOn(r)
<1>1. /\ Wrote(r) /\ faults' \in Nat /\ disk' \in List \cup {Gone}
      /\ \E e \in BOOLEAN : runs'[r] = [run EXCEPT !.saveErr = e]
  BY Saving
<1>2. /\ runs'[r].pc = run.pc /\ runs'[r].closed = run.closed /\ runs'[r].queued = run.queued
      /\ runs'[r].clean = run.clean /\ runs'[r].hist = run.hist /\ runs'[r].confirm = run.confirm
      /\ runs'[r].seq = run.seq /\ runs'[r].ans = run.ans
  BY <1>1 DEF RunRec
<1>3. UNCHANGED <<entry, nruns, cl, sweeps, sums, unsent, accepted, deleted, yes, ran>>
  BY DEF loopUnchanged, ghost
<1>4. AtWork(r, runs[r])'
  BY <1>2, <1>3 DEF AtWork, CleanRun, NumberedRun, LastIsReply, Approved
<1> QED BY <1>1, <1>3, <1>4 DEF LoopsOn

(* A step that does not.                                                   *)
LEMMA LoopKeeps ==
    ASSUME Types, NEW r \in Run, NEW run \in RunRec, runs' = [runs EXCEPT ![r] = run],
           UNCHANGED <<disk, entry, nruns, cl, sweeps, sums, unsent, accepted, deleted, yes>>,
           faults' \in Nat, run.saveErr = runs[r].saveErr,
           \/ run.hist = runs[r].hist
           \/ \E e \in {Reply, Result} : run.hist = Append(runs[r].hist, e),
           run.queued = runs[r].queued,
           runs[r].pc \in Looping, AtWork(r, run),
           \A p \in ran' : p \in ran \/ (p = <<r, runs[r].seq>> /\ runs[r].pc = "approved")
    PROVE  LoopsOn(r)
<1>1. Wrote(r) /\ runs'[r] = run
  BY Unsaved
<1>2. AtWork(r, runs[r])'
  BY <1>1 DEF AtWork, CleanRun, NumberedRun, LastIsReply, Approved
<1> QED BY <1>1, <1>2 DEF LoopsOn, Types

(* Nothing but the place, the messages and the counts changes.             *)
Same(run, n) ==
    /\ n.queued = run.queued /\ n.closed = run.closed /\ n.confirm = run.confirm
    /\ n.seq = run.seq /\ n.ans = run.ans /\ n.clean = run.clean /\ n.saveErr = run.saveErr

(* Every action of the loop but the last.                                  *)
LEMMA LoopFacts ==
    ASSUME Types, Cleanly, Numbers, NEW r \in Run, Loop(r), ~Unregister(r)
    PROVE  LoopsOn(r)
<1>1. /\ runs[r] \in RunRec /\ runs[r].hist \in List /\ runs[r].queued \in Seq(Msg)
      /\ faults \in Nat /\ CleanRun(runs[r]) /\ NumberedRun(r, runs[r])
      /\ runs[r].turn + 1 \in Nat /\ runs[r].tools - 1 \in Int /\ runs[r].seq + 1 \in Nat
      /\ \A i \in 1..MaxTools : i \in Int
  BY DEF Types, RunRec, Cleanly, Numbers
<1>2. /\ Reply \in Elem /\ Result \in Elem /\ Prefix(runs[r].hist, runs[r].hist)
      /\ <<>> \in Seq(Msg) /\ \A m : ~Has(<<>>, m)
  BY <1>1, Lists, Nothing, SelfPrefix
<1>3. \A e \in Elem : /\ Append(runs[r].hist, e) \in List /\ Prefix(runs[r].hist, Append(runs[r].hist, e))
                      /\ Len(Append(runs[r].hist, e)) > 0
                      /\ Append(runs[r].hist, e)[Len(Append(runs[r].hist, e))] = e
  BY <1>1, Appended
<1>4. /\ runs[r].hist \o runs[r].queued \in List
      /\ Prefix(runs[r].hist, runs[r].hist \o runs[r].queued)
      /\ \A m : Has(runs[r].queued, m) => Has(runs[r].hist \o runs[r].queued, m)
  BY <1>1, Joined
<1>5. CASE TurnTop(r)
  <2>1. CASE /\ At(r, "turn") /\ loopUnchanged' = loopUnchanged /\ UNCHANGED <<disk, faults>>
             /\ \/ Goto(r, "ending")
                \/ runs[r].queued = <<>> /\ Goto(r, "model")
    <3>1. PICK t \in {"ending", "model"} : Goto(r, t)
      BY <2>1
    <3> DEFINE n == [runs[r] EXCEPT !.pc = t]
    <3>11. /\ runs' = [runs EXCEPT ![r] = n] /\ At(r, "turn")
          /\ UNCHANGED <<disk, entry, nruns, cl, sweeps, sums, unsent, accepted, deleted, yes>>
          /\ faults' \in Nat /\ \A p \in ran' : p \in ran \/ (p = <<r, runs[r].seq>> /\ runs[r].pc = "approved")
      BY <1>1, <2>1, <3>1 DEF loopUnchanged, ghost, Goto, Types, At
    <3>12. n \in RunRec /\ n.pc = t /\ n.hist = runs[r].hist /\ Same(runs[r], n)
      BY <1>1, <1>2, <1>3, <1>4 DEF RunRec, Looping, Same
    <3> HIDE DEF n
    <3>13. runs[r].pc \in Looping /\ AtWork(r, n)
      BY <1>1, <1>2, <1>3, <3>11, <3>12 DEF Looping, AtWork, CleanRun, NumberedRun, LastIsReply, CallsModel, At, Same, Outcomes
    <3> QED BY <1>1, <1>2, <3>11, <3>12, <3>13, LoopKeeps DEF Same
  <2>2. CASE /\ At(r, "turn") /\ loopUnchanged' = loopUnchanged
             /\ saveChat(r, [Injected(runs[r]) EXCEPT !.pc = "model"])
    <3> DEFINE n == [Injected(runs[r]) EXCEPT !.pc = "model"]
    <3>1. saveChat(r, n) /\ loopUnchanged' = loopUnchanged /\ At(r, "turn")
      BY <2>2 DEF Injected
    <3>2. n \in RunRec /\ n.pc = "model" /\ n.hist = runs[r].hist \o runs[r].queued /\ n.queued = <<>> /\ n.confirm = runs[r].confirm /\ n.seq = runs[r].seq /\ n.ans = runs[r].ans /\ n.clean = runs[r].clean
      BY <1>1, <1>2, <1>3, <1>4 DEF RunRec, Looping, Injected
    <3> HIDE DEF n
    <3>3. runs[r].pc \in Looping /\ AtWork(r, n)
      BY <1>1, <1>2, <1>3, <3>1, <3>2 DEF Looping, AtWork, CleanRun, NumberedRun, LastIsReply, CallsModel, At, Same
    <3> QED BY <1>1, <1>2, <1>3, <1>4, <3>1, <3>2, <3>3, LoopSaves DEF Same
  <2> QED BY <1>5, <2>1, <2>2 DEF TurnTop
<1>6. CASE compact(r)
  <2> DEFINE n == [runs[r] EXCEPT !.pc = "condensed"]
  <2>1. saveChat(r, n) /\ loopUnchanged' = loopUnchanged /\ At(r, "model")
    BY <1>6 DEF compact
  <2>2. n \in RunRec /\ n.pc = "condensed" /\ n.hist = runs[r].hist /\ Same(runs[r], n)
    BY <1>1, <1>2, <1>3, <1>4 DEF RunRec, Looping, Same
  <2> HIDE DEF n
  <2>3. runs[r].pc \in Looping /\ AtWork(r, n)
    BY <1>1, <1>2, <1>3, <2>1, <2>2 DEF Looping, AtWork, CleanRun, NumberedRun, LastIsReply, CallsModel, At, Same
  <2> QED BY <1>1, <1>2, <1>3, <1>4, <2>1, <2>2, <2>3, LoopSaves DEF Same
<1>7. CASE PlainReply(r)
  <2> DEFINE n == [runs[r] EXCEPT !.hist = Append(@, Reply), !.pc = "final"]
  <2>1. saveChat(r, n) /\ loopUnchanged' = loopUnchanged /\ CallsModel(r)
    BY <1>7 DEF PlainReply
  <2>2. n \in RunRec /\ n.pc = "final" /\ n.hist = Append(runs[r].hist, Reply) /\ Same(runs[r], n)
    BY <1>1, <1>2, <1>3, <1>4 DEF RunRec, Looping, Same
  <2> HIDE DEF n
  <2>3. runs[r].pc \in Looping /\ AtWork(r, n)
    BY <1>1, <1>2, <1>3, <2>1, <2>2 DEF Looping, AtWork, CleanRun, NumberedRun, LastIsReply, CallsModel, At, Same
  <2> QED BY <1>1, <1>2, <1>3, <1>4, <2>1, <2>2, <2>3, LoopSaves DEF Same
<1>8. CASE ToolsDone(r)
  <2> DEFINE n == [runs[r] EXCEPT !.turn = @ + 1, !.pc = "turn"]
  <2>1. saveChat(r, n) /\ loopUnchanged' = loopUnchanged /\ At(r, "tool")
    BY <1>8 DEF ToolsDone
  <2>2. n \in RunRec /\ n.pc = "turn" /\ n.hist = runs[r].hist /\ Same(runs[r], n)
    BY <1>1, <1>2, <1>3, <1>4 DEF RunRec, Looping, Same
  <2> HIDE DEF n
  <2>3. runs[r].pc \in Looping /\ AtWork(r, n)
    BY <1>1, <1>2, <1>3, <2>1, <2>2 DEF Looping, AtWork, CleanRun, NumberedRun, LastIsReply, CallsModel, At, Same
  <2> QED BY <1>1, <1>2, <1>3, <1>4, <2>1, <2>2, <2>3, LoopSaves DEF Same
<1>9. CASE ModelFails(r)
  <2>1. CASE Goto(r, "ending") /\ UNCHANGED <<disk, faults>>
    <3> DEFINE n == [runs[r] EXCEPT !.pc = "ending"]
    <3>1. /\ runs' = [runs EXCEPT ![r] = n] /\ CallsModel(r)
          /\ UNCHANGED <<disk, entry, nruns, cl, sweeps, sums, unsent, accepted, deleted, yes>>
          /\ faults' \in Nat /\ \A p \in ran' : p \in ran \/ (p = <<r, runs[r].seq>> /\ runs[r].pc = "approved")
      BY <1>1, <1>9, <2>1 DEF loopUnchanged, ghost, Goto, ModelFails, Types
    <3>2. n \in RunRec /\ n.pc = "ending" /\ n.hist = runs[r].hist /\ Same(runs[r], n)
      BY <1>1, <1>2, <1>3, <1>4 DEF RunRec, Looping, Same
    <3> HIDE DEF n
    <3>3. runs[r].pc \in Looping /\ AtWork(r, n)
      BY <1>1, <1>2, <1>3, <3>1, <3>2 DEF Looping, AtWork, CleanRun, NumberedRun, LastIsReply, CallsModel, At, Same, Outcomes
    <3> QED BY <1>1, <1>2, <3>1, <3>2, <3>3, LoopKeeps DEF Same
  <2>2. CASE saveChat(r, [runs[r] EXCEPT !.hist = Append(@, Reply), !.pc = "ending"])
    <3> DEFINE n == [runs[r] EXCEPT !.hist = Append(@, Reply), !.pc = "ending"]
    <3>1. saveChat(r, n) /\ loopUnchanged' = loopUnchanged /\ CallsModel(r)
      BY <1>9, <2>2 DEF ModelFails
    <3>2. n \in RunRec /\ n.pc = "ending" /\ n.hist = Append(runs[r].hist, Reply) /\ Same(runs[r], n)
      BY <1>1, <1>2, <1>3, <1>4 DEF RunRec, Looping, Same
    <3> HIDE DEF n
    <3>3. runs[r].pc \in Looping /\ AtWork(r, n)
      BY <1>1, <1>2, <1>3, <3>1, <3>2 DEF Looping, AtWork, CleanRun, NumberedRun, LastIsReply, CallsModel, At, Same
    <3> QED BY <1>1, <1>2, <1>3, <1>4, <3>1, <3>2, <3>3, LoopSaves DEF Same
  <2> QED BY <1>9, <2>1, <2>2 DEF ModelFails
<1>10. CASE Panics(r)
  <2> DEFINE n == [runs[r] EXCEPT !.pc = "ending"]
  <2>1. /\ runs' = [runs EXCEPT ![r] = n] /\ (CallsModel(r) \/ At(r, "tool"))
        /\ UNCHANGED <<disk, entry, nruns, cl, sweeps, sums, unsent, accepted, deleted, yes>>
        /\ faults' \in Nat /\ \A p \in ran' : p \in ran \/ (p = <<r, runs[r].seq>> /\ runs[r].pc = "approved")
    BY <1>1, <1>10 DEF loopUnchanged, ghost, Panics, Fault, Goto, Types, At
  <2>2. n \in RunRec /\ n.pc = "ending" /\ n.hist = runs[r].hist /\ Same(runs[r], n)
    BY <1>1, <1>2, <1>3, <1>4 DEF RunRec, Looping, WithResult, Same
  <2> HIDE DEF n
  <2>3. runs[r].pc \in Looping /\ AtWork(r, n)
    BY <1>1, <1>2, <1>3, <2>1, <2>2 DEF Looping, AtWork, CleanRun, NumberedRun, LastIsReply, CallsModel, At, Same, Outcomes
  <2> QED BY <1>1, <1>2, <2>1, <2>2, <2>3, LoopKeeps DEF Same
<1>11. CASE FinalDrain(r)
  <2>1. CASE /\ runs[r].queued = <<>> /\ UNCHANGED <<disk, faults>>
             /\ runs' = [runs EXCEPT ![r].closed = TRUE, ![r].clean = TRUE, ![r].pc = "ending"]
    <3> DEFINE n == [runs[r] EXCEPT !.closed = TRUE, !.clean = TRUE, !.pc = "ending"]
    <3>1. /\ runs' = [runs EXCEPT ![r] = n] /\ At(r, "final") /\ runs[r].queued = <<>>
          /\ UNCHANGED <<disk, entry, nruns, cl, sweeps, sums, unsent, accepted, deleted, yes>>
          /\ faults' \in Nat /\ \A p \in ran' : p \in ran \/ (p = <<r, runs[r].seq>> /\ runs[r].pc = "approved")
      BY <1>1, <1>11, <2>1 DEF loopUnchanged, ghost, FinalDrain, Types
    <3>2. n \in RunRec /\ n.pc = "ending" /\ n.hist = runs[r].hist /\ n.closed /\ n.queued = runs[r].queued /\ n.confirm = runs[r].confirm /\ n.seq = runs[r].seq /\ n.ans = runs[r].ans /\ n.saveErr = runs[r].saveErr
      BY <1>1, <1>2, <1>3, <1>4 DEF RunRec, Looping, WithResult
    <3> HIDE DEF n
    <3>3. runs[r].pc \in Looping /\ AtWork(r, n)
      BY <1>1, <1>2, <1>3, <3>1, <3>2 DEF Looping, AtWork, CleanRun, NumberedRun, LastIsReply, CallsModel, At, Same, Outcomes
    <3> QED BY <1>1, <1>2, <3>1, <3>2, <3>3, LoopKeeps DEF Same
  <2>2. CASE saveChat(r, [Injected(runs[r]) EXCEPT !.turn = @ + 1, !.pc = "turn"])
    <3> DEFINE n == [Injected(runs[r]) EXCEPT !.turn = @ + 1, !.pc = "turn"]
    <3>1. saveChat(r, n) /\ loopUnchanged' = loopUnchanged /\ At(r, "final")
      BY <1>11, <2>2 DEF FinalDrain
    <3>2. n \in RunRec /\ n.pc = "turn" /\ n.hist = runs[r].hist \o runs[r].queued /\ n.queued = <<>> /\ n.confirm = runs[r].confirm /\ n.seq = runs[r].seq /\ n.ans = runs[r].ans /\ n.clean = runs[r].clean
      BY <1>1, <1>2, <1>3, <1>4 DEF RunRec, Looping, Injected
    <3> HIDE DEF n
    <3>3. runs[r].pc \in Looping /\ AtWork(r, n)
      BY <1>1, <1>2, <1>3, <3>1, <3>2 DEF Looping, AtWork, CleanRun, NumberedRun, LastIsReply, CallsModel, At, Same
    <3> QED BY <1>1, <1>2, <1>3, <1>4, <3>1, <3>2, <3>3, LoopSaves DEF Same
  <2> QED BY <1>11, <2>1, <2>2 DEF FinalDrain
<1>12. ASSUME NEW i \in 1..MaxTools, ToolCalls(r, i) PROVE LoopsOn(r)
  <2> DEFINE n == [runs[r] EXCEPT !.hist = Append(@, Reply), !.tools = i, !.pc = "tool"]
  <2>1. /\ runs' = [runs EXCEPT ![r] = n] /\ CallsModel(r)
        /\ UNCHANGED <<disk, entry, nruns, cl, sweeps, sums, unsent, accepted, deleted, yes>>
        /\ faults' \in Nat /\ \A p \in ran' : p \in ran \/ (p = <<r, runs[r].seq>> /\ runs[r].pc = "approved")
    BY <1>1, <1>12 DEF loopUnchanged, ghost, ToolCalls, Types
  <2>2. n \in RunRec /\ n.pc = "tool" /\ n.hist = Append(runs[r].hist, Reply) /\ Same(runs[r], n)
    BY <1>1, <1>2, <1>3, <1>4 DEF RunRec, Looping, Same
  <2> HIDE DEF n
  <2>3. runs[r].pc \in Looping /\ AtWork(r, n)
    BY <1>1, <1>2, <1>3, <2>1, <2>2 DEF Looping, AtWork, CleanRun, NumberedRun, LastIsReply, CallsModel, At, Same, Outcomes
  <2> QED BY <1>1, <1>2, <2>1, <2>2, <2>3, LoopKeeps DEF Same
<1>13. CASE PlainTool(r)
  <2> DEFINE n == WithResult(runs[r])
  <2>1. /\ runs' = [runs EXCEPT ![r] = n] /\ At(r, "tool")
        /\ UNCHANGED <<disk, entry, nruns, cl, sweeps, sums, unsent, accepted, deleted, yes>>
        /\ faults' \in Nat /\ \A p \in ran' : p \in ran \/ (p = <<r, runs[r].seq>> /\ runs[r].pc = "approved")
    BY <1>1, <1>13 DEF loopUnchanged, ghost, PlainTool, Fault, Goto, Types, At
  <2>2. n \in RunRec /\ n.pc = "tool" /\ n.hist = Append(runs[r].hist, Result) /\ Same(runs[r], n)
    BY <1>1, <1>2, <1>3, <1>4 DEF RunRec, Looping, WithResult, Same
  <2> HIDE DEF n
  <2>3. runs[r].pc \in Looping /\ AtWork(r, n)
    BY <1>1, <1>2, <1>3, <2>1, <2>2 DEF Looping, AtWork, CleanRun, NumberedRun, LastIsReply, CallsModel, At, Same, Outcomes
  <2> QED BY <1>1, <1>2, <2>1, <2>2, <2>3, LoopKeeps DEF Same
<1>14. CASE requestConfirm(r)
  <2> DEFINE n == [runs[r] EXCEPT !.seq = @ + 1, !.confirm = runs[r].seq + 1, !.ans = "none", !.pc = "confirm"]
  <2>1. /\ runs' = [runs EXCEPT ![r] = n] /\ At(r, "tool")
        /\ UNCHANGED <<disk, entry, nruns, cl, sweeps, sums, unsent, accepted, deleted, yes>>
        /\ faults' \in Nat /\ \A p \in ran' : p \in ran \/ (p = <<r, runs[r].seq>> /\ runs[r].pc = "approved")
    BY <1>1, <1>14 DEF loopUnchanged, ghost, requestConfirm, Fault, Goto, Types, At
  <2>2. n \in RunRec /\ n.pc = "confirm" /\ n.hist = runs[r].hist /\ n.queued = runs[r].queued /\ n.closed = runs[r].closed /\ n.clean = runs[r].clean /\ n.saveErr = runs[r].saveErr /\ n.confirm = n.seq /\ n.ans = "none"
    BY <1>1, <1>2, <1>3, <1>4 DEF RunRec, Looping, WithResult, Same
  <2> HIDE DEF n
  <2>3. runs[r].pc \in Looping /\ AtWork(r, n)
    BY <1>1, <1>2, <1>3, <2>1, <2>2 DEF Looping, AtWork, CleanRun, NumberedRun, LastIsReply, CallsModel, At, Same, Outcomes
  <2> QED BY <1>1, <1>2, <2>1, <2>2, <2>3, LoopKeeps DEF Same
<1>15. CASE ConfirmSettled(r)
  <2> DEFINE n == [WithResult(runs[r]) EXCEPT !.confirm = 0]
  <2>1. /\ runs' = [runs EXCEPT ![r] = n] /\ runs[r].pc \in Outcomes
        /\ UNCHANGED <<disk, entry, nruns, cl, sweeps, sums, unsent, accepted, deleted, yes>>
        /\ faults' \in Nat /\ \A p \in ran' : p \in ran \/ (p = <<r, runs[r].seq>> /\ runs[r].pc = "approved")
    BY <1>1, <1>15 DEF loopUnchanged, ghost, ConfirmSettled, Fault, Goto, Types, At
  <2>2. n \in RunRec /\ n.pc = "tool" /\ n.hist = Append(runs[r].hist, Result) /\ n.queued = runs[r].queued /\ n.closed = runs[r].closed /\ n.clean = runs[r].clean /\ n.saveErr = runs[r].saveErr /\ n.confirm = 0 /\ n.seq = runs[r].seq /\ n.ans = runs[r].ans
    BY <1>1, <1>2, <1>3, <1>4 DEF RunRec, Looping, WithResult, Same
  <2> HIDE DEF n
  <2>3. runs[r].pc \in Looping /\ AtWork(r, n)
    BY <1>1, <1>2, <1>3, <2>1, <2>2 DEF Looping, AtWork, CleanRun, NumberedRun, LastIsReply, CallsModel, At, Same, Outcomes
  <2> QED BY <1>1, <1>2, <2>1, <2>2, <2>3, LoopKeeps DEF Same
<1>16. ASSUME NEW o \in Outcomes, ConfirmOutcome(r, o) PROVE LoopsOn(r)
  <2> DEFINE n == [runs[r] EXCEPT !.pc = o]
  <2>1. /\ runs' = [runs EXCEPT ![r] = n] /\ At(r, "confirm") /\ (o = "approved" => runs[r].ans = "yes")
        /\ UNCHANGED <<disk, entry, nruns, cl, sweeps, sums, unsent, accepted, deleted, yes>>
        /\ faults' \in Nat /\ \A p \in ran' : p \in ran \/ (p = <<r, runs[r].seq>> /\ runs[r].pc = "approved")
    BY <1>1, <1>16 DEF loopUnchanged, ghost, ConfirmOutcome, Types, Outcomes
  <2>2. n \in RunRec /\ n.pc = o /\ n.hist = runs[r].hist /\ Same(runs[r], n)
    BY <1>1, <1>2, <1>3, <1>4 DEF RunRec, Looping, Same, Outcomes
  <2> HIDE DEF n
  <2>3. runs[r].pc \in Looping /\ AtWork(r, n)
    BY <1>1, <1>2, <1>3, <2>1, <2>2 DEF Looping, AtWork, CleanRun, NumberedRun, LastIsReply, CallsModel, At, Same, Outcomes
  <2> QED BY <1>1, <1>2, <2>1, <2>2, <2>3, LoopKeeps DEF Same
<1>17. CASE Ending(r)
  <2>1. CASE /\ runs[r].queued = <<>> /\ UNCHANGED <<disk, faults>>
             /\ runs' = [runs EXCEPT ![r].closed = TRUE, ![r].pc = "unregister"]
    <3> DEFINE n == [runs[r] EXCEPT !.closed = TRUE, !.pc = "unregister"]
    <3>1. /\ runs' = [runs EXCEPT ![r] = n] /\ At(r, "ending") /\ runs[r].queued = <<>>
          /\ UNCHANGED <<disk, entry, nruns, cl, sweeps, sums, unsent, accepted, deleted, yes>>
          /\ faults' \in Nat /\ \A p \in ran' : p \in ran \/ (p = <<r, runs[r].seq>> /\ runs[r].pc = "approved")
      BY <1>1, <1>17, <2>1 DEF loopUnchanged, ghost, Ending, Types
    <3>2. n \in RunRec /\ n.pc = "unregister" /\ n.hist = runs[r].hist /\ n.closed /\ n.clean = runs[r].clean /\ n.queued = runs[r].queued /\ n.confirm = runs[r].confirm /\ n.seq = runs[r].seq /\ n.ans = runs[r].ans /\ n.saveErr = runs[r].saveErr
      BY <1>1, <1>2, <1>3, <1>4 DEF RunRec, Looping, WithResult
    <3> HIDE DEF n
    <3>3. runs[r].pc \in Looping /\ AtWork(r, n)
      BY <1>1, <1>2, <1>3, <3>1, <3>2 DEF Looping, AtWork, CleanRun, NumberedRun, LastIsReply, CallsModel, At, Same, Outcomes
    <3> QED BY <1>1, <1>2, <3>1, <3>2, <3>3, LoopKeeps DEF Same
  <2>2. CASE runs[r].queued # <<>> /\ saveChat(r, [Injected(runs[r]) EXCEPT !.closed = TRUE, !.pc = "unregister"])
    <3> DEFINE n == [Injected(runs[r]) EXCEPT !.closed = TRUE, !.pc = "unregister"]
    <3>1. saveChat(r, n) /\ loopUnchanged' = loopUnchanged /\ At(r, "ending") /\ runs[r].queued # <<>>
      BY <1>17, <2>2 DEF Ending
    <3>2. n \in RunRec /\ n.pc = "unregister" /\ n.closed /\ n.hist = runs[r].hist \o runs[r].queued /\ n.queued = <<>> /\ n.confirm = runs[r].confirm /\ n.seq = runs[r].seq /\ n.ans = runs[r].ans /\ n.clean = runs[r].clean
      BY <1>1, <1>2, <1>3, <1>4 DEF RunRec, Looping, Injected
    <3> HIDE DEF n
    <3>3. runs[r].pc \in Looping /\ AtWork(r, n)
      BY <1>1, <1>2, <1>3, <3>1, <3>2 DEF Looping, AtWork, CleanRun, NumberedRun, LastIsReply, CallsModel, At, Same
    <3> QED BY <1>1, <1>2, <1>3, <1>4, <3>1, <3>2, <3>3, LoopSaves DEF Same
  <2> QED BY <1>17, <2>1, <2>2 DEF Ending
<1> QED BY <1>5, <1>6, <1>7, <1>8, <1>9, <1>10, <1>11, <1>12, <1>13, <1>14, <1>15, <1>16, <1>17 DEF Loop
-----------------------------------------------------------------------------
(* Only the registered run has the session loaded.                         *)
LEMMA LoadedIsEntry ==
    ASSUME Types, Owner, Hands, NEW r \in Run, Loaded(r)
    PROVE  r = entry /\ entry # 0
<1>1. CASE runs[r].pc \in Looping \cup {"unregister"}
  BY <1>1 DEF Owner, Looping, Run
<1>2. CASE \E c \in Client : cl[c].pc = "save" /\ cl[c].ref = r
  BY <1>2 DEF Hands
<1> QED BY <1>1, <1>2 DEF Loaded

(* Such a step keeps what is known of the file and of the messages.        *)
LEMMA WroteFiles ==
    ASSUME Types, Owner, Hands, Writers, Ahead, OnFile, AllTaken, Types', NEW r \in Run, Wrote(r),
           Loaded(r) \/ (disk' = disk /\ runs'[r].hist = runs[r].hist),
           UNCHANGED <<sums, sweeps, deleted, entry>>, Deletes => Deletes',
           \A q \in Run : Loaded(q)' => Loaded(q),
           \A m \in accepted' : \/ m \in accepted
                                \/ /\ Has(runs'[r].hist, m) \/ Has(runs'[r].queued, m)
                                   /\ r = entry \/ Deletes'
    PROVE  Writers' /\ Ahead' /\ OnFile' /\ AllTaken'
<1>1. /\ \A q \in Run : runs[q].hist \in List /\ runs'[q].hist \in List /\ sums[q].copy \in List
      /\ disk \in List \cup {Gone} /\ Gone \notin List
  BY Lists DEF Types, RunRec
<1>2. /\ \A q \in Run \ {r} : runs'[q] = runs[q]
      /\ Prefix(runs[r].hist, runs'[r].hist)
      /\ \A m \in Msg : Has(runs[r].queued, m) => Has(runs'[r].queued, m) \/ Has(runs'[r].hist, m)
      /\ \/ SaveMuFree /\ disk' = runs'[r].hist /\ ~runs'[r].saveErr
         \/ disk' = disk /\ runs'[r].saveErr
         \/ /\ disk' = disk /\ runs'[r].saveErr = runs[r].saveErr
            /\ \A m \in Msg : Has(runs'[r].hist, m) => Has(runs[r].hist, m)
  BY DEF Wrote
<1>3. \A f \in Files : f \in List
  BY <1>1 DEF Files
<1>4. \A m : Has(runs[r].hist, m) => Has(runs'[r].hist, m)
  BY <1>1, <1>2, Prefixes
<1>5. disk' = disk => Files' = Files
  BY DEF Files, Writer
<1>6. ASSUME SaveMuFree, disk' = runs'[r].hist PROVE Files' = {runs'[r].hist}
  BY <1>1, <1>6 DEF Files, Writer, SaveMuFree
<1>7. Files = {} => Deletes
  BY DEF Files, Writers
<1>8. ASSUME NEW m, InFiles(m) PROVE Deletes \/ InFiles(m)'
  <2>1. CASE disk' = disk
    BY <1>5, <1>8, <2>1 DEF InFiles
  <2>2. CASE Loaded(r) /\ SaveMuFree /\ disk' = runs'[r].hist /\ Files # {}
    <3>1. PICK f \in Files : Has(f, m) /\ Prefix(f, runs[r].hist)
      BY <1>8, <2>2 DEF InFiles, Ahead
    <3>2. Has(runs'[r].hist, m)
      BY <1>1, <1>3, <1>4, <3>1, Prefixes
    <3> QED BY <1>6, <2>2, <3>2 DEF InFiles
  <2> QED BY <1>2, <1>7, <2>1, <2>2
<1>9. Writers'
  <2>1. \A q \in Run : Writer(q)' <=> Writer(q)
    BY DEF Writer
  <2>2. \A q \in Run : Writer(q) => disk' \in {sums[q].copy, Gone}
    BY <1>2 DEF Writers, SaveMuFree, Writer
  <2>3. disk' = Gone => Deletes'
    BY <1>1, <1>2 DEF Writers
  <2> QED BY <2>1, <2>2, <2>3 DEF Writers
<1>10. Ahead'
  <2> SUFFICES ASSUME NEW q \in Run, Loaded(q), NEW f \in Files' PROVE Prefix(f, runs'[q].hist)
    BY DEF Ahead
  <2>1. q = entry /\ (Loaded(r) => r = entry)
    BY LoadedIsEntry
  <2>2. CASE q = r /\ disk' = disk
    <3>1. f \in Files /\ f \in List /\ Prefix(f, runs[r].hist)
      BY <1>3, <1>5, <2>2 DEF Ahead
    <3> QED BY <1>1, <1>2, <2>2, <3>1, Prefixes
  <2>3. CASE q = r /\ SaveMuFree /\ disk' = runs'[r].hist
    BY <1>1, <1>6, <2>3, SelfPrefix
  <2>4. CASE q # r
    BY <1>2, <1>5, <2>1, <2>4 DEF Ahead
  <2> QED BY <1>2, <2>2, <2>3, <2>4
<1>11. OnFile'
  <2> SUFFICES ASSUME NEW q \in Run, NEW m \in Msg, Held(q, m)'
               PROVE  runs'[q].saveErr \/ Deletes' \/ InFiles(m)'
    BY DEF OnFile
  <2>1. CASE Held(q, m) /\ runs'[q].saveErr = runs[q].saveErr
    BY <1>8, <2>1 DEF OnFile
  <2>2. CASE q = r /\ SaveMuFree /\ disk' = runs'[r].hist
    BY <1>6, <2>2 DEF InFiles, Held
  <2> QED BY <1>2, <2>1, <2>2 DEF Held
<1>12. AllTaken'
  <2> SUFFICES ASSUME NEW m \in accepted' PROVE Taken(m)'
    BY DEF AllTaken
  <2>0. m \in Msg /\ entry' = entry /\ r # 0
    BY DEF Types, Run
  <2>1. ASSUME NEW q \in Run, runs[q].saveErr, Held(q, m) PROVE Taken(m)'
    <3>1. CASE q = r /\ SaveMuFree /\ disk' = runs'[r].hist
      BY <1>4, <1>6, <2>1, <3>1 DEF InFiles, Taken, Held
    <3>2. CASE runs'[q].saveErr
      BY <1>2, <1>4, <2>1, <3>2 DEF Taken, Held
    <3> QED BY <1>2, <2>1, <3>1, <3>2
  <2>2. CASE entry # 0 /\ (Held(entry, m) \/ Has(runs[entry].queued, m))
    <3>1. CASE entry = r
      BY <1>2, <1>4, <2>0, <2>2, <3>1 DEF Taken, Held
    <3>2. CASE entry # r
      <4>1. entry \in Run
        BY <2>2 DEF Owner, Types, Run
      <4> QED BY <1>2, <2>0, <2>2, <3>2, <4>1 DEF Taken, Held
    <3> QED BY <3>1, <3>2
  <2>3. CASE Deletes \/ InFiles(m)
    BY <1>8, <2>3 DEF Taken
  <2>4. CASE m \notin accepted
    BY <2>0, <2>4 DEF Taken, Held
  <2> QED BY <2>1, <2>2, <2>3, <2>4 DEF AllTaken, Taken
<1> QED BY <1>9, <1>10, <1>11, <1>12
-----------------------------------------------------------------------------
(* The runs are where they were, with the same messages.                   *)
Still ==
    /\ runs' \in [Run -> RunRec]
    /\ \A q \in Run : /\ runs'[q].pc = runs[q].pc /\ runs'[q].hist = runs[q].hist
                      /\ runs'[q].saveErr = runs[q].saveErr /\ runs'[q].closed = runs[q].closed
                      /\ runs'[q].clean = runs[q].clean

(* A step that only takes from what can come on file.                      *)
LEMMA FewerFiles ==
    ASSUME Types, Ahead, OnFile, AllTaken, Ends, Cleanly, Still, \A q \in Run : runs'[q].queued = runs[q].queued,
           Files' \subseteq Files, UNCHANGED <<entry, accepted>>, Deletes => Deletes', entry \in Run \cup {0},
           \A q \in Run : Loaded(q)' => Loaded(q)
    PROVE  Ahead' /\ OnFile' /\ AllTaken' /\ Ends' /\ Cleanly'
<1>1. \A m : InFiles(m) => InFiles(m)'
  BY DEF InFiles
<1>2. Ahead'
  BY DEF Ahead, Still
<1>3. OnFile'
  BY <1>1 DEF OnFile, Held, Still
<1>4. AllTaken'
  <2> SUFFICES ASSUME NEW m \in accepted, Taken(m) PROVE Taken(m)'
    BY DEF AllTaken
  <2>1. \A q \in Run : runs[q].saveErr /\ Held(q, m) => runs'[q].saveErr /\ Held(q, m)'
    BY DEF Held, Still
  <2>2. entry # 0 => (Held(entry, m) <=> Held(entry, m)') /\ runs'[entry].queued = runs[entry].queued
    BY DEF Held, Still
  <2> QED BY <1>1, <2>1, <2>2 DEF Taken
<1>5. Ends' /\ Cleanly'
  BY DEF Ends, Cleanly, CleanRun, LastIsReply, Still
<1> QED BY <1>2, <1>3, <1>4, <1>5

(* A handler goes on or is done; no send is between its registration and   *)
(* the launch of its run.                                                  *)
LEMMA HandStep ==
    ASSUME Types, Owner, Hands, NEW c \in Client, NEW h \in Hand, cl' = [cl EXCEPT ![c] = h], Still,
           UNCHANGED <<entry, nruns>>, h.pc \notin {"reread", "save"},
           h = Free \/ /\ h.op # "none" /\ h.pc # "idle"
                       /\ h.op \in {"send", "queue"} => h.msg \in Msg
                       /\ h.pc \in {"use", "wait"} /\ h.op \in {"queue", "answer", "stop", "drain"} =>
                            h.ref \in 1..nruns,
           deleted => deleted', cl[c].pc # "again" \/ deleted'
    PROVE  /\ Owner' /\ Hands' /\ cl' \in [Client -> Hand] /\ entry \in Run \cup {0}
           /\ \A q \in Run : Loaded(q)' => Loaded(q)
           /\ Deletes => Deletes'
<1>1. /\ cl' \in [Client -> Hand] /\ cl'[c] = h /\ \A d \in Client \ {c} : cl'[d] = cl[d]
  BY DEF Types
<1>2. entry \in Run \cup {0}
  BY DEF Types, Owner, Run
<1>3. Owner'
  BY DEF Owner, Still
<1>4. \A q \in Run : Loaded(q)' => Loaded(q)
  BY <1>1 DEF Loaded, Still
<1>5. Deletes => Deletes'
  BY <1>1 DEF Deletes
<1>6. Hands'
  <2>1. ASSUME NEW d \in Client
        PROVE  /\ cl'[d].op \in {"send", "queue"} => cl'[d].msg \in Msg
               /\ cl'[d].pc = "idle" => cl'[d] = Free
               /\ cl'[d].pc = "load" => cl'[d].op # "none"
               /\ cl'[d].pc \in {"use", "wait"} /\ cl'[d].op \in {"queue", "answer", "stop", "drain"} =>
                    cl'[d].ref \in 1..nruns
    <3>1. CASE d = c
      BY <1>1, <3>1 DEF Free
    <3>2. CASE d # c
      BY <1>1, <3>2 DEF Hands
    <3> QED BY <3>1, <3>2
  <2>2. ASSUME NEW d \in Client, cl'[d].pc \in {"reread", "save"}
        PROVE  /\ cl'[d].op = "send" /\ cl'[d].ref = entry /\ entry # 0
               /\ runs'[entry].pc = "reread" /\ ~runs'[entry].saveErr
               /\ cl'[d].pc = "reread" => runs'[entry].hist = <<>>
    <3>1. cl'[d] = cl[d] /\ d # c
      BY <1>1, <2>2
    <3>2. /\ cl'[d].op = "send" /\ cl'[d].ref = entry /\ entry # 0
          /\ runs[entry].pc = "reread" /\ ~runs[entry].saveErr
          /\ cl'[d].pc = "reread" => runs[entry].hist = <<>>
      BY <2>2, <3>1 DEF Hands
    <3> QED BY <1>2, <3>2 DEF Still
  <2>3. \A d, e \in Client : {cl'[d].pc, cl'[e].pc} \subseteq {"reread", "save"} => d = e
    <3>1. \A d \in Client : cl'[d].pc \in {"reread", "save"} => cl'[d] = cl[d]
      BY <1>1
    <3>2. \A d, e \in Client : cl[d].pc \in {"reread", "save"} /\ cl[e].pc \in {"reread", "save"} => d = e
      BY DEF Hands
    <3> QED BY <3>1, <3>2
  <2>4. UNCHANGED <<nruns, entry>>
    OBVIOUS
  <2> QED BY <2>1, <2>2, <2>3, <2>4 DEF Hands
<1> QED BY <1>1, <1>2, <1>3, <1>4, <1>5, <1>6

(* An answer in a handler's hands was approved by the user who sent it.    *)
LEMMA AnswerStep ==
    ASSUME Types, Numbers, NEW c \in Client, NEW h \in Hand, cl' = [cl EXCEPT ![c] = h],
           UNCHANGED <<nruns, ran>>, yes \subseteq yes', \A q \in Run : NumberedRun(q, runs[q])',
           h.op = "answer" => /\ h.id # 0
                              /\ h.ok /\ h.pc = "load" => Approved(nruns, h.id)'
                              /\ h.ok /\ h.pc = "use" => Approved(h.ref, h.id)'
    PROVE  Numbers'
<1>1. \A r, i : Approved(r, i) => \E q \in 1..r : <<q, i>> \in yes'
  BY DEF Approved
<1>2. ASSUME NEW d \in Client, cl'[d].op = "answer"
      PROVE  /\ cl'[d].id # 0
             /\ cl'[d].ok /\ cl'[d].pc = "load" => \E q \in 1..nruns : <<q, cl'[d].id>> \in yes'
             /\ cl'[d].ok /\ cl'[d].pc = "use" => \E q \in 1..cl'[d].ref : <<q, cl'[d].id>> \in yes'
  <2>1. CASE d = c
    <3>1. cl'[d] = h
      BY <2>1 DEF Types
    <3> QED BY <1>2, <3>1 DEF Approved
  <2>2. CASE d # c
    <3>1. cl'[d] = cl[d]
      BY <2>2 DEF Types
    <3> QED BY <1>1, <1>2, <3>1 DEF Numbers
  <2> QED BY <2>1, <2>2
<1>3. \A p \in ran' : \E q \in 1..p[1] : <<q, p[2]>> \in yes'
  BY <1>1 DEF Numbers
<1>4. nruns' = nruns
  OBVIOUS
<1> QED BY <1>2, <1>3, <1>4 DEF Numbers, Approved

(* What a handler may hold after a step.                                   *)
HandOK(h) ==
    /\ h \in Hand /\ h.pc \notin {"reread", "save"}
    /\ h = Free \/ /\ h.op # "none" /\ h.pc # "idle"
                   /\ h.op \in {"send", "queue"} => h.msg \in Msg
                   /\ h.pc \in {"use", "wait"} /\ h.op \in {"queue", "answer", "stop", "drain"} =>
                        h.ref \in 1..nruns

(* An idle handler.                                                        *)
LEMMA FreeOK == HandOK(Free) /\ Free.op = "none"
<1>1. <<>> \in List
  BY Lists
<1> QED BY <1>1 DEF HandOK, Free, Hand

(* A handler's step that leaves the runs alone.                            *)
LEMMA CallStep ==
    ASSUME IInv, NEW c \in Client, NEW h, HandOK(h), cl' = [cl EXCEPT ![c] = h], cl[c].pc # "again",
           UNCHANGED <<entry, runs, nruns, sweeps, sums, unsent, accepted, deleted, ran, faults>>,
           yes' \subseteq Nat \X Nat, yes \subseteq yes', disk' \in {disk, Gone},
           disk' # disk => h.op = "delete" /\ h.pc = "again",
           h.op = "answer" => /\ h.id # 0
                              /\ h.ok /\ h.pc = "load" => Approved(nruns, h.id)'
                              /\ h.ok /\ h.pc = "use" => Approved(h.ref, h.id)'
    PROVE  IInv'
<1>1. h \in Hand
  BY DEF HandOK
<1>2. Still /\ (\A q \in Run : runs'[q].queued = runs[q].queued)
  BY DEF IInv, Types, Still
<1>3. /\ Owner' /\ Hands' /\ cl' \in [Client -> Hand] /\ entry \in Run \cup {0}
      /\ \A q \in Run : Loaded(q)' => Loaded(q)
      /\ Deletes => Deletes'
  <2>1. Types /\ Owner /\ Hands
    BY DEF IInv
  <2> QED BY <1>1, <1>2, <2>1, HandStep DEF HandOK
<1>4. Types'
  <2>1. disk' \in List \cup {Gone}
    BY DEF IInv, Types
  <2> QED BY <1>3, <2>1 DEF IInv, Types
<1>5. Files' \subseteq Files
  BY DEF Files, Writer
<1>6. Ahead' /\ OnFile' /\ AllTaken' /\ Ends' /\ Cleanly'
  <2>1. Types /\ Ahead /\ OnFile /\ AllTaken /\ Ends /\ Cleanly
    BY DEF IInv
  <2>2. UNCHANGED <<entry, accepted>>
    OBVIOUS
  <2> QED BY <1>2, <1>3, <1>5, <2>1, <2>2, FewerFiles
<1>7. Writers'
  <2>1. disk' # disk => Deletes'
    <3>1. cl'[c] = h
      BY DEF IInv, Types
    <3> QED BY <3>1 DEF Deletes
  <2>2. disk = Gone => Deletes'
    BY <1>3 DEF IInv, Writers
  <2> QED BY <2>1, <2>2 DEF IInv, Writers, Writer
<1>8. Numbers'
  <2>1. Types /\ Numbers
    BY DEF IInv
  <2>2. \A q \in Run : NumberedRun(q, runs[q])'
    BY <2>1 DEF Numbers, NumberedRun, Approved
  <2> QED BY <1>1, <2>1, <2>2, AnswerStep
<1> QED BY <1>3, <1>4, <1>6, <1>7, <1>8 DEF IInv

(* A request arrives.                                                      *)
LEMMA BeginInv ==
    ASSUME IInv, NEW c \in Client, Request(c)
    PROVE  IInv'
<1>1. cl[c] = Free /\ cl[c].pc # "again" /\ entry \in {0, nruns} /\ unsent \subseteq Msg /\ yes \subseteq Nat \X Nat
  <2>1. cl[c] = Free
    BY DEF Request, Begin
  <2> QED BY <2>1 DEF Free, IInv, Owner, Types
<1>2. PICK op \in {"send", "queue", "answer", "stop", "delete", "drain"}, m \in Msg \cup {Gone}, id \in Nat,
           ok \in BOOLEAN :
         /\ Begin(c, op, m, id, ok)
         /\ op \in {"send", "queue"} => m \in Msg
         /\ op = "answer" => id # 0 /\ entry # 0
  <2>1. CASE \E op \in {"send", "queue"}, m \in unsent : Begin(c, op, m, 0, FALSE)
    <3>1. 0 \in Nat /\ FALSE \in BOOLEAN
      OBVIOUS
    <3> QED BY <1>1, <2>1, <3>1, Zenon
  <2>2. CASE \E op \in {"stop", "delete", "drain"} : Begin(c, op, Gone, 0, FALSE)
    BY <2>2
  <2>3. CASE entry # 0 /\ \E id \in 1..runs[entry].seq, ok \in BOOLEAN : Begin(c, "answer", Gone, id, ok)
    <3>1. PICK id \in 1..runs[entry].seq, ok \in BOOLEAN : Begin(c, "answer", Gone, id, ok)
      BY <2>3
    <3>2. id \in Nat /\ id # 0
      <4>1. entry \in Run
        BY <1>1, <2>3 DEF IInv, Types, Run
      <4>2. runs[entry].seq \in Nat
        BY <4>1 DEF IInv, Types, RunRec
      <4> QED BY <4>2
    <3> QED BY <2>3, <3>1, <3>2
  <2> QED BY <2>1, <2>2, <2>3 DEF Request
<1> DEFINE h == [Free EXCEPT !.op = op, !.pc = "load", !.msg = m, !.id = id, !.ok = ok]
<1>3. h \in Hand /\ h.op = op /\ h.pc = "load" /\ h.msg = m /\ h.id = id /\ h.ok = ok
  <2>1. <<>> \in List
    BY Lists
  <2> QED BY <1>2, <2>1 DEF Free, Hand
<1>4. /\ cl' = [cl EXCEPT ![c] = h] /\ op \in Ops
      /\ yes' = IF op = "answer" /\ ok THEN yes \cup {<<entry, id>>} ELSE yes
      /\ UNCHANGED <<disk, entry, runs, nruns, sweeps, sums, unsent, accepted, deleted, ran, faults>>
  BY <1>2 DEF Begin
<1> HIDE DEF h
<1>5. HandOK(h)
  BY <1>2, <1>3 DEF HandOK
<1>6. yes' \subseteq Nat \X Nat /\ yes \subseteq yes'
  <2>1. entry \in Nat
    BY DEF IInv, Types
  <2> QED BY <1>1, <1>2, <1>4, <2>1
<1>7. h.op = "answer" => /\ h.id # 0
                         /\ h.ok /\ h.pc = "load" => Approved(nruns, h.id)'
                         /\ h.ok /\ h.pc = "use" => Approved(h.ref, h.id)'
  <2>1. ASSUME op = "answer", ok PROVE Approved(nruns, id)'
    <3>1. nruns \in 1..nruns /\ entry = nruns
      BY <1>1, <1>2, <2>1 DEF IInv, Types
    <3>2. <<nruns, id>> \in yes'
      BY <1>4, <2>1, <3>1
    <3> QED BY <1>4, <3>1, <3>2 DEF Approved
  <2> QED BY <1>2, <1>3, <2>1 DEF Approved
<1> QED BY <1>1, <1>4, <1>5, <1>6, <1>7, CallStep

(* The steps of handlers that only load, wait, answer or remove the file.  *)
LEMMA LoadInv ==
    ASSUME IInv, NEW c \in Client, SendLoad(c) \/ LoadRun(c) \/ DrainWait(c) \/ DeleteFile(c)
    PROVE  IInv'
<1>1. /\ cl \in [Client -> Hand] /\ cl[c] \in Hand /\ disk \in List \cup {Gone} /\ yes \subseteq Nat \X Nat
      /\ entry \in {0, nruns} /\ entry \in Nat /\ nruns \in Nat
      /\ cl[c].op \in {"send", "queue"} => cl[c].msg \in Msg
  BY DEF IInv, Types, Owner, Hands
<1>2. HandOK(Free) /\ Free.op = "none"
  BY FreeOK
<1>3. ASSUME Return(c), cl[c].pc # "again",
             UNCHANGED <<disk, entry, runs, nruns, sweeps, sums, ghost, faults>>
      PROVE  IInv'
  <2>1. /\ cl' = [cl EXCEPT ![c] = Free]
        /\ UNCHANGED <<disk, entry, runs, nruns, sweeps, sums, unsent, accepted, deleted, ran, faults, yes>>
    BY <1>3 DEF Return, ghost
  <2> QED BY <1>1, <1>2, <1>3, <2>1, CallStep
<1>4. CASE SendLoad(c)
  <2>1. CASE Return(c)
    BY <1>3, <1>4, <2>1 DEF SendLoad, Loading
  <2>2. CASE Exists /\ cl' = [cl EXCEPT ![c].pc = "use", ![c].seen = disk]
    <3> DEFINE h == [cl[c] EXCEPT !.pc = "use", !.seen = disk]
    <3>1. /\ cl' = [cl EXCEPT ![c] = h] /\ cl[c].op = "send" /\ cl[c].pc = "load"
          /\ UNCHANGED <<disk, entry, runs, nruns, sweeps, sums, unsent, accepted, deleted, ran, faults, yes>>
      BY <1>1, <1>4, <2>2 DEF SendLoad, Loading, ghost
    <3>2. HandOK(h) /\ h.op = "send"
      BY <1>1, <2>2, <3>1 DEF HandOK, Hand, Exists
    <3> HIDE DEF h
    <3> QED BY <1>1, <3>1, <3>2, CallStep
  <2> QED BY <1>4, <2>1, <2>2 DEF SendLoad
<1>5. CASE LoadRun(c)
  <2>1. CASE Return(c)
    BY <1>3, <1>5, <2>1 DEF LoadRun
  <2>2. CASE /\ \/ cl[c].op \in {"queue", "answer", "stop", "drain"} /\ entry # 0
                \/ cl[c].op = "delete" /\ entry = 0
             /\ cl' = [cl EXCEPT ![c].pc = "use", ![c].ref = entry]
    <3>0. PICK h : h = [cl[c] EXCEPT !.pc = "use", !.ref = entry]
      OBVIOUS
    <3>1. /\ cl' = [cl EXCEPT ![c] = h] /\ cl[c].pc = "load"
          /\ UNCHANGED <<disk, entry, runs, nruns, sweeps, sums, unsent, accepted, deleted, ran, faults, yes>>
      BY <1>1, <1>5, <2>2, <3>0 DEF LoadRun, ghost
    <3>2. /\ h \in Hand /\ h.op = cl[c].op /\ h.pc = "use" /\ h.ref = entry /\ h.msg = cl[c].msg
          /\ h.id = cl[c].id /\ h.ok = cl[c].ok
      BY <1>1, <3>0 DEF Hand
    <3>3. HandOK(h)
      BY <1>1, <2>2, <3>2 DEF HandOK
    <3>4. h.op = "answer" => h.id # 0 /\ (h.ok => Approved(h.ref, h.id)')
      <4>1. cl[c].op = "answer" => cl[c].id # 0 /\ (cl[c].ok => Approved(nruns, cl[c].id)) /\ entry = nruns
        BY <1>1, <2>2, <3>1 DEF IInv, Numbers
      <4>2. yes' = yes
        BY <3>1
      <4> QED BY <3>2, <4>1, <4>2 DEF Approved
    <3> QED BY <1>1, <3>1, <3>2, <3>3, <3>4, CallStep
  <2> QED BY <1>5, <2>1, <2>2 DEF LoadRun
<1>6. CASE DrainWait(c)
  BY <1>3, <1>6 DEF DrainWait
<1>7. CASE DeleteFile(c)
  <2>1. CASE Return(c) /\ UNCHANGED disk
    BY <1>3, <1>7, <2>1 DEF DeleteFile, Using
  <2>2. CASE disk' = Gone /\ Step(c, "again")
    <3> DEFINE h == [cl[c] EXCEPT !.pc = "again"]
    <3>1. /\ cl' = [cl EXCEPT ![c] = h] /\ cl[c].pc = "use" /\ cl[c].op = "delete"
          /\ UNCHANGED <<entry, runs, nruns, sweeps, sums, unsent, accepted, deleted, ran, faults, yes>>
      BY <1>1, <1>7, <2>2 DEF DeleteFile, Using, Step, ghost
    <3>2. HandOK(h) /\ h.op = "delete" /\ h.pc = "again"
      BY <1>1, <3>1 DEF HandOK, Hand
    <3> HIDE DEF h
    <3> QED BY <1>1, <2>2, <3>1, <3>2, CallStep
  <2> QED BY <1>7, <2>1, <2>2 DEF DeleteFile
<1> QED BY <1>4, <1>5, <1>6, <1>7

(* A step of a handler that has found a run: it changes what the run is    *)
(* told, never where it is or what it has said.                            *)
Told(r, n) ==
    /\ n \in RunRec /\ n.pc = runs[r].pc /\ n.hist = runs[r].hist /\ n.closed = runs[r].closed
    /\ n.saveErr = runs[r].saveErr /\ n.clean = runs[r].clean
    /\ runs[r].clean \/ runs[r].pc = "unregister" => n.queued = runs[r].queued
    /\ \A m \in Msg : Has(runs[r].queued, m) => Has(n.queued, m)
    /\ NumberedRun(r, n)

(* A handler tells a run something.                                        *)
LEMMA TellStep ==
    ASSUME IInv, NEW c \in Client, NEW h, HandOK(h), h.op # "answer", cl' = [cl EXCEPT ![c] = h], cl[c].pc # "again",
           NEW r \in Run, NEW n, Told(r, n), runs' = [runs EXCEPT ![r] = n],
           UNCHANGED <<disk, entry, nruns, sweeps, sums, deleted, yes, ran, faults>>,
           unsent' \subseteq Msg, accepted' \subseteq Msg,
           \A m \in accepted' : m \in accepted \/ (Has(n.queued, m) /\ (r = entry \/ Deletes))
    PROVE  IInv'
<1>1. Types /\ Owner /\ Hands /\ Writers /\ Ahead /\ OnFile /\ AllTaken /\ Ends /\ Cleanly /\ Numbers
  BY DEF IInv
<1>2. /\ runs' \in [Run -> RunRec] /\ runs'[r] = n /\ \A q \in Run \ {r} : runs'[q] = runs[q]
  BY <1>1 DEF Types, Told
<1>3. Still
  BY <1>2 DEF Still, Told
<1>4. /\ Owner' /\ Hands' /\ cl' \in [Client -> Hand] /\ entry \in Run \cup {0}
      /\ \A q \in Run : Loaded(q)' => Loaded(q)
      /\ Deletes => Deletes'
  <2>1. h \in Hand
    BY DEF HandOK
  <2> QED BY <1>1, <1>3, <2>1, HandStep DEF HandOK
<1>5. Types'
  BY <1>1, <1>2, <1>4 DEF Types
<1>6. Wrote(r)
  <2>1. n.hist = runs[r].hist /\ n.saveErr = runs[r].saveErr /\ n \in RunRec
    BY DEF Told
  <2>2. Prefix(runs[r].hist, n.hist)
    BY <2>1, SelfPrefix DEF RunRec
  <2> QED BY <1>2, <2>1, <2>2 DEF Wrote, Told
<1>7. Writers' /\ Ahead' /\ OnFile' /\ AllTaken'
  <2>1. disk' = disk /\ runs'[r].hist = runs[r].hist
    BY <1>2 DEF Told
  <2>2. \A m \in accepted' : \/ m \in accepted
                             \/ /\ Has(runs'[r].hist, m) \/ Has(runs'[r].queued, m)
                                /\ r = entry \/ Deletes'
    BY <1>2, <1>4
  <2> QED BY <1>1, <1>4, <1>5, <1>6, <2>1, <2>2, WroteFiles
<1>8. Ends'
  BY <1>1, <1>2, <1>4 DEF Ends, Told
<1>9. Cleanly'
  BY <1>1, <1>2 DEF Cleanly, CleanRun, LastIsReply, Told
<1>10. Numbers'
  <2>1. \A q \in Run : NumberedRun(q, runs[q])'
    BY <1>1, <1>2 DEF Numbers, NumberedRun, Approved, Told
  <2>2. h \in Hand
    BY DEF HandOK
  <2> QED BY <1>1, <2>1, <2>2, AnswerStep
<1> QED BY <1>4, <1>5, <1>7, <1>8, <1>9, <1>10 DEF IInv

(* queue, answerConfirm, stop and the stop of a drain.                     *)
LEMMA TellInv ==
    ASSUME IInv, NEW c \in Client, Queue(c) \/ answerConfirm(c) \/ Stop(c) \/ DrainStop(c)
    PROVE  IInv'
<1> DEFINE r == cl[c].ref
<1>1. /\ cl[c] \in Hand /\ cl[c].pc = "use" /\ cl[c].op \in {"queue", "answer", "stop", "drain"}
      /\ r \in Run /\ r \in 1..nruns /\ runs[r].pc # "none"
  <2>1. cl[c].pc = "use" /\ cl[c].op \in {"queue", "answer", "stop", "drain"}
    BY DEF Queue, answerConfirm, Stop, DrainStop, Using
  <2>2. r \in 1..nruns /\ nruns \in 0..MaxRuns /\ MaxRuns \in Nat
    BY <2>1, ChatAssumption DEF IInv, Types, Hands
  <2>3. r \in Run /\ ~(r > nruns)
    BY <2>2 DEF Run
  <2> QED BY <2>1, <2>2, <2>3 DEF IInv, Types, Owner
<1>2. /\ runs[r] \in RunRec /\ runs[r].queued \in Seq(Msg) /\ NumberedRun(r, runs[r])
      /\ yes \subseteq Nat \X Nat /\ accepted \subseteq Msg /\ unsent \subseteq Msg
      /\ runs \in [Run -> RunRec] /\ CleanRun(runs[r])
  BY <1>1 DEF IInv, Types, RunRec, Numbers, Cleanly
<1>3. HandOK(Free) /\ Free.op = "none"
  BY FreeOK
<1> HIDE DEF r
<1>4. ASSUME Return(c), UNCHANGED <<disk, entry, runs, nruns, sweeps, sums, ghost, faults>>
      PROVE  IInv'
  <2>1. /\ cl' = [cl EXCEPT ![c] = Free] /\ cl[c].pc # "again"
        /\ UNCHANGED <<disk, entry, runs, nruns, sweeps, sums, unsent, accepted, deleted, ran, faults, yes>>
    BY <1>1, <1>4 DEF Return, ghost
  <2> QED BY <1>2, <1>3, <2>1, CallStep
<1>5. CASE Queue(c)
  <2>1. CASE runs[r].closed
    <3>1. Return(c) /\ UNCHANGED <<disk, entry, runs, nruns, sweeps, sums, ghost, faults>>
      BY <1>5, <2>1 DEF Queue, ghost, r
    <3> QED BY <1>4, <3>1
  <2>2. CASE ~runs[r].closed
    <3>1. PICK m : m = cl[c].msg
      OBVIOUS
    <3>2. m \in Msg
      BY <1>1, <1>5, <3>1 DEF IInv, Hands, Queue, Using
    <3>3. PICK n : n = [runs[r] EXCEPT !.queued = Append(@, m)]
      OBVIOUS
    <3>4. /\ runs' = [runs EXCEPT ![r] = n] /\ accepted' = accepted \cup {m} /\ unsent' \subseteq Msg
          /\ cl' = [cl EXCEPT ![c] = Free]
          /\ UNCHANGED <<disk, entry, nruns, sweeps, sums, deleted, yes, ran, faults>>
      BY <1>2, <1>5, <2>2, <3>1, <3>3 DEF Queue, Return, r
    <3>5. Append(runs[r].queued, m) \in Seq(Msg)
      BY <1>2, <3>2
    <3>6. \A w : Has(Append(runs[r].queued, m), w) <=> Has(runs[r].queued, w) \/ w = m
      BY <1>2, <3>2, Appended, Lists DEF Elem
    <3>7. n.queued = Append(runs[r].queued, m) /\ n.confirm = runs[r].confirm /\ n.seq = runs[r].seq
          /\ n.ans = runs[r].ans /\ n.pc = runs[r].pc
      BY <1>2, <3>3 DEF RunRec
    <3>8. Told(r, n)
      <4>1. n \in RunRec /\ n.hist = runs[r].hist /\ n.closed = runs[r].closed
            /\ n.saveErr = runs[r].saveErr /\ n.clean = runs[r].clean
        BY <1>2, <3>3, <3>5 DEF RunRec
      <4>2. ~runs[r].clean /\ runs[r].pc # "unregister"
        BY <1>1, <1>2, <2>2 DEF IInv, Ends, CleanRun
      <4>3. NumberedRun(r, n)
        BY <1>2, <3>7 DEF NumberedRun
      <4> QED BY <3>6, <3>7, <4>1, <4>2, <4>3 DEF Told
    <3>9. r = entry \/ Deletes
      BY <1>1, <2>2 DEF IInv, Owner, Ends
    <3>10. \A w \in accepted' : w \in accepted \/ (Has(n.queued, w) /\ (r = entry \/ Deletes))
      BY <3>4, <3>6, <3>7, <3>9
    <3>11. accepted' \subseteq Msg
      BY <1>2, <3>2, <3>4
    <3> QED BY <1>1, <1>3, <3>4, <3>8, <3>10, <3>11, TellStep
  <2> QED BY <2>1, <2>2
<1>6. CASE answerConfirm(c)
  <2>1. CASE runs[r].confirm # cl[c].id
    <3>1. Return(c) /\ UNCHANGED <<disk, entry, runs, nruns, sweeps, sums, ghost, faults>>
      BY <1>6, <2>1 DEF answerConfirm, ghost, r
    <3> QED BY <1>4, <3>1
  <2>2. CASE runs[r].confirm = cl[c].id
    <3>1. PICK n : n = [runs[r] EXCEPT !.confirm = 0, !.ans = IF cl[c].ok THEN "yes" ELSE "no"]
      OBVIOUS
    <3>2. /\ runs' = [runs EXCEPT ![r] = n] /\ cl' = [cl EXCEPT ![c] = Free]
          /\ UNCHANGED <<disk, entry, nruns, sweeps, sums, unsent, accepted, deleted, yes, ran, faults>>
      BY <1>2, <1>6, <2>2, <3>1 DEF answerConfirm, Return, ghost, r
    <3>3. /\ n \in RunRec /\ n.hist = runs[r].hist /\ n.closed = runs[r].closed /\ n.queued = runs[r].queued
          /\ n.saveErr = runs[r].saveErr /\ n.clean = runs[r].clean /\ n.pc = runs[r].pc
          /\ n.confirm = 0 /\ n.seq = runs[r].seq /\ n.ans = IF cl[c].ok THEN "yes" ELSE "no"
      BY <1>2, <3>1 DEF RunRec
    <3>4. cl[c].op = "answer"
      BY <1>6 DEF answerConfirm, Using
    <3>5. cl[c].id # 0 /\ (cl[c].ok => Approved(r, cl[c].id))
      BY <1>1, <3>4 DEF IInv, Numbers, r
    <3>6. NumberedRun(r, n)
      BY <1>2, <2>2, <3>3, <3>5 DEF NumberedRun
    <3>7. Told(r, n)
      BY <3>3, <3>6 DEF Told
    <3> QED BY <1>1, <1>2, <1>3, <3>2, <3>7, TellStep
  <2> QED BY <2>1, <2>2
<1>7. CASE Stop(c) \/ DrainStop(c)
  <2>1. PICK n : n = [runs[r] EXCEPT !.stop = TRUE]
    OBVIOUS
  <2>2. PICK h : h = IF Stop(c) THEN Free ELSE [cl[c] EXCEPT !.pc = "wait"]
    OBVIOUS
  <2>3. /\ runs' = [runs EXCEPT ![r] = n] /\ cl' = [cl EXCEPT ![c] = h]
        /\ UNCHANGED <<disk, entry, nruns, sweeps, sums, unsent, accepted, deleted, yes, ran, faults>>
    <3>1. CASE Stop(c)
      BY <1>2, <3>1, <2>1, <2>2 DEF Stop, Return, ghost, r
    <3>2. CASE DrainStop(c) /\ ~Stop(c)
      <4>1. cl' = [cl EXCEPT ![c] = h]
        BY <1>1, <3>2, <2>2 DEF DrainStop, Step, IInv, Types
      <4> QED BY <1>2, <3>2, <4>1, <2>1 DEF DrainStop, ghost, r
    <3> QED BY <1>7, <3>1, <3>2
  <2>4. /\ n \in RunRec /\ n.hist = runs[r].hist /\ n.closed = runs[r].closed /\ n.queued = runs[r].queued
        /\ n.saveErr = runs[r].saveErr /\ n.clean = runs[r].clean /\ n.pc = runs[r].pc
        /\ n.confirm = runs[r].confirm /\ n.seq = runs[r].seq /\ n.ans = runs[r].ans
    BY <1>2, <2>1 DEF RunRec
  <2>5. Told(r, n)
    BY <1>2, <2>4 DEF Told, NumberedRun
  <2>6. HandOK(h) /\ h.op # "answer"
    <3>1. CASE Stop(c)
      BY <1>3, <2>2, <3>1
    <3>2. CASE DrainStop(c) /\ ~Stop(c)
      <4>1. h = [cl[c] EXCEPT !.pc = "wait"] /\ cl[c].op = "drain"
        BY <2>2, <3>2 DEF DrainStop, Using
      <4>2. h \in Hand /\ h.op = "drain" /\ h.pc = "wait" /\ h.ref = r
        BY <1>1, <4>1 DEF Hand, r
      <4> QED BY <1>1, <4>2 DEF HandOK
    <3> QED BY <1>7, <3>1, <3>2
  <2> QED BY <1>1, <1>2, <2>3, <2>5, <2>6, TellStep
<1> QED BY <1>5, <1>6, <1>7

(* A send registers a run, or finds one.                                   *)
LEMMA RegisterInv ==
    ASSUME IInv, NEW c \in Client, SendRegister(c)
    PROVE  IInv'
<1>1. Types /\ Owner /\ Hands /\ Writers /\ Ahead /\ OnFile /\ AllTaken /\ Ends /\ Cleanly /\ Numbers
  BY DEF IInv
<1>2. /\ cl[c] \in Hand /\ cl[c].op = "send" /\ cl[c].pc = "use"
      /\ UNCHANGED <<disk, sweeps, sums, unsent, accepted, deleted, yes, ran, faults>>
  BY <1>1 DEF SendRegister, Using, ghost, Types
<1>3. CASE Return(c) /\ UNCHANGED <<entry, runs, nruns>>
  <2>1. cl' = [cl EXCEPT ![c] = Free] /\ HandOK(Free) /\ Free.op # "answer" /\ yes \subseteq Nat \X Nat
    BY <1>1, <1>3, FreeOK DEF Return, Types
  <2> QED BY <1>2, <1>3, <2>1, CallStep
<1>4. CASE /\ entry = 0 /\ nruns < MaxRuns /\ nruns' = nruns + 1 /\ entry' = nruns + 1
           /\ runs' = [runs EXCEPT ![nruns + 1] = [NewRun EXCEPT !.pc = "reread"]]
           /\ cl' = [cl EXCEPT ![c].pc = "reread", ![c].ref = nruns + 1]
  <2>1. PICK r : r = nruns + 1
    OBVIOUS
  <2>2. PICK n : n = [NewRun EXCEPT !.pc = "reread"]
    OBVIOUS
  <2>3. PICK h : h = [cl[c] EXCEPT !.pc = "reread", !.ref = r]
    OBVIOUS
  <2>4. /\ n \in RunRec /\ n.pc = "reread" /\ n.hist = <<>> /\ ~n.saveErr /\ ~n.clean /\ n.confirm = 0
        /\ n.seq = 0 /\ n.ans = "none"
    <3>1. <<>> \in List /\ <<>> \in Seq(Msg)
      BY Lists
    <3>2. PICK u : u = NewRun
      OBVIOUS
    <3>3. u \in RunRec
      BY <3>1, <3>2 DEF NewRun, RunRec
    <3>4. u.hist = <<>> /\ ~u.saveErr /\ ~u.clean /\ u.confirm = 0 /\ u.seq = 0 /\ u.ans = "none"
      BY <3>2 DEF NewRun
    <3> QED BY <2>2, <3>2, <3>3, <3>4 DEF RunRec
  <2>5. /\ r \in Run /\ r # 0 /\ r \in Nat /\ nruns \in Nat /\ r = nruns + 1 /\ r \in 1..r /\ r \in 0..MaxRuns
        /\ \A q \in Run : q > r <=> q > nruns /\ q # r
        /\ \A q : q \in 1..nruns => q \in 1..r
    BY <1>1, <1>4, <2>1, ChatAssumption DEF Types, Run
  <2>6. /\ h \in Hand /\ h.op = "send" /\ h.pc = "reread" /\ h.ref = r /\ h.msg = cl[c].msg
    BY <1>2, <2>3, <2>5 DEF Hand
  <2>7. /\ nruns' = r /\ entry' = r /\ runs' = [runs EXCEPT ![r] = n] /\ cl' = [cl EXCEPT ![c] = h]
    BY <1>1, <1>4, <2>1, <2>2, <2>3 DEF Types
  <2>8. /\ runs' \in [Run -> RunRec] /\ runs'[r] = n /\ \A q \in Run \ {r} : runs'[q] = runs[q]
        /\ cl' \in [Client -> Hand] /\ cl'[c] = h /\ \A d \in Client \ {c} : cl'[d] = cl[d]
    BY <1>1, <2>4, <2>5, <2>6, <2>7 DEF Types
  <2>9. runs[r].pc = "none" /\ ~runs[r].saveErr /\ \A d \in Client : cl[d].pc \notin {"reread", "save"}
    BY <1>1, <1>4, <2>5 DEF Owner, Hands
  <2>10. Types'
    BY <1>1, <1>2, <2>5, <2>7, <2>8 DEF Types
  <2>11. Owner'
    <3>1. \A q \in Run : q # r => runs[q].pc \in {"none", "over"}
      BY <1>1, <1>4 DEF Owner, Run
    <3> QED BY <1>1, <2>4, <2>5, <2>7, <2>8, <3>1 DEF Owner
  <2>12. Hands'
    <3>1. ASSUME NEW d \in Client
          PROVE  /\ cl'[d].op \in {"send", "queue"} => cl'[d].msg \in Msg
                 /\ cl'[d].pc = "idle" => cl'[d] = Free
                 /\ cl'[d].pc = "load" => cl'[d].op # "none"
                 /\ cl'[d].pc \in {"use", "wait"} /\ cl'[d].op \in {"queue", "answer", "stop", "drain"} =>
                      cl'[d].ref \in 1..r
      <4>1. CASE d = c
        BY <1>1, <1>2, <2>6, <2>8, <4>1 DEF Hands
      <4>2. CASE d # c
        BY <1>1, <2>5, <2>8, <4>2 DEF Hands
      <4> QED BY <4>1, <4>2
    <3>2. \A d \in Client : cl'[d].pc \in {"reread", "save"} => d = c
      BY <2>8, <2>9
    <3> QED BY <2>4, <2>5, <2>6, <2>7, <2>8, <3>1, <3>2 DEF Hands
  <2>13. Deletes => Deletes'
    BY <1>2, <2>8 DEF Deletes
  <2>14. \A q \in Run : ~Loaded(q)'
    <3>1. \A d \in Client : cl'[d].pc # "save"
      BY <2>6, <2>8, <2>9
    <3>2. \A q \in Run : runs'[q].pc \notin Looping \cup {"unregister"}
      BY <1>1, <1>4, <2>4, <2>8 DEF Owner, Looping, Run
    <3> QED BY <3>1, <3>2 DEF Loaded
  <2>15. Files' = Files /\ \A m : InFiles(m) => InFiles(m)'
    BY <1>2 DEF Files, Writer, InFiles
  <2>16. Writers'
    BY <1>1, <1>2, <2>13 DEF Writers, Writer
  <2>17. OnFile'
    BY <1>1, <2>4, <2>8, <2>13, <2>15, Nothing DEF OnFile, Held
  <2>18. AllTaken'
    <3> SUFFICES ASSUME NEW m \in accepted, Taken(m) PROVE Taken(m)'
      BY <1>1, <1>2 DEF AllTaken
    <3>1. ASSUME NEW q \in Run, runs[q].saveErr, Held(q, m) PROVE runs'[q].saveErr /\ Held(q, m)'
      BY <2>8, <2>9, <3>1 DEF Held
    <3> QED BY <1>4, <2>13, <2>15, <3>1 DEF Taken
  <2>19. Ends' /\ Cleanly'
    <3>1. \A q \in Run : CleanRun(runs'[q])
      BY <1>1, <2>4, <2>8 DEF Cleanly, CleanRun
    <3> QED BY <1>1, <2>4, <2>8, <2>13, <3>1 DEF Ends, Cleanly, CleanRun, LastIsReply
  <2>20. Numbers'
    <3>1. \A q \in Run : NumberedRun(q, runs[q])'
      BY <1>1, <1>2, <2>4, <2>8 DEF Numbers, NumberedRun, Approved
    <3>2. \A i : Approved(nruns, i) => Approved(nruns, i)'
      BY <1>2, <2>5, <2>7 DEF Approved
    <3>3. ASSUME NEW d \in Client, cl'[d].op = "answer" PROVE cl'[d] = cl[d]
      BY <2>6, <2>8, <3>3
    <3>4. yes' = yes /\ ran' = ran
      BY <1>2
    <3>5. ASSUME NEW d \in Client, cl'[d].op = "answer"
          PROVE  /\ cl'[d].id # 0
                 /\ cl'[d].ok /\ cl'[d].pc = "load" => \E q \in 1..nruns' : <<q, cl'[d].id>> \in yes'
                 /\ cl'[d].ok /\ cl'[d].pc = "use" => \E q \in 1..cl'[d].ref : <<q, cl'[d].id>> \in yes'
      <4>1. cl'[d] = cl[d]
        BY <3>3, <3>5
      <4>2. /\ cl[d].id # 0
            /\ cl[d].ok /\ cl[d].pc = "load" => Approved(nruns, cl[d].id)
            /\ cl[d].ok /\ cl[d].pc = "use" => Approved(cl[d].ref, cl[d].id)
        BY <1>1, <3>5, <4>1 DEF Numbers
      <4>3. cl[d].ok /\ cl[d].pc = "load" => \E q \in 1..nruns' : <<q, cl'[d].id>> \in yes'
        BY <2>5, <2>7, <3>4, <4>1, <4>2 DEF Approved
      <4> QED BY <3>4, <4>1, <4>2, <4>3 DEF Approved
    <3> QED BY <1>1, <3>1, <3>3, <3>4, <3>5 DEF Numbers, Approved
  <2> QED BY <2>10, <2>11, <2>12, <2>14, <2>16, <2>17, <2>18, <2>19, <2>20 DEF IInv, Ahead
<1> QED BY <1>3, <1>4 DEF SendRegister

(* The session is gone when the send reads it again.                       *)
LEMMA RereadGone ==
    ASSUME IInv, NEW c \in Client, SendReread(c), ~Exists
    PROVE  IInv'
<1>1. Types /\ Owner /\ Hands /\ Writers /\ Ahead /\ OnFile /\ AllTaken /\ Ends /\ Cleanly /\ Numbers
  BY DEF IInv
<1>2. PICK r : r = cl[c].ref
  OBVIOUS
<1>3. /\ cl[c] \in Hand /\ cl[c].op = "send" /\ cl[c].pc = "reread" /\ r = entry /\ r \in Run
      /\ runs[r].pc = "reread" /\ runs[r] \in RunRec /\ ~runs[r].saveErr
  <2>1. cl[c].pc = "reread" /\ cl[c].op = "send"
    BY DEF SendReread
  <2>2. r = entry /\ entry # 0 /\ runs[entry].pc = "reread" /\ ~runs[entry].saveErr
    BY <1>1, <1>2, <2>1 DEF Hands
  <2>3. r \in Run
    BY <1>1, <2>2 DEF Owner, Types, Run
  <2> QED BY <1>1, <2>1, <2>2, <2>3 DEF Types
<1>4. PICK n : n = [runs[r] EXCEPT !.pc = "over"]
  OBVIOUS
<1>5. /\ entry' = 0 /\ runs' = [runs EXCEPT ![r] = n] /\ cl' = [cl EXCEPT ![c] = Free]
      /\ UNCHANGED <<disk, nruns, sweeps, sums, unsent, accepted, deleted, yes, ran, faults>>
  BY <1>1, <1>2, <1>3, <1>4 DEF SendReread, Goto, Return, ghost, Types
<1>6. /\ n \in RunRec /\ n.pc = "over" /\ n.hist = runs[r].hist /\ n.queued = runs[r].queued
      /\ n.closed = runs[r].closed /\ n.clean = runs[r].clean /\ n.saveErr = runs[r].saveErr
      /\ n.confirm = runs[r].confirm /\ n.seq = runs[r].seq /\ n.ans = runs[r].ans
  BY <1>3, <1>4 DEF RunRec
<1>7. /\ runs' \in [Run -> RunRec] /\ runs'[r] = n /\ \A q \in Run \ {r} : runs'[q] = runs[q]
      /\ cl' \in [Client -> Hand] /\ cl'[c] = Free /\ \A d \in Client \ {c} : cl'[d] = cl[d]
  BY <1>1, <1>3, <1>5, <1>6, FreeOK DEF Types, HandOK
<1>8. Deletes /\ Deletes'
  <2>1. Deletes
    BY <1>1 DEF Writers, Exists
  <2> QED BY <1>3, <1>5, <1>7, <2>1 DEF Deletes
<1>9. Types'
  BY <1>1, <1>5, <1>7 DEF Types
<1>10. Owner'
  BY <1>1, <1>3, <1>5, <1>6, <1>7 DEF Owner, Run
<1>11. \A d \in Client : cl'[d].pc \notin {"reread", "save"}
  <2>1. \A d \in Client : cl[d].pc \in {"reread", "save"} => d = c
    BY <1>1, <1>3 DEF Hands
  <2> QED BY <1>7, <2>1 DEF Free
<1>12. Hands'
  <2>1. ASSUME NEW d \in Client
        PROVE  /\ cl'[d].op \in {"send", "queue"} => cl'[d].msg \in Msg
               /\ cl'[d].pc = "idle" => cl'[d] = Free
               /\ cl'[d].pc = "load" => cl'[d].op # "none"
               /\ cl'[d].pc \in {"use", "wait"} /\ cl'[d].op \in {"queue", "answer", "stop", "drain"} =>
                    cl'[d].ref \in 1..nruns
    BY <1>1, <1>7 DEF Hands, Free
  <2> QED BY <1>5, <1>11, <2>1 DEF Hands
<1>13. \A q \in Run : ~Loaded(q)'
  <2>1. \A q \in Run : runs'[q].pc \notin Looping \cup {"unregister"}
    BY <1>1, <1>3, <1>6, <1>7 DEF Owner, Looping
  <2> QED BY <1>11, <2>1 DEF Loaded
<1>14. Writers' /\ Ahead' /\ OnFile' /\ AllTaken'
  BY <1>1, <1>5, <1>8, <1>13 DEF Writers, Writer, Ahead, OnFile, AllTaken, Taken
<1>15. Ends'
  BY <1>1, <1>6, <1>7, <1>8 DEF Ends
<1>16. Cleanly'
  <2>1. CleanRun(n)
    BY <1>1, <1>3, <1>6 DEF Cleanly, CleanRun
  <2> QED BY <1>1, <1>6, <1>7, <2>1 DEF Cleanly, CleanRun, LastIsReply
<1>17. Numbers'
  <2>1. \A q \in Run : NumberedRun(q, runs[q])'
    BY <1>1, <1>5, <1>6, <1>7 DEF Numbers, NumberedRun, Approved
  <2>2. Free \in Hand /\ Free.op # "answer"
    BY FreeOK DEF HandOK
  <2> QED BY <1>1, <1>5, <2>1, <2>2, AnswerStep
<1> QED BY <1>9, <1>10, <1>12, <1>14, <1>15, <1>16, <1>17 DEF IInv

(* The session is read again: the run has what is on file, and no writer   *)
(* has anything else.                                                      *)
LEMMA RereadFile ==
    ASSUME IInv, NEW c \in Client, SendReread(c), Exists
    PROVE  IInv'
<1>1. Types /\ Owner /\ Hands /\ Writers /\ Ahead /\ OnFile /\ AllTaken /\ Ends /\ Cleanly /\ Numbers
  BY DEF IInv
<1>2. PICK r : r = cl[c].ref
  OBVIOUS
<1>3. /\ cl[c] \in Hand /\ cl[c].op = "send" /\ cl[c].pc = "reread" /\ r = entry /\ r \in Run
      /\ runs[r].pc = "reread" /\ runs[r] \in RunRec /\ ~runs[r].saveErr /\ runs[r].hist = <<>>
  <2>1. cl[c].pc = "reread" /\ cl[c].op = "send"
    BY DEF SendReread
  <2>2. r = entry /\ entry # 0 /\ runs[entry].pc = "reread" /\ ~runs[entry].saveErr /\ runs[entry].hist = <<>>
    BY <1>1, <1>2, <2>1 DEF Hands
  <2>3. r \in Run
    BY <1>1, <2>2 DEF Owner, Types, Run
  <2> QED BY <1>1, <2>1, <2>2, <2>3 DEF Types
<1>4. PICK n : n = [runs[r] EXCEPT !.hist = disk]
  OBVIOUS
<1>5. PICK h : h = [cl[c] EXCEPT !.pc = "save"]
  OBVIOUS
<1>6. /\ runs' = [runs EXCEPT ![r] = n] /\ cl' = [cl EXCEPT ![c] = h]
      /\ UNCHANGED <<disk, entry, nruns, sweeps, sums, unsent, accepted, deleted, yes, ran, faults>>
  BY <1>1, <1>2, <1>3, <1>4, <1>5 DEF SendReread, Step, ghost, Types
<1>7. disk \in List
  BY <1>1 DEF Types, Exists
<1>8. /\ n \in RunRec /\ n.pc = "reread" /\ n.hist = disk /\ n.queued = runs[r].queued
      /\ n.closed = runs[r].closed /\ n.clean = runs[r].clean /\ n.saveErr = runs[r].saveErr
      /\ n.confirm = runs[r].confirm /\ n.seq = runs[r].seq /\ n.ans = runs[r].ans
  BY <1>3, <1>4, <1>7 DEF RunRec
<1>9. h \in Hand /\ h.op = "send" /\ h.pc = "save" /\ h.ref = r /\ h.msg = cl[c].msg
  BY <1>2, <1>3, <1>5 DEF Hand
<1>10. /\ runs' \in [Run -> RunRec] /\ runs'[r] = n /\ \A q \in Run \ {r} : runs'[q] = runs[q]
       /\ cl' \in [Client -> Hand] /\ cl'[c] = h /\ \A d \in Client \ {c} : cl'[d] = cl[d]
  BY <1>1, <1>3, <1>6, <1>8, <1>9 DEF Types
<1>11. Deletes => Deletes'
  BY <1>3, <1>6, <1>10 DEF Deletes
<1>12. Types'
  BY <1>1, <1>6, <1>10 DEF Types
<1>13. Owner'
  BY <1>1, <1>3, <1>6, <1>8, <1>10 DEF Owner
<1>14. \A d \in Client : cl'[d].pc \in {"reread", "save"} => d = c
  BY <1>1, <1>3, <1>10 DEF Hands
<1>15. Hands'
  <2>1. ASSUME NEW d \in Client
        PROVE  /\ cl'[d].op \in {"send", "queue"} => cl'[d].msg \in Msg
               /\ cl'[d].pc = "idle" => cl'[d] = Free
               /\ cl'[d].pc = "load" => cl'[d].op # "none"
               /\ cl'[d].pc \in {"use", "wait"} /\ cl'[d].op \in {"queue", "answer", "stop", "drain"} =>
                    cl'[d].ref \in 1..nruns
    <3>1. CASE d = c
      BY <1>1, <1>3, <1>9, <1>10, <3>1 DEF Hands
    <3>2. CASE d # c
      BY <1>1, <1>10, <3>2 DEF Hands
    <3> QED BY <3>1, <3>2
  <2>2. r # 0 /\ entry' = r
    BY <1>3, <1>6 DEF Run
  <2> QED BY <1>3, <1>6, <1>8, <1>9, <1>10, <1>14, <2>1, <2>2 DEF Hands
<1>16. Files' = Files /\ Files = {disk}
  BY <1>1, <1>6 DEF Files, Writer, Writers, Exists
<1>17. \A q \in Run : Loaded(q)' => q = r
  <2>1. \A q \in Run : q # r => runs'[q].pc \notin Looping \cup {"unregister"}
    BY <1>1, <1>3, <1>10 DEF Owner, Looping
  <2>2. \A d \in Client : cl'[d].pc = "save" => cl'[d].ref = r
    BY <1>9, <1>10, <1>14
  <2> QED BY <2>1, <2>2 DEF Loaded
<1>18. Writers'
  BY <1>1, <1>6, <1>11 DEF Writers, Writer
<1>19. Ahead'
  BY <1>7, <1>8, <1>10, <1>16, <1>17, SelfPrefix DEF Ahead
<1>20. \A m : InFiles(m) <=> InFiles(m)'
  BY <1>16 DEF InFiles
<1>21. OnFile'
  <2> SUFFICES ASSUME NEW q \in Run, NEW m \in Msg, Held(q, m)'
               PROVE  runs'[q].saveErr \/ Deletes' \/ InFiles(m)'
    BY DEF OnFile
  <2>1. CASE q = r
    BY <1>8, <1>10, <1>16, <2>1 DEF InFiles, Held
  <2>2. CASE q # r
    BY <1>1, <1>10, <1>11, <1>20, <2>2 DEF OnFile, Held
  <2> QED BY <2>1, <2>2
<1>22. AllTaken'
  <2> SUFFICES ASSUME NEW m \in accepted, Taken(m) PROVE Taken(m)'
    BY <1>1, <1>6 DEF AllTaken
  <2>1. ASSUME NEW q \in Run, runs[q].saveErr, Held(q, m) PROVE runs'[q].saveErr /\ Held(q, m)'
    BY <1>3, <1>10, <2>1 DEF Held
  <2>2. ~Held(entry, m)
    BY <1>3, Nothing DEF Held
  <2>3. Has(runs[entry].queued, m) => Has(runs'[entry].queued, m)
    BY <1>3, <1>8, <1>10
  <2> QED BY <1>6, <1>11, <1>20, <2>1, <2>2, <2>3 DEF Taken
<1>23. Ends'
  BY <1>1, <1>8, <1>10, <1>11 DEF Ends
<1>24. Cleanly'
  <2>1. CleanRun(n)
    BY <1>1, <1>3, <1>8 DEF Cleanly, CleanRun
  <2> QED BY <1>1, <1>10, <2>1 DEF Cleanly, CleanRun, LastIsReply
<1>25. Numbers'
  <2>1. \A q \in Run : NumberedRun(q, runs[q])'
    BY <1>1, <1>6, <1>8, <1>10 DEF Numbers, NumberedRun, Approved
  <2>2. h \in Hand /\ h.op # "answer"
    BY <1>9
  <2> QED BY <1>1, <1>6, <2>1, <2>2, AnswerStep
<1> QED BY <1>12, <1>13, <1>15, <1>18, <1>19, <1>21, <1>22, <1>23, <1>24, <1>25 DEF IInv

(* The message is saved and the loop launched.                             *)
LEMMA SaveFacts ==
    ASSUME IInv, NEW c \in Client, SendSave(c), NEW r, r = cl[c].ref, NEW m, m = cl[c].msg
    PROVE  /\ cl[c].pc = "save" /\ r = entry /\ r \in Run /\ m \in Msg /\ runs[r].pc = "reread"
           /\ Loaded(r) /\ Wrote(r) /\ faults' \in Nat /\ disk' \in List \cup {Gone}
           /\ runs'[r].pc = "turn" /\ Has(runs'[r].hist, m) /\ ~runs'[r].clean
           /\ runs'[r].confirm = runs[r].confirm /\ runs'[r].seq = runs[r].seq /\ runs'[r].ans = runs[r].ans
           /\ cl' = [cl EXCEPT ![c] = Free] /\ unsent' \subseteq unsent /\ accepted' = accepted \cup {m}
           /\ UNCHANGED <<entry, nruns, sweeps, sums, deleted, yes, ran>>
<1>1. Types /\ Owner /\ Hands /\ Writers /\ Ahead /\ OnFile /\ AllTaken /\ Ends /\ Cleanly /\ Numbers
  BY DEF IInv
<1>2. /\ cl[c].pc = "save" /\ r = entry /\ r \in Run /\ m \in Msg
      /\ runs[r].pc = "reread" /\ runs[r] \in RunRec /\ runs[r].hist \in List /\ m \in Elem
  <2>1. cl[c].pc = "save" /\ cl[c].op = "send"
    BY DEF SendSave
  <2>2. r = entry /\ entry # 0 /\ runs[entry].pc = "reread" /\ m \in Msg
    BY <1>1, <2>1 DEF Hands
  <2>3. r \in Run
    BY <1>1, <2>2 DEF Owner, Types, Run
  <2> QED BY <1>1, <2>1, <2>2, <2>3 DEF Types, RunRec, Elem
<1>3. PICK n : n = [runs[r] EXCEPT !.hist = Append(@, m), !.pc = "turn"]
  OBVIOUS
<1>4. /\ saveChat(r, n) /\ cl' = [cl EXCEPT ![c] = Free]
      /\ unsent' \subseteq unsent /\ accepted' = accepted \cup {m}
      /\ UNCHANGED <<entry, nruns, sweeps, sums, deleted, yes, ran>>
  BY <1>1, <1>3 DEF SendSave, Return, Types
<1>5. /\ Append(runs[r].hist, m) \in List /\ Prefix(runs[r].hist, Append(runs[r].hist, m))
      /\ Has(Append(runs[r].hist, m), m)
  BY <1>2, Appended
<1>6. /\ n \in RunRec /\ n.pc = "turn" /\ n.hist = Append(runs[r].hist, m) /\ n.queued = runs[r].queued
      /\ n.clean = runs[r].clean /\ n.confirm = runs[r].confirm /\ n.seq = runs[r].seq /\ n.ans = runs[r].ans
  BY <1>2, <1>3, <1>5 DEF RunRec, Looping
<1>7. /\ Wrote(r) /\ faults' \in Nat /\ disk' \in List \cup {Gone}
      /\ \E e \in BOOLEAN : runs'[r] = [n EXCEPT !.saveErr = e]
  <2>1. /\ Types /\ n \in RunRec /\ saveChat(r, n) /\ Prefix(runs[r].hist, n.hist)
        /\ \A w \in Msg : Has(runs[r].queued, w) => Has(n.queued, w) \/ Has(n.hist, w)
    BY <1>1, <1>4, <1>5, <1>6
  <2> QED BY <1>2, <2>1, Saving
<1>8. /\ runs'[r].pc = "turn" /\ runs'[r].hist = n.hist /\ ~runs'[r].clean
      /\ runs'[r].confirm = runs[r].confirm /\ runs'[r].seq = runs[r].seq /\ runs'[r].ans = runs[r].ans
  <2>1. ~runs[r].clean
    BY <1>1, <1>2 DEF Cleanly, CleanRun
  <2> QED BY <1>2, <1>6, <1>7, <2>1 DEF RunRec
<1>9. Loaded(r)
  BY <1>2 DEF Loaded
<1> QED BY <1>2, <1>4, <1>5, <1>6, <1>7, <1>8, <1>9

(* A send has saved its message and launched the loop.                     *)
LEMMA SaveInv ==
    ASSUME IInv, NEW c \in Client, SendSave(c)
    PROVE  IInv'
<1>1. Types /\ Owner /\ Hands /\ Writers /\ Ahead /\ OnFile /\ AllTaken /\ Ends /\ Cleanly /\ Numbers
  BY DEF IInv
<1>2. PICK r : r = cl[c].ref
  OBVIOUS
<1>3. PICK m : m = cl[c].msg
  OBVIOUS
<1>4. /\ cl[c].pc = "save" /\ r = entry /\ r \in Run /\ m \in Msg /\ runs[r].pc = "reread"
      /\ Loaded(r) /\ Wrote(r) /\ faults' \in Nat /\ disk' \in List \cup {Gone}
  BY <1>2, <1>3, SaveFacts
<1>5. /\ runs'[r].pc = "turn" /\ Has(runs'[r].hist, m) /\ ~runs'[r].clean
      /\ runs'[r].confirm = runs[r].confirm /\ runs'[r].seq = runs[r].seq /\ runs'[r].ans = runs[r].ans
      /\ cl' = [cl EXCEPT ![c] = Free] /\ unsent' \subseteq unsent /\ accepted' = accepted \cup {m}
      /\ UNCHANGED <<entry, nruns, sweeps, sums, deleted, yes, ran>>
  BY <1>2, <1>3, SaveFacts
<1>6. /\ runs' \in [Run -> RunRec] /\ \A q \in Run \ {r} : runs'[q] = runs[q]
      /\ cl' \in [Client -> Hand] /\ cl'[c] = Free /\ \A d \in Client \ {c} : cl'[d] = cl[d]
  BY <1>1, <1>4, <1>5, FreeOK DEF Types, HandOK, Wrote
<1>7. Deletes => Deletes'
  BY <1>4, <1>5, <1>6 DEF Deletes
<1>8. Types'
  BY <1>1, <1>4, <1>5, <1>6 DEF Types
<1>9. Owner'
  BY <1>1, <1>4, <1>5, <1>6 DEF Owner
<1>10. \A d \in Client : cl'[d].pc \notin {"reread", "save"}
  <2>1. \A d \in Client : cl[d].pc \in {"reread", "save"} => d = c
    BY <1>1, <1>4 DEF Hands
  <2> QED BY <1>6, <2>1 DEF Free
<1>11. Hands'
  <2>1. ASSUME NEW d \in Client
        PROVE  /\ cl'[d].op \in {"send", "queue"} => cl'[d].msg \in Msg
               /\ cl'[d].pc = "idle" => cl'[d] = Free
               /\ cl'[d].pc = "load" => cl'[d].op # "none"
               /\ cl'[d].pc \in {"use", "wait"} /\ cl'[d].op \in {"queue", "answer", "stop", "drain"} =>
                    cl'[d].ref \in 1..nruns
    BY <1>1, <1>6 DEF Hands, Free
  <2> QED BY <1>5, <1>10, <2>1 DEF Hands
<1>12. Loaded(r) /\ \A q \in Run : Loaded(q)' => Loaded(q)
  BY <1>4, <1>6, <1>10 DEF Loaded
<1>13. Writers' /\ Ahead' /\ OnFile' /\ AllTaken'
  <2>1. \A w \in accepted' : \/ w \in accepted
                             \/ /\ Has(runs'[r].hist, w) \/ Has(runs'[r].queued, w)
                                /\ r = entry \/ Deletes'
    BY <1>4, <1>5
  <2> QED BY <1>1, <1>4, <1>5, <1>7, <1>8, <1>12, <2>1, WroteFiles
<1>14. Ends'
  BY <1>1, <1>5, <1>6, <1>7 DEF Ends
<1>15. Cleanly'
  <2>1. CleanRun(runs[r])'
    BY <1>5 DEF CleanRun
  <2> QED BY <1>1, <1>6, <2>1 DEF Cleanly, CleanRun, LastIsReply
<1>16. Numbers'
  <2>1. \A q \in Run : NumberedRun(q, runs[q])'
    BY <1>1, <1>5, <1>6 DEF Numbers, NumberedRun, Approved
  <2>2. Free \in Hand /\ Free.op # "answer"
    BY FreeOK DEF HandOK
  <2> QED BY <1>1, <1>5, <2>1, <2>2, AnswerStep
<1> QED BY <1>8, <1>9, <1>11, <1>13, <1>14, <1>15, <1>16 DEF IInv

(* Delete looks for a run and answers.                                     *)
LEMMA AgainInv ==
    ASSUME IInv, NEW c \in Client, DeleteAgain(c)
    PROVE  IInv'
<1>1. Types /\ Owner /\ Hands /\ Writers /\ Ahead /\ OnFile /\ AllTaken /\ Ends /\ Cleanly /\ Numbers
  BY DEF IInv
<1>2. /\ cl' = [cl EXCEPT ![c] = Free] /\ deleted' /\ sweeps' \in Nat /\ deleted' \in BOOLEAN
      /\ UNCHANGED <<disk, entry, nruns, sums, unsent, accepted, yes, ran, faults>>
  BY <1>1 DEF DeleteAgain, Return, Types
<1>3. /\ runs' \in [Run -> RunRec]
      /\ \A q \in Run : \E e \in BOOLEAN : runs'[q] = [runs[q] EXCEPT !.stop = e]
  <2>1. CASE runs' = runs
    <3>1. \A q \in Run : runs[q].stop \in BOOLEAN /\ runs[q] = [runs[q] EXCEPT !.stop = runs[q].stop]
      BY <1>1 DEF Types, RunRec
    <3> QED BY <1>1, <2>1, <3>1 DEF Types
  <2>2. CASE entry # 0 /\ runs' = [runs EXCEPT ![entry].stop = TRUE]
    <3>1. entry \in Run
      BY <1>1, <2>2 DEF Owner, Types, Run
    <3>2. PICK n : n = [runs[entry] EXCEPT !.stop = TRUE]
      OBVIOUS
    <3>3. n \in RunRec
      <4>1. runs[entry] \in RunRec
        BY <1>1, <3>1 DEF Types
      <4> QED BY <3>2, <4>1 DEF RunRec
    <3>4. runs' = [runs EXCEPT ![entry] = n]
      BY <1>1, <2>2, <3>1, <3>2 DEF Types
    <3>5. \A q \in Run : runs[q].stop \in BOOLEAN /\ runs[q] = [runs[q] EXCEPT !.stop = runs[q].stop]
      BY <1>1 DEF Types, RunRec
    <3> QED BY <1>1, <3>1, <3>2, <3>3, <3>4, <3>5 DEF Types
  <2> QED BY <2>1, <2>2 DEF DeleteAgain
<1>4. \A q \in Run : /\ runs'[q].pc = runs[q].pc /\ runs'[q].hist = runs[q].hist
                     /\ runs'[q].saveErr = runs[q].saveErr /\ runs'[q].closed = runs[q].closed
                     /\ runs'[q].clean = runs[q].clean /\ runs'[q].queued = runs[q].queued
                     /\ runs'[q].confirm = runs[q].confirm /\ runs'[q].seq = runs[q].seq
                     /\ runs'[q].ans = runs[q].ans
  <2> SUFFICES ASSUME NEW q \in Run
               PROVE  /\ runs'[q].pc = runs[q].pc /\ runs'[q].hist = runs[q].hist
                      /\ runs'[q].saveErr = runs[q].saveErr /\ runs'[q].closed = runs[q].closed
                      /\ runs'[q].clean = runs[q].clean /\ runs'[q].queued = runs[q].queued
                      /\ runs'[q].confirm = runs[q].confirm /\ runs'[q].seq = runs[q].seq
                      /\ runs'[q].ans = runs[q].ans
    OBVIOUS
  <2>1. PICK e \in BOOLEAN : runs'[q] = [runs[q] EXCEPT !.stop = e]
    BY <1>3
  <2>2. runs[q] \in RunRec
    BY <1>1 DEF Types
  <2> QED BY <2>1, <2>2 DEF RunRec
<1>5. Still
  BY <1>3, <1>4 DEF Still
<1>6. /\ Owner' /\ Hands' /\ cl' \in [Client -> Hand] /\ entry \in Run \cup {0}
      /\ \A q \in Run : Loaded(q)' => Loaded(q)
      /\ Deletes => Deletes'
  <2>1. Free \in Hand /\ Free.pc \notin {"reread", "save"}
    BY FreeOK DEF HandOK
  <2> QED BY <1>1, <1>2, <1>5, <2>1, HandStep
<1>7. Types'
  BY <1>1, <1>2, <1>3, <1>6 DEF Types
<1>8. Files' \subseteq Files
  BY <1>2 DEF Files, Writer
<1>9. Ahead' /\ OnFile' /\ AllTaken' /\ Ends' /\ Cleanly'
  BY <1>1, <1>2, <1>4, <1>5, <1>6, <1>8, FewerFiles
<1>10. Writers'
  BY <1>1, <1>2, <1>6 DEF Writers, Writer
<1>11. Numbers'
  <2>1. \A q \in Run : NumberedRun(q, runs[q])'
    BY <1>1, <1>2, <1>4 DEF Numbers, NumberedRun, Approved
  <2>2. Free \in Hand /\ Free.op # "answer"
    BY FreeOK DEF HandOK
  <2> QED BY <1>1, <1>2, <2>1, <2>2, AnswerStep
<1> QED BY <1>6, <1>7, <1>9, <1>10, <1>11 DEF IInv

(* The sweeps that a Delete left, and the writer of the summary.           *)
LEMMA RestInv ==
    ASSUME IInv, Sweep \/ SweepGivesUp \/ \E r \in Run : Summary(r)
    PROVE  IInv'
<1>1. Types /\ Owner /\ Hands /\ Writers /\ Ahead /\ OnFile /\ AllTaken /\ Ends /\ Cleanly /\ Numbers
  BY DEF IInv
<1>2. UNCHANGED <<entry, runs, nruns, cl, unsent, accepted, deleted, yes, ran>>
  BY DEF Sweep, SweepGivesUp, Summary, SummaryLoad, SummaryWrite, ghost
<1> DEFINE Rest == /\ disk' \in List \cup {Gone} /\ sweeps' \in Nat /\ faults' \in Nat
                   /\ sums' \in [Run -> [st : {"no", "due", "writing"}, copy : List]]
                   /\ Files' \subseteq Files /\ Writers'
<1>3. Rest
  <2>1. Idle \in [st : {"no", "due", "writing"}, copy : List] /\ Idle.st = "no" /\ Gone \notin List
    BY Lists DEF Idle
  <2>2. deleted => Deletes
    BY DEF Deletes
  <2>3. Deletes' <=> Deletes
    BY <1>2 DEF Deletes
  <2>4. CASE Sweep
    <3>1. sweeps' \in Nat /\ deleted /\ disk' = Gone /\ UNCHANGED <<sums, faults>> /\ (sweeps' > 0 => sweeps > 0)
      BY <1>1, <2>4 DEF Sweep, Types, Writers
    <3>2. Files' \subseteq Files
      BY <3>1 DEF Files, Writer
    <3> QED BY <1>1, <1>2, <2>2, <2>3, <3>1, <3>2 DEF Types, Writers, Writer
  <2>5. CASE SweepGivesUp
    <3>1. sweeps' \in Nat /\ faults' \in Nat /\ deleted /\ UNCHANGED <<sums, disk>> /\ (sweeps' > 0 => sweeps > 0)
      BY <1>1, <2>5 DEF SweepGivesUp, Fault, Types, Writers
    <3>2. Files' \subseteq Files
      BY <3>1 DEF Files, Writer
    <3> QED BY <1>1, <1>2, <2>2, <2>3, <3>1, <3>2 DEF Types, Writers, Writer
  <2>6. ASSUME NEW r \in Run, SummaryLoad(r) PROVE Rest
    <3>1. PICK u : u = IF Exists THEN [st |-> "writing", copy |-> disk] ELSE Idle
      OBVIOUS
    <3>2. /\ u \in [st : {"no", "due", "writing"}, copy : List] /\ (u.st = "writing" => u.copy = disk /\ disk # Gone)
      BY <1>1, <2>1, <3>1 DEF Types, Exists
    <3>3. sums' = [sums EXCEPT ![r] = u] /\ UNCHANGED <<disk, sweeps, faults>> /\ \A q \in Run : ~Writer(q)
      BY <2>6, <3>1 DEF SummaryLoad, SaveMuFree, Writer
    <3>4. /\ sums' \in [Run -> [st : {"no", "due", "writing"}, copy : List]]
          /\ sums'[r] = u /\ \A q \in Run : q # r => sums'[q] = sums[q]
      BY <1>1, <3>2, <3>3 DEF Types
    <3>5. Files' \subseteq Files
      BY <3>2, <3>3, <3>4 DEF Files, Writer
    <3> QED BY <1>1, <1>2, <2>3, <3>2, <3>3, <3>4, <3>5 DEF Types, Writers, Writer
  <2>7. ASSUME NEW r \in Run, SummaryWrite(r) PROVE Rest
    <3>1. sums' = [sums EXCEPT ![r] = Idle] /\ disk' = sums[r].copy /\ Writer(r) /\ UNCHANGED <<sweeps, faults>>
      BY <2>7 DEF SummaryWrite, Writer
    <3>2. /\ sums' \in [Run -> [st : {"no", "due", "writing"}, copy : List]]
          /\ sums'[r] = Idle /\ \A q \in Run : q # r => sums'[q] = sums[q]
      BY <1>1, <2>1, <3>1 DEF Types
    <3>3. \A q \in Run : ~Writer(q)'
      BY <1>1, <2>1, <3>1, <3>2 DEF Writers, Writer
    <3>4. disk' \in List /\ disk' # Gone
      BY <1>1, <2>1, <3>1 DEF Types
    <3>5. Files' \subseteq Files
      BY <3>1, <3>3 DEF Files, Writer
    <3> QED BY <1>1, <1>2, <3>1, <3>2, <3>3, <3>4, <3>5 DEF Types, Writers
  <2> QED BY <2>4, <2>5, <2>6, <2>7 DEF Summary
<1>4. Still /\ (\A q \in Run : runs'[q].queued = runs[q].queued) /\ Owner' /\ Hands' /\ entry \in Run \cup {0}
      /\ (Deletes => Deletes') /\ \A q \in Run : Loaded(q)' => Loaded(q)
  <2>1. Still /\ \A q \in Run : runs'[q].queued = runs[q].queued
    BY <1>1, <1>2 DEF Still, Types
  <2>2. Owner' /\ Hands' /\ entry \in Run \cup {0}
    BY <1>1, <1>2 DEF Owner, Hands, Types, Run
  <2> QED BY <1>2, <2>1, <2>2 DEF Deletes, Loaded
<1>5. Ahead' /\ OnFile' /\ AllTaken' /\ Ends' /\ Cleanly'
  BY <1>1, <1>2, <1>3, <1>4, FewerFiles
<1>6. Types'
  BY <1>1, <1>2, <1>3 DEF Types
<1>7. Numbers'
  BY <1>1, <1>2 DEF Numbers, NumberedRun, Approved
<1> QED BY <1>3, <1>4, <1>5, <1>6, <1>7 DEF IInv

(* The loop at work.                                                       *)
LEMMA LoopInv ==
    ASSUME IInv, NEW r \in Run, Loop(r), ~Unregister(r)
    PROVE  IInv'
<1>1. Types /\ Owner /\ Hands /\ Writers /\ Ahead /\ OnFile /\ AllTaken /\ Ends /\ Cleanly /\ Numbers
  BY DEF IInv
<1>2. /\ Wrote(r) /\ faults' \in Nat /\ disk' \in List \cup {Gone}
      /\ UNCHANGED <<entry, nruns, cl, sweeps, sums, unsent, accepted, deleted, yes>>
      /\ runs[r].pc \in Looping /\ AtWork(r, runs[r])'
      /\ \A p \in ran' : p \in ran \/ (p = <<r, runs[r].seq>> /\ runs[r].pc = "approved")
  <2>1. LoopsOn(r)
    BY <1>1, LoopFacts
  <2> QED BY <2>1 DEF LoopsOn
<1>3. /\ runs' \in [Run -> RunRec] /\ \A q \in Run \ {r} : runs'[q] = runs[q]
      /\ runs'[r].pc \in Looping \cup {"unregister"}
  BY <1>2 DEF Wrote, AtWork
<1>4. Types'
  <2>1. ran' \subseteq Run \X Nat
    <3>1. runs[r].seq \in Nat
      BY <1>1 DEF Types, RunRec
    <3> QED BY <1>1, <1>2, <3>1 DEF Types
  <2> QED BY <1>1, <1>2, <1>3, <2>1 DEF Types
<1>5. Owner'
  BY <1>1, <1>2, <1>3 DEF Owner, Looping
<1>6. Hands'
  <2>1. \A d \in Client : cl[d].pc \in {"reread", "save"} => runs'[entry] = runs[entry]
    BY <1>1, <1>2, <1>3 DEF Hands, Owner, Types, Looping, Run
  <2> QED BY <1>1, <1>2, <2>1 DEF Hands
<1>7. Loaded(r) /\ (\A q \in Run : Loaded(q)' => Loaded(q)) /\ (Deletes => Deletes')
  <2>1. Loaded(r)
    BY <1>2 DEF Loaded
  <2>2. \A q \in Run : Loaded(q)' => Loaded(q)
    BY <1>2, <1>3, <2>1 DEF Loaded
  <2> QED BY <1>2, <2>1, <2>2 DEF Deletes
<1>8. Writers' /\ Ahead' /\ OnFile' /\ AllTaken'
  BY <1>1, <1>2, <1>4, <1>7, WroteFiles
<1>9. Ends'
  BY <1>1, <1>2, <1>3, <1>7 DEF Ends, AtWork, Looping
<1>10. Cleanly'
  BY <1>1, <1>2, <1>3 DEF Cleanly, AtWork, CleanRun, LastIsReply
<1>11. Numbers'
  <2>1. ASSUME NEW q \in Run PROVE NumberedRun(q, runs[q])'
    <3>1. CASE q = r
      BY <1>2, <3>1 DEF AtWork
    <3>2. CASE q # r
      BY <1>1, <1>2, <1>3, <3>2 DEF Numbers, NumberedRun, Approved
    <3> QED BY <3>1, <3>2
  <2>2. ASSUME NEW p \in ran' PROVE Approved(p[1], p[2])
    <3>1. CASE p \in ran
      BY <1>1, <3>1 DEF Numbers
    <3>2. CASE p = <<r, runs[r].seq>> /\ runs[r].pc = "approved"
      BY <1>1, <3>2 DEF Numbers, NumberedRun
    <3> QED BY <1>2, <3>1, <3>2
  <2> QED BY <1>1, <1>2, <2>1, <2>2 DEF Numbers, Approved
<1> QED BY <1>4, <1>5, <1>6, <1>8, <1>9, <1>10, <1>11 DEF IInv

(* The end of a run.                                                       *)
LEMMA UnregisterInv ==
    ASSUME IInv, NEW r \in Run, Unregister(r)
    PROVE  IInv'
<1>1. Types /\ Owner /\ Hands /\ Writers /\ Ahead /\ OnFile /\ AllTaken /\ Ends /\ Cleanly /\ Numbers
  BY DEF IInv
<1>2. /\ runs[r].pc = "unregister" /\ runs[r] \in RunRec /\ entry = r /\ runs[r].queued = <<>>
  BY <1>1 DEF Unregister, At, Types, Owner, Ends
<1>3. PICK n : n = Over(runs[r])
  OBVIOUS
<1>4. /\ n \in RunRec /\ n.pc = "over" /\ n.closed /\ ~n.clean /\ n.confirm = 0 /\ n.seq = 0 /\ n.ans = "none"
      /\ n.saveErr = runs[r].saveErr /\ n.hist = IF runs[r].saveErr THEN runs[r].hist ELSE <<>>
  <2>1. PICK u : u = NewRun
    OBVIOUS
  <2>2. <<>> \in List /\ <<>> \in Seq(Msg)
    BY Lists
  <2>3. u \in RunRec
    BY <2>1, <2>2 DEF NewRun, RunRec
  <2>4. ~u.clean /\ u.confirm = 0 /\ u.seq = 0 /\ u.ans = "none"
    BY <2>1 DEF NewRun
  <2>5. PICK l \in List : l = IF runs[r].saveErr THEN runs[r].hist ELSE <<>>
    BY <1>2, <2>2 DEF RunRec
  <2>6. PICK e \in BOOLEAN : e = runs[r].saveErr
    BY <1>2 DEF RunRec
  <2>7. n = [u EXCEPT !.pc = "over", !.closed = TRUE, !.saveErr = e, !.hist = l]
    BY <1>3, <2>1, <2>5, <2>6 DEF Over
  <2> QED BY <2>3, <2>4, <2>5, <2>6, <2>7 DEF RunRec
<1>5. /\ entry' = 0 /\ runs' = [runs EXCEPT ![r] = n]
      /\ sums' = sums \/ sums' = [sums EXCEPT ![r].st = "due"]
      /\ UNCHANGED <<disk, nruns, cl, sweeps, unsent, accepted, deleted, yes, ran, faults>>
  BY <1>3 DEF Unregister, ghost
<1>6. /\ runs' \in [Run -> RunRec] /\ runs'[r] = n /\ \A q \in Run \ {r} : runs'[q] = runs[q]
  BY <1>1, <1>4, <1>5 DEF Types
<1>7. /\ sums' \in [Run -> [st : {"no", "due", "writing"}, copy : List]]
      /\ \A q \in Run : sums'[q].copy = sums[q].copy /\ (Writer(q)' => Writer(q))
  <2>1. CASE sums' = sums
    BY <1>1, <2>1 DEF Types, Writer
  <2>2. CASE sums' = [sums EXCEPT ![r].st = "due"]
    <3>1. PICK u : u = [sums[r] EXCEPT !.st = "due"]
      OBVIOUS
    <3>2. u \in [st : {"no", "due", "writing"}, copy : List] /\ u.copy = sums[r].copy /\ u.st = "due"
      BY <1>1, <3>1 DEF Types
    <3>3. sums' = [sums EXCEPT ![r] = u]
      BY <1>1, <2>2, <3>1 DEF Types
    <3>4. sums'[r] = u /\ \A q \in Run : q # r => sums'[q] = sums[q]
      BY <1>1, <3>3 DEF Types
    <3>5. sums' \in [Run -> [st : {"no", "due", "writing"}, copy : List]]
      BY <1>1, <3>2, <3>3 DEF Types
    <3> QED BY <3>2, <3>4, <3>5 DEF Writer
  <2> QED BY <1>5, <2>1, <2>2
<1>8. Files' \subseteq Files /\ (\A m : InFiles(m) => InFiles(m)') /\ (Deletes => Deletes')
  <2>1. Files' \subseteq Files
    BY <1>5, <1>7 DEF Files
  <2> QED BY <1>5, <2>1 DEF InFiles, Deletes
<1>9. Types'
  BY <1>1, <1>5, <1>6, <1>7 DEF Types
<1>10. Owner'
  BY <1>1, <1>2, <1>4, <1>5, <1>6 DEF Owner, Run
<1>11. \A d \in Client : cl[d].pc \notin {"reread", "save"}
  BY <1>1, <1>2 DEF Hands
<1>12. Hands'
  BY <1>1, <1>5, <1>11 DEF Hands
<1>13. \A q \in Run : ~Loaded(q)'
  <2>1. \A q \in Run : runs'[q].pc \notin Looping \cup {"unregister"}
    BY <1>1, <1>2, <1>4, <1>6 DEF Owner, Looping
  <2> QED BY <1>5, <1>11, <2>1 DEF Loaded
<1>14. Writers'
  BY <1>1, <1>5, <1>7, <1>8 DEF Writers
<1>15. OnFile'
  <2> SUFFICES ASSUME NEW q \in Run, NEW m \in Msg, Held(q, m)'
               PROVE  runs'[q].saveErr \/ Deletes' \/ InFiles(m)'
    BY DEF OnFile
  <2>1. CASE q = r
    BY <1>4, <1>6, <2>1, Nothing DEF Held
  <2>2. CASE q # r
    BY <1>1, <1>6, <1>8, <2>2 DEF OnFile, Held
  <2> QED BY <2>1, <2>2
<1>16. AllTaken'
  <2> SUFFICES ASSUME NEW m \in accepted, Taken(m) PROVE Taken(m)'
    BY <1>1, <1>5 DEF AllTaken
  <2>1. ASSUME NEW q \in Run, runs[q].saveErr, Held(q, m) PROVE runs'[q].saveErr /\ Held(q, m)'
    BY <1>4, <1>6, <2>1 DEF Held
  <2>2. m \in Msg /\ ~Has(runs[entry].queued, m)
    BY <1>1, <1>2, Nothing DEF Types
  <2>3. Held(entry, m) => runs[r].saveErr \/ Deletes \/ InFiles(m)
    BY <1>1, <1>2, <2>2 DEF OnFile
  <2>4. Deletes \/ InFiles(m) \/ \E q \in Run : runs[q].saveErr /\ Held(q, m)
    BY <1>2, <2>2, <2>3 DEF Taken
  <2> QED BY <1>8, <2>1, <2>4 DEF Taken
<1>17. Ends' /\ Cleanly'
  <2>1. CleanRun(n)
    BY <1>4 DEF CleanRun
  <2>2. Ends'
    BY <1>1, <1>4, <1>6, <1>8 DEF Ends
  <2> QED BY <1>1, <1>6, <2>1, <2>2 DEF Cleanly, CleanRun, LastIsReply
<1>18. Numbers'
  <2>1. \A q \in Run : NumberedRun(q, runs[q])'
    BY <1>1, <1>4, <1>5, <1>6 DEF Numbers, NumberedRun, Approved
  <2> QED BY <1>1, <1>5, <2>1 DEF Numbers, Approved
<1> QED BY <1>9, <1>10, <1>12, <1>13, <1>14, <1>15, <1>16, <1>17, <1>18 DEF IInv, Ahead
-----------------------------------------------------------------------------
(* The invariant holds at the start ...                                    *)
LEMMA InitInv == Init => IInv
<1> SUFFICES ASSUME Init PROVE IInv
  OBVIOUS
<1>1. <<>> \in List /\ <<>> \in Seq(Msg) /\ <<>> # Gone
  BY Lists
<1>2. NewRun \in RunRec /\ Free \in Hand /\ Idle \in [st : {"no", "due", "writing"}, copy : List]
  <2>1. NewRun \in RunRec
    BY <1>1 DEF NewRun, RunRec
  <2> QED BY <1>1, <2>1, FreeOK DEF HandOK, Idle
<1>3. /\ \A r \in Run : runs[r] = NewRun /\ sums[r] = Idle
      /\ \A c \in Client : cl[c] = Free
      /\ entry = 0 /\ nruns = 0 /\ sweeps = 0 /\ disk = <<>>
      /\ accepted = {} /\ yes = {} /\ ran = {}
  BY DEF Init
<1>4. Types
  <2>1. 0 \in 0..MaxRuns
    BY ChatAssumption
  <2> QED BY <1>1, <1>2, <2>1 DEF Types, Init
<1>5. Owner /\ Hands
  <2>1. Owner
    BY <1>3 DEF Owner, NewRun, Run
  <2>2. \A c \in Client : cl[c].pc = "idle" /\ cl[c].op = "none"
    BY <1>3 DEF Free
  <2>3. Hands
    BY <1>3, <2>2 DEF Hands
  <2> QED BY <2>1, <2>3
<1>6. Writers
  BY <1>1, <1>3 DEF Writers, Writer, Idle
<1>7. Ahead /\ Ends /\ Cleanly /\ AllTaken
  BY <1>3 DEF Ahead, Ends, Cleanly, CleanRun, AllTaken, Loaded, Looping, NewRun, Free
<1>8. OnFile
  BY <1>3, Nothing DEF OnFile, Held, NewRun
<1>9. Numbers
  BY <1>3 DEF Numbers, NumberedRun, NewRun, Free
<1> QED BY <1>4, <1>5, <1>6, <1>7, <1>8, <1>9 DEF IInv

(* ... and every step keeps it.                                            *)
LEMMA NextInv == IInv /\ [Next]_vars => IInv'
<1> SUFFICES ASSUME IInv, [Next]_vars PROVE IInv'
  OBVIOUS
<1>1. ASSUME NEW c \in Client, Request(c) PROVE IInv'
  BY <1>1, BeginInv
<1>2. ASSUME NEW c \in Client, Handle(c) PROVE IInv'
  BY <1>2, LoadInv, TellInv, RegisterInv, RereadGone, RereadFile, SaveInv, AgainInv DEF Handle
<1>3. ASSUME NEW r \in Run, Loop(r) PROVE IInv'
  BY <1>3, LoopInv, UnregisterInv
<1>4. CASE Sweep \/ SweepGivesUp \/ \E r \in Run : Summary(r)
  BY <1>4, RestInv
<1>5. CASE UNCHANGED vars
  <2>1. Types' /\ Owner' /\ Hands'
    BY <1>5 DEF vars, IInv, Types, Owner, Hands
  <2>2. Files' = Files /\ (Deletes' <=> Deletes) /\ (\A m : InFiles(m)' <=> InFiles(m))
        /\ \A r \in Run : (Loaded(r)' <=> Loaded(r)) /\ (Writer(r)' <=> Writer(r))
    BY <1>5 DEF vars, Files, Writer, Deletes, InFiles, Loaded
  <2>3. Writers' /\ Ahead' /\ OnFile' /\ Ends'
    BY <1>5, <2>2 DEF vars, IInv, Writers, Ahead, OnFile, Held, Ends
  <2>4. AllTaken'
    BY <1>5, <2>2 DEF vars, IInv, AllTaken, Taken, Held
  <2>5. Cleanly' /\ Numbers'
    BY <1>5 DEF vars, IInv, Cleanly, CleanRun, LastIsReply, Numbers, NumberedRun, Approved
  <2> QED BY <2>1, <2>3, <2>4, <2>5 DEF IInv
<1> QED BY <1>1, <1>2, <1>3, <1>4, <1>5 DEF Next

(* The inductive invariant holds in every state.                           *)
THEOREM Inductive == Spec => []IInv
BY InitInv, NextInv, PTL DEF Spec

(* No accepted message is dropped (startChatRun: "nothing accepted is      *)
(* silently dropped"): OnFile and AllTaken say where it is, and Writers    *)
(* that a file a writer is about to replace has it too.                    *)
THEOREM KeepsAccepted == Spec => []AcceptedKept
<1>1. IInv => AcceptedKept
  <2> SUFFICES ASSUME IInv, NEW m \in accepted, Taken(m) PROVE Kept(m)
    BY DEF AcceptedKept, IInv, AllTaken
  <2>1. CASE InFiles(m)
    <3>1. disk \in Files \/ Deletes
      BY DEF Files, IInv, Writers
    <3> QED BY <2>1, <3>1 DEF InFiles, Kept
  <2> QED BY <2>1 DEF Taken, Kept, Held
<1> QED BY <1>1, Inductive, PTL

(* A reply that ended by itself answered everything (takeQueued: "a        *)
(* message can never land accepted-but-unseen").                           *)
THEOREM AnswersEverything == Spec => []CleanEndAnswered
<1>1. IInv => CleanEndAnswered
  BY DEF IInv, Cleanly, CleanRun, LastIsReply, CleanEndAnswered
<1> QED BY <1>1, Inductive, PTL

(* No writer pushes stale history back: the registered run continues       *)
(* whatever is on file (Ahead), and a summary writes what it has read      *)
(* (Writers).                                                              *)
THEOREM OnlyAppends == Spec => HistoryAppendOnly
<1> DEFINE Grown == \E n \in 0..Len(disk') : SubSeq(disk', 1, n) = disk
<1>1. ASSUME IInv, IInv', [Next]_vars, disk # Gone, disk' # Gone PROVE Grown
  <2>1. disk \in List /\ disk' \in List
    BY <1>1 DEF IInv, Types
  <2>2. Prefix(disk, disk') => Grown
    BY <2>1, Prefixes
  <2>3. Prefix(disk, disk)
    BY <2>1, SelfPrefix
  <2>4. ASSUME NEW r \in Run, Wrote(r), Loaded(r) PROVE Prefix(disk, disk')
    <3>1. Prefix(disk, runs[r].hist)
      BY <1>1, <2>4 DEF IInv, Ahead, Files
    <3>2. runs[r].hist \in List /\ runs'[r].hist \in List
      BY <1>1 DEF IInv, Types, RunRec
    <3>3. Prefix(disk, runs'[r].hist)
      BY <2>1, <2>4, <3>1, <3>2, Prefixes DEF Wrote
    <3> QED BY <2>3, <2>4, <3>3 DEF Wrote
  <2>5. ASSUME NEW c \in Client, SendSave(c) PROVE Prefix(disk, disk')
    <3>1. PICK r : r = cl[c].ref
      OBVIOUS
    <3>2. r \in Run /\ Loaded(r) /\ Wrote(r)
      <4>1. PICK m : m = cl[c].msg
        OBVIOUS
      <4> QED BY <1>1, <2>5, <3>1, <4>1, SaveFacts
    <3> QED BY <2>4, <3>2
  <2>6. ASSUME NEW r \in Run, Loop(r) PROVE Prefix(disk, disk')
    <3>1. CASE Unregister(r)
      BY <2>3, <3>1 DEF Unregister
    <3>2. CASE ~Unregister(r)
      <4>1. LoopsOn(r)
        BY <1>1, <2>6, <3>2, LoopFacts DEF IInv
      <4>2. Loaded(r) /\ Wrote(r)
        BY <4>1 DEF LoopsOn, Loaded
      <4> QED BY <2>4, <4>2
    <3> QED BY <3>1, <3>2
  <2>7. ASSUME NEW r \in Run, Summary(r) PROVE disk' = disk
    BY <1>1, <2>7 DEF Summary, SummaryLoad, SummaryWrite, IInv, Writers, Writer
  <2>8. ASSUME NEW c \in Client, Request(c) \/ Handle(c), ~SendSave(c) PROVE disk' = disk
    BY <1>1, <2>8 DEF Request, Begin, Handle, SendLoad, SendRegister, SendReread, LoadRun, Queue, answerConfirm,
                      Stop, DrainStop, DrainWait, DeleteFile, DeleteAgain, Exists
  <2>9. ASSUME UNCHANGED vars \/ Sweep \/ SweepGivesUp PROVE Prefix(disk, disk')
    <3>1. disk' = disk
      BY <1>1, <2>9 DEF vars, Sweep, SweepGivesUp
    <3> QED BY <2>3, <3>1
  <2>10. Prefix(disk, disk')
    BY <1>1, <2>3, <2>5, <2>6, <2>7, <2>8, <2>9 DEF Next
  <2> QED BY <2>2, <2>10
<1>2. IInv /\ IInv' /\ [Next]_vars => [disk # Gone /\ disk' # Gone => Grown]_vars
  BY <1>1
<1> QED BY <1>2, Inductive, PTL DEF Spec, HistoryAppendOnly

(* A confirmed tool runs under a number a user has approved, of this reply *)
(* or of an earlier one: the answer carries the number and not the reply.  *)
ApprovedByNumber == \A p \in ran : \E q \in 1..p[1] : <<q, p[2]>> \in yes

(* Every confirmed tool that ran has such an approval.                     *)
THEOREM RunsApprovedNumbers == Spec => []ApprovedByNumber
<1>1. IInv => ApprovedByNumber
  BY DEF IInv, Numbers, Approved, ApprovedByNumber
<1> QED BY <1>1, Inductive, PTL

(* Within one reply the number is enough: a stale answer cannot approve a  *)
(* later confirmation.                                                     *)
THEOREM OneReplyApproves == ASSUME MaxRuns <= 1 PROVE Spec => []RanOnlyApproved
<1>1. IInv => RanOnlyApproved
  <2> SUFFICES ASSUME IInv, NEW p \in ran PROVE p \in yes
    BY DEF RanOnlyApproved
  <2>1. PICK r \in Run, i \in Nat : p = <<r, i>>
    BY DEF IInv, Types
  <2>2. r = 1
    BY ChatAssumption DEF Run
  <2>3. PICK q \in 1..1 : <<q, i>> \in yes
    BY <2>1, <2>2 DEF IInv, Numbers, Approved
  <2> QED BY <2>1, <2>2, <2>3
<1> QED BY <1>1, Inductive, PTL
=============================================================================
