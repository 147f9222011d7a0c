------------------------------ MODULE PeerMesh ------------------------------
(***************************************************************************)
(* How nodes come to know one another (internal/peer: pairing, peers.go,   *)
(* auth.go; server/peers.go).  A node mints single-use join codes; another *)
(* node pairs with one and takes over the first one's peer list; every     *)
(* reconcile adopts the peers the other side knows, so the mesh closes.    *)
(* Leaving tells the peer first, best effort.  Node ids are fingerprints   *)
(* of keys, so an id and its key are one thing here.                       *)
(***************************************************************************)
EXTENDS Integers, FiniteSets

CONSTANTS
    Node,         \* numbers: they order the peer list
    Mesh,         \* nodes that are paired with one another to begin with
    MaxCodes,     \* bound: join codes minted
    MaxJoins,     \* bound: Join calls, a retry counted again
    MaxMoves      \* bound: Join and Leave calls and restarts together

ASSUME MeshAssumption ==
    /\ Node \subseteq Nat \ {0} /\ Mesh \subseteq Node
    /\ MaxCodes \in Nat

VARIABLES
    peers,     \* node -> the peers on file (peers.json): id -> [name, addr]
    name,      \* node -> its own name
    codes,     \* node -> live join codes (in memory)
    minted,    \* codes minted so far
    join,      \* node -> its Join in progress, or NoJoin
    pairings,  \* POST /v1/peer/pair requests on their way
    leaving,   \* <<n, p>>: n's Leave of p waits for p to answer
    pass,      \* node -> peers this pass of the Start loop still visits
    answer,    \* node -> the manifest answer it is about to use, or NoAnswer
    joins, upsets,    \* counted against their bounds
    admitted   \* history: code -> <<joiner, minter>> of the pairings it made

vars == <<peers, name, codes, minted, join, pairings, leaving, pass, answer,
          joins, upsets, admitted>>

NoJoin == [st |-> "none"]
NoAnswer == [from |-> 0]

Code == 1..MaxCodes

Knows(n, p) == p \in DOMAIN peers[n]

(* Upsert: an empty address leaves the old one; a new peer has what it is  *)
(* given.                                                                  *)
Upsert(list, p, nm, addr) ==
    [q \in DOMAIN list \cup {p} |->
        IF q # p THEN list[q]
        ELSE [name |-> nm,
              addr |-> addr \/ (p \in DOMAIN list /\ list[p].addr)]]

(* Remove.                                                                 *)
Without(list, p) == [q \in DOMAIN list \ {p} |-> list[q]]

(* adoptPeer for every peer of a gossiped list: names and addresses are    *)
(* the gossiper's, self is passed over.                                    *)
AdoptAll(n, list, gossip) ==
    LET new == DOMAIN gossip \ {n}
    IN  [q \in DOMAIN list \cup new |->
            IF q \notin new THEN list[q]
            ELSE [name |-> gossip[q].name,
                  addr |-> gossip[q].addr \/ (q \in DOMAIN list /\ list[q].addr)]]

-----------------------------------------------------------------------------
(* Pairing.                                                                *)

MintCode(n) ==
    /\ minted < MaxCodes
    /\ minted' = minted + 1
    /\ codes' = [codes EXCEPT ![n] = @ \cup {minted'}]
    /\ UNCHANGED <<peers, name, join, pairings, leaving, pass, answer, joins,
                   upsets, admitted>>

(* codeTTL passes.                                                         *)
CodeExpires(n, c) ==
    /\ c \in codes[n]
    /\ codes' = [codes EXCEPT ![n] = @ \ {c}]
    /\ UNCHANGED <<peers, name, minted, join, pairings, leaving, pass, answer,
                   joins, upsets, admitted>>

(* Join: the user enters an address and a code that was read out to them.  *)
Join(j, n, c) ==
    /\ joins < MaxJoins
    /\ joins + upsets < MaxMoves
    /\ joins' = joins + 1
    /\ j # n
    /\ c <= minted
    /\ join[j] = NoJoin
    /\ join' = [join EXCEPT ![j] = [st |-> "asked", to |-> n, k |-> joins']]
    /\ pairings' = pairings \cup {[from |-> j, to |-> n, code |-> c, k |-> joins']}
    /\ UNCHANGED <<peers, name, codes, minted, leaving, pass, answer, upsets,
                   admitted>>

Waiting(m) == join[m.from].st = "asked" /\ join[m.from].k = m.k

Reply(m, r) == join' = IF Waiting(m) THEN [join EXCEPT ![m.from] = r] ELSE join

(* Mutant: the code outlives its use.                                      *)
BugHandlePair(m) ==
    /\ m.code \in codes[m.to]
    /\ peers' = [peers EXCEPT ![m.to] = Upsert(@, m.from, name[m.from], TRUE)]
    /\ Reply(m, [st |-> "paired", to |-> m.to, name |-> name[m.to], gossip |-> peers'[m.to]])
    /\ admitted' = [admitted EXCEPT ![m.code] = @ \cup {<<m.from, m.to>>}]
    /\ pairings' = pairings \ {m}
    /\ UNCHANGED <<name, codes, minted, leaving, pass, answer, joins, upsets>>

(* HandlePair: the code is checked and spent under codeMu; then the joiner *)
(* is on file and gets our identity and our peers.  The joiner may have    *)
(* given up meanwhile.                                                     *)
HandlePair(m) ==
    /\ m.code \in codes[m.to]
    /\ codes' = [codes EXCEPT ![m.to] = @ \ {m.code}]
    /\ peers' = [peers EXCEPT ![m.to] = Upsert(@, m.from, name[m.from], TRUE)]
    /\ Reply(m, [st |-> "paired", to |-> m.to, name |-> name[m.to], gossip |-> peers'[m.to]])
    /\ admitted' = [admitted EXCEPT ![m.code] = @ \cup {<<m.from, m.to>>}]
    /\ pairings' = pairings \ {m}
    /\ UNCHANGED <<name, minted, leaving, pass, answer, joins, upsets>>

(* ... or it is not a live code of this node.                              *)
PairRefused(m) ==
    /\ m.code \notin codes[m.to]
    /\ Reply(m, NoJoin)
    /\ pairings' = pairings \ {m}
    /\ UNCHANGED <<peers, name, codes, minted, leaving, pass, answer, joins,
                   upsets, admitted>>

(* The answer arrives: the other node, then everyone it knows.             *)
JoinDone(j) ==
    /\ join[j].st = "paired"
    /\ peers' = [peers EXCEPT ![j] =
                   AdoptAll(j, Upsert(@, join[j].to, join[j].name, TRUE), join[j].gossip)]
    /\ join' = [join EXCEPT ![j] = NoJoin]
    /\ UNCHANGED <<name, codes, minted, pairings, leaving, pass, answer, joins,
                   upsets, admitted>>

(* The request, or the answer to it, times out.                            *)
JoinFails(j) ==
    /\ join[j] # NoJoin
    /\ join' = [join EXCEPT ![j] = NoJoin]
    /\ UNCHANGED <<peers, name, codes, minted, pairings, leaving, pass, answer,
                   joins, upsets, admitted>>

-----------------------------------------------------------------------------
(* Leaving.                                                                *)

(* Leave sends the unpair request; VerifyRequest turns away a node that    *)
(* the peer has not on file; a peer out of reach never hears of it.        *)
Leave(n, p) ==
    /\ joins + upsets < MaxMoves
    /\ upsets' = upsets + 1
    /\ Knows(n, p)
    /\ <<n, p>> \notin leaving
    /\ leaving' = leaving \cup {<<n, p>>}
    /\ \/ Knows(p, n) /\ peers[n][p].addr /\ peers' = [peers EXCEPT ![p] = Without(@, n)]
       \/ UNCHANGED peers
    /\ UNCHANGED <<name, codes, minted, join, pairings, pass, answer, joins,
                   admitted>>

(* Whatever came of it, the peer is dropped.                               *)
LeaveDone(n, p) ==
    /\ <<n, p>> \in leaving
    /\ leaving' = leaving \ {<<n, p>>}
    /\ peers' = [peers EXCEPT ![n] = Without(@, p)]
    /\ UNCHANGED <<name, codes, minted, join, pairings, pass, answer, joins,
                   upsets, admitted>>

-----------------------------------------------------------------------------
(* Gossip: the peer-list half of a reconcile.                              *)

InPass(n) == pass[n] # {} \/ answer[n] # NoAnswer

(* The Start loop lists the peers once per pass, each with its address     *)
(* and the name it had, and visits them in the order of names and ids.     *)
StartPass(n) ==
    /\ ~InPass(n)
    /\ pass' = [pass EXCEPT ![n] = {[id |-> p, name |-> peers[n][p].name, addr |-> peers[n][p].addr] :
                                      p \in DOMAIN peers[n]}]
    /\ UNCHANGED <<peers, name, codes, minted, join, pairings, leaving, answer,
                   joins, upsets, admitted>>

(* GET /v1/peer/manifest: only a node on file is answered.                 *)
Ask(n, e) ==
    /\ answer[n] = NoAnswer
    /\ \A f \in pass[n] : e.name < f.name \/ (e.name = f.name /\ e.id <= f.id)
    /\ pass' = [pass EXCEPT ![n] = @ \ {e}]
    /\ answer' = IF e.addr /\ Knows(e.id, n)
                 THEN [answer EXCEPT ![n] = [from |-> e.id, old |-> e.name,
                                             name |-> name[e.id], gossip |-> peers[e.id]]]
                 ELSE answer
    /\ UNCHANGED <<peers, name, codes, minted, join, pairings, leaving, joins,
                   upsets, admitted>>

(* Mutant: only the peer itself is looked at, not whom it knows.           *)
BugAdopted(n, list, gossip) == list

(* Every peer of the answer that is not on file is adopted.                *)
Adopted(n, list, gossip) ==
    AdoptAll(n, list, [q \in DOMAIN gossip \ DOMAIN list |-> gossip[q]])

(* The answer is used: a new name is put on file - and with it, without    *)
(* an address, a peer that has been removed since the list was made.       *)
UseAnswer(n) ==
    /\ answer[n] # NoAnswer
    /\ LET ans == answer[n]
           renamed == IF ans.name # ans.old THEN Upsert(peers[n], ans.from, ans.name, FALSE)
                                            ELSE peers[n]
       IN  peers' = [peers EXCEPT ![n] = Adopted(n, renamed, ans.gossip)]
    /\ answer' = [answer EXCEPT ![n] = NoAnswer]
    /\ UNCHANGED <<name, codes, minted, join, pairings, leaving, pass, joins,
                   upsets, admitted>>

(* The daemon restarts, perhaps under another host name: peers.json stays, *)
(* codes and calls in progress go.                                         *)
Restart(n, nm) ==
    /\ joins + upsets < MaxMoves
    /\ upsets' = upsets + 1
    /\ name' = [name EXCEPT ![n] = nm]
    /\ codes' = [codes EXCEPT ![n] = {}]
    /\ join' = [join EXCEPT ![n] = NoJoin]
    /\ leaving' = {l \in leaving : l[1] # n}
    /\ pass' = [pass EXCEPT ![n] = {}]
    /\ answer' = [answer EXCEPT ![n] = NoAnswer]
    /\ UNCHANGED <<peers, minted, pairings, joins, admitted>>

-----------------------------------------------------------------------------
Init ==
    /\ peers = [n \in Node |->
                  [p \in (IF n \in Mesh THEN Mesh \ {n} ELSE {}) |-> [name |-> 1, addr |-> TRUE]]]
    /\ name = [n \in Node |-> 1]
    /\ codes = [n \in Node |-> {}]
    /\ minted = 0
    /\ join = [n \in Node |-> NoJoin]
    /\ pairings = {} /\ leaving = {}
    /\ pass = [n \in Node |-> {}]
    /\ answer = [n \in Node |-> NoAnswer]
    /\ joins = 0 /\ upsets = 0
    /\ admitted = [c \in Code |-> {}]

Loop(n) == StartPass(n) \/ (\E e \in pass[n] : Ask(n, e)) \/ UseAnswer(n)

Next ==
    \/ \E n \in Node : MintCode(n) \/ Loop(n) \/ JoinDone(n) \/ JoinFails(n)
    \/ \E n \in Node, c \in Code : CodeExpires(n, c)
    \/ \E j, n \in Node, c \in Code : Join(j, n, c)
    \/ \E m \in pairings : HandlePair(m) \/ PairRefused(m)
    \/ \E n, p \in Node : Leave(n, p) \/ LeaveDone(n, p)
    \/ \E n \in Node, nm \in 1..2 : Restart(n, nm)

Spec == Init /\ [][Next]_vars

(* The reconcile loop of every node keeps running.                         *)
FairSpec ==
    /\ Spec
    /\ \A n \in Node : WF_vars(Loop(n)) /\ \A p \in Node : WF_vars(LeaveDone(n, p))

-----------------------------------------------------------------------------
(* Properties.                                                             *)

(* checkCode, "single use": however often a code is presented, by retries  *)
(* of a Join that was given up or by several nodes, it enrolls one node.   *)
OneNodePerCode == \A c \in Code : Cardinality(admitted[c]) <= 1

Reaches(n, p) == Knows(n, p) /\ peers[n][p].addr

(* reconcile, "that's what makes a third node joining B also sync with A": *)
(* in the end a node knows everyone known to a peer that it reaches and    *)
(* that answers it.                                                        *)
MeshCloses ==
    <>[](\A n, p, q \in Node :
            (Reaches(n, p) /\ Knows(p, n) /\ Knows(p, q) /\ q # n) => Knows(n, q))
=============================================================================
